--------------------------- MODULE NrRlcAm_proofs ---------------------------
(***************************************************************************)
(* Proofs for NrRlcAm, on links where no STATUS PDU overtakes another: the *)
(* inductive invariant, what the two entities keep true of each other, and *)
(* that they implement the safety part of AmService.                       *)
(*                                                                         *)
(* Sequence numbers are proved about through the SDUs they stand for: the  *)
(* invariant names the first SDU that is not acknowledged, those of VR(MS) *)
(* and VR(H), and for each STATUS PDU under way the SDUs it speaks of.     *)
(***************************************************************************)
EXTENDS NrRlcAm, SequenceTheorems, FiniteSetTheorems, WellFoundedInduction, TLAPS

(* A STATUS PDU never overtakes another. *)
InOrder == ~Overtakes

(* SDU n is at the receiver; it is in a buffer of the transmitter. *)
Got(n) == n <= Len(delivered) \/ rxon[SnOf(n)] = n
OnTx(n) == txed[SnOf(n)] = n \/ retx[SnOf(n)] = n

(* A buffer holds SDUs from..to only, each in its slot. *)
Fits(buffer, from, to) ==
    \A sn \in Sn : buffer[sn] # 0 => buffer[sn] \in from..to /\ SnOf(buffer[sn]) = sn

(* a is the first SDU that is not acknowledged. *)
Transmitter(a) ==
    /\ vtA = SnOf(a) /\ a <= built + 1 /\ built < a + W
    /\ Fits(txed, a, built) /\ Fits(retx, a, built)
    /\ \A sn \in Sn : txed[sn] = 0 \/ retx[sn] = 0
    /\ built > 0 => pollSn = SnOf(built)

(* Once a report has stopped the poll timer all is in retx, from where it  *)
(* is sent in order, and the last one polls.                               *)
Asks ==
    \/ pollTimer \/ justExpired
    \/ Waiting /\ ~Stalled
    \/ \A sn \in Held(txed) : \E other \in Held(retx) : txed[sn] < retx[other]

(* ms and h are the SDUs that VR(MS) and VR(H) stand for. *)
Receiver(ms, h) ==
    /\ delivered = [i \in 1..Len(delivered) |-> i]
    /\ vrR = SnOf(Len(delivered) + 1) /\ vrMs = SnOf(ms) /\ vrH = SnOf(h)
    /\ Len(delivered) < ms /\ ms <= h /\ h <= built + 1
    /\ Fits(rxon, Len(delivered) + 2, h - 1)
    /\ reordering => \E x \in (Len(delivered) + 2)..h : vrX = SnOf(x)
    /\ ms # h => reordering

Links(a) ==
    /\ a <= Len(delivered) + 1
    /\ \A i \in DOMAIN air : air[i].n <= built
    /\ \A n \in 1..built : Got(n) \/ OnTx(n)

(* A STATUS PDU speaks of the SDUs from lo, the first one it asks for, up  *)
(* to k.  What it asks for is still at the transmitter, and what it        *)
(* acknowledges is at the receiver.                                        *)
Report(s, a, lo, k) ==
    /\ a <= lo /\ lo <= Len(delivered) + 1
    /\ lo <= k /\ k <= built + 1
    /\ s.ack = SnOf(k)
    /\ lo < k => SnOf(lo) \in s.nacks
    /\ \A sn \in s.nacks : \E n \in lo..(k - 1) : sn = SnOf(n)
    /\ \A n \in lo..(k - 1) : IF SnOf(n) \in s.nacks THEN OnTx(n) ELSE Got(n)

(* A later one asks for nothing that an earlier one acknowledges. *)
Reports(a, lo, k) ==
    /\ \A i \in DOMAIN statuses : Report(statuses[i], a, lo[i], k[i])
    /\ \A i, j \in DOMAIN statuses : i < j =>
          /\ lo[i] <= lo[j]
          /\ \A n \in lo[j]..(k[j] - 1) :
                SnOf(n) \in statuses[j].nacks /\ n < k[i] => SnOf(n) \in statuses[i].nacks

Stands(a, ms, h, lo, k) == Transmitter(a) /\ Receiver(ms, h) /\ Links(a) /\ Reports(a, lo, k)

IInv ==
    /\ TypeOK /\ Asks
    /\ \E a, ms, h \in 1..(built + 1) :
       \E lo, k \in [DOMAIN statuses -> 1..(built + 1)] : Stands(a, ms, h, lo, k)

-----------------------------------------------------------------------------
LEMMA WindowFacts == W \in Nat \ {0} /\ M \in Nat \ {0} /\ M = 2 * W /\ Sn = 0..(M - 1)
  BY WindowAssumption DEF Sn

LEMMA Divides ==
    ASSUME NEW n \in Int
    PROVE  n % M \in 0..(M - 1) /\ \E q \in Int : n = M * q + (n % M)
<1>1. n \div M \in Int
  BY WindowFacts, SMT
<1>2. n = M * (n \div M) + (n % M)
  BY WindowFacts, SMT
<1>3. n % M \in 0..(M - 1)
  BY WindowFacts, SMT
<1> QED
  BY <1>1, <1>2, <1>3, Zenon

LEMMA Multiples ==
    ASSUME NEW d \in Int
    PROVE  /\ d >= 1 => M * d >= M
           /\ \A e \in Int : M * (d - e) = M * d - M * e /\ M * (d + e) = M * d + M * e
<1>1. ASSUME d >= 1 PROVE M * d >= M
  BY <1>1, WindowFacts, SMT
<1>2. ASSUME NEW e \in Int PROVE M * (d - e) = M * d - M * e
  BY WindowFacts, SMT
<1>3. ASSUME NEW e \in Int PROVE M * (d + e) = M * d + M * e
  BY WindowFacts, SMT
<1> QED
  BY <1>1, <1>2, <1>3

LEMMA Remainder ==
    ASSUME NEW p \in Int, NEW q \in Int, NEW r \in 0..(M - 1), NEW s \in 0..(M - 1),
           M * p + r = M * q + s
    PROVE  p = q /\ r = s
<1> DEFINE mp == M * p
           mq == M * q
<1>1. M \in Nat \ {0}
  BY WindowFacts
<1>2. mp \in Int /\ mq \in Int /\ mp + r = mq + s
  BY <1>1
<1>3. M * (p - q) = mp - mq /\ M * (q - p) = mq - mp
  BY Multiples
<1>4. p - q \in Int /\ q - p \in Int
  OBVIOUS
<1>5. ~(p - q >= 1)
  <2> SUFFICES ASSUME p - q >= 1 PROVE FALSE
    OBVIOUS
  <2>1. M * (p - q) >= M
    BY <1>4, Multiples
  <2> HIDE DEF mp, mq
  <2> QED
    BY <1>1, <1>2, <1>3, <2>1
<1>6. ~(q - p >= 1)
  <2> SUFFICES ASSUME q - p >= 1 PROVE FALSE
    OBVIOUS
  <2>1. M * (q - p) >= M
    BY <1>4, Multiples
  <2> HIDE DEF mp, mq
  <2> QED
    BY <1>1, <1>2, <1>3, <2>1
<1>7. p = q
  BY <1>5, <1>6
<1>8. mp = mq
  BY <1>7
<1> HIDE DEF mp, mq
<1> QED
  BY <1>1, <1>2, <1>7, <1>8

(* Adding a remainder is adding the number. *)
LEMMA ModOfSum ==
    ASSUME NEW n \in Int, NEW k \in Int
    PROVE  ((n % M) + k) % M = (n + k) % M /\ (k - (n % M)) % M = (k - n) % M
<1>1. PICK q \in Int : n = M * q + (n % M)
  BY Divides
<1> DEFINE r == n % M
           mq == M * q
<1>2. r \in Int /\ mq \in Int /\ n = mq + r
  BY <1>1, Divides, WindowFacts
<1>3. (r + k) % M = (n + k) % M
  <2>1. PICK u \in Int : r + k = M * u + ((r + k) % M)
    BY <1>2, Divides
  <2>2. PICK v \in Int : n + k = M * v + ((n + k) % M)
    BY <1>2, Divides
  <2>3. M * (q + u) = mq + M * u
    BY Multiples
  <2>4. (r + k) % M \in 0..(M - 1) /\ (n + k) % M \in 0..(M - 1)
    BY <1>2, Divides
  <2>5. M * (q + u) + ((r + k) % M) = M * v + ((n + k) % M)
    <3> DEFINE a == (r + k) % M
               b == (n + k) % M
               mu == M * u
               mv == M * v
               mqu == M * (q + u)
    <3>1. mu \in Int /\ mv \in Int /\ mqu \in Int /\ a \in Int /\ b \in Int
      BY <2>4, WindowFacts
    <3>2. r + k = mu + a /\ n + k = mv + b /\ mqu = mq + mu
      BY <2>1, <2>2, <2>3
    <3> HIDE DEF mq, r, a, b, mu, mv, mqu
    <3>3. mqu + a = mv + b
      BY <1>2, <3>1, <3>2
    <3> QED
      BY <3>3 DEF a, b, mv, mqu
  <2>6. q + u \in Int
    OBVIOUS
  <2> QED
    BY <2>4, <2>5, <2>6, Remainder
<1>4. (k - r) % M = (k - n) % M
  <2>1. PICK u \in Int : k - r = M * u + ((k - r) % M)
    BY <1>2, Divides
  <2>2. PICK v \in Int : k - n = M * v + ((k - n) % M)
    BY <1>2, Divides
  <2>3. M * (u - q) = M * u - mq
    BY Multiples
  <2>4. (k - r) % M \in 0..(M - 1) /\ (k - n) % M \in 0..(M - 1)
    BY <1>2, Divides
  <2>5. M * (u - q) + ((k - r) % M) = M * v + ((k - n) % M)
    <3> DEFINE a == (k - r) % M
               b == (k - n) % M
               mu == M * u
               mv == M * v
               mqu == M * (u - q)
    <3>1. mu \in Int /\ mv \in Int /\ mqu \in Int /\ a \in Int /\ b \in Int
      BY <2>4, WindowFacts
    <3>2. k - r = mu + a /\ k - n = mv + b /\ mqu = mu - mq
      BY <2>1, <2>2, <2>3
    <3> HIDE DEF mq, r, a, b, mu, mv, mqu
    <3>3. mqu + a = mv + b
      BY <1>2, <3>1, <3>2
    <3> QED
      BY <3>3 DEF a, b, mv, mqu
  <2>6. u - q \in Int
    OBVIOUS
  <2> QED
    BY <2>4, <2>5, <2>6, Remainder
<1> QED
  BY <1>3, <1>4

LEMMA SmallMod ==
    ASSUME NEW r \in 0..(M - 1)
    PROVE  r % M = r
  BY WindowFacts, SMT

(* Within M consecutive numbers a sequence number stands for one, and its  *)
(* distance from the base is that of the numbers.                          *)
LEMMA SnFacts ==
    ASSUME NEW n \in Int
    PROVE  /\ SnOf(n) \in Sn
           /\ \A k \in Int : Plus(SnOf(n), k) = SnOf(n + k)
           /\ \A b \in Int : n - b \in 0..(M - 1) => Rel(SnOf(n), SnOf(b)) = n - b
           /\ \A b \in Int : n - b \in 0..(M - 1) /\ SnOf(b) = SnOf(n) => b = n
           /\ \A b \in Int : Rel(SnOf(n), SnOf(b)) \in 0..(M - 1)
<1>1. SnOf(n) \in Sn
  <2>1. n - 1 \in Int
    OBVIOUS
  <2> QED
    BY <2>1, Divides, WindowFacts DEF SnOf
<1>2. ASSUME NEW k \in Int PROVE Plus(SnOf(n), k) = SnOf(n + k)
  <2>1. n - 1 \in Int /\ (n - 1) + k = (n + k) - 1
    OBVIOUS
  <2> QED
    BY <2>1, ModOfSum DEF SnOf, Plus
<1>3. ASSUME NEW b \in Int
      PROVE  Rel(SnOf(n), SnOf(b)) = (n - b) % M
  <2> DEFINE x == n - 1
             y == b - 1
             rx == x % M
             ry == y % M
  <2>1. x \in Int /\ y \in Int /\ rx \in Int /\ ry \in Int /\ -ry \in Int /\ x - y = n - b
    BY Divides, WindowFacts
  <2>2. (rx + (-ry)) % M = (x + (-ry)) % M
    BY <2>1, ModOfSum
  <2>3. (x - ry) % M = (x - y) % M
    BY <2>1, ModOfSum
  <2>4. rx + (-ry) = rx - ry /\ x + (-ry) = x - ry
    <3> HIDE DEF rx, ry
    <3> QED
      BY <2>1
  <2>5. (rx - ry) % M = (x - y) % M
    BY <2>2, <2>3, <2>4
  <2>6. Rel(SnOf(n), SnOf(b)) = (rx - ry) % M
    BY DEF Rel, SnOf
  <2> QED
    BY <2>1, <2>5, <2>6
<1>4. ASSUME NEW b \in Int, n - b \in 0..(M - 1)
      PROVE  Rel(SnOf(n), SnOf(b)) = n - b
  BY <1>3, <1>4, SmallMod
<1>5. ASSUME NEW b \in Int, n - b \in 0..(M - 1), SnOf(b) = SnOf(n)
      PROVE  b = n
  <2>1. Rel(SnOf(n), SnOf(b)) = n - b
    BY <1>4, <1>5
  <2>2. SnOf(n) \in Int
    BY <1>1, WindowFacts
  <2>3. Rel(SnOf(n), SnOf(b)) = 0
    BY <1>5, <2>2, SmallMod, WindowFacts DEF Rel
  <2> QED
    BY <1>5, <2>1, <2>3
<1>6. ASSUME NEW b \in Int PROVE Rel(SnOf(n), SnOf(b)) \in 0..(M - 1)
  BY <1>3, Divides
<1> QED
  BY <1>1, <1>2, <1>4, <1>5, <1>6

(* Every sequence number stands for one of M consecutive numbers. *)
LEMMA SnExists ==
    ASSUME NEW sn \in Sn, NEW b \in Int
    PROVE  \E n \in b..(b + M - 1) : SnOf(n) = sn
<1> DEFINE d == (sn - (b - 1)) % M
           n == b + d
<1>1. sn \in Int /\ sn - (b - 1) \in Int
  BY WindowFacts
<1>2. d \in 0..(M - 1)
  BY <1>1, Divides
<1>3. n \in b..(b + M - 1)
  BY <1>2, WindowFacts
<1>4. (d + (b - 1)) % M = ((sn - (b - 1)) + (b - 1)) % M
  BY <1>1, ModOfSum
<1>5. (sn - (b - 1)) + (b - 1) = sn /\ d + (b - 1) = n - 1
  BY <1>1, <1>2, WindowFacts
<1>6. sn % M = sn
  BY SmallMod, WindowFacts
<1>7. SnOf(n) = sn
  BY <1>4, <1>5, <1>6 DEF SnOf
<1> QED
  BY <1>3, <1>7

-----------------------------------------------------------------------------
LEMMA Least ==
    ASSUME NEW S \in SUBSET Nat, S # {}
    PROVE  \E m \in S : \A n \in S : m <= n
<1>1. PICK m \in S : \A n \in S : <<n, m>> \notin OpToRel(<, Nat)
  BY WFMin, NatLessThanWellFounded, Zenon
<1>2. \A n \in S : ~(n < m)
  BY <1>1, Zenon DEF OpToRel
<1> QED
  BY <1>2

(* The search for the next number that is missing. *)
LEMMA FirstMissingFacts ==
    ASSUME NEW buffer, NEW m \in Int, NEW e \in Int, e - m \in 0..(M - 1), buffer[SnOf(e)] = 0
    PROVE  \E f \in m..e : /\ FirstMissing(buffer, SnOf(m)) = SnOf(f)
                           /\ buffer[SnOf(f)] = 0
                           /\ \A j \in m..(f - 1) : buffer[SnOf(j)] # 0
<1> DEFINE Empty == {k \in 0..(M - 1) : buffer[Plus(SnOf(m), k)] = 0}
           IsFirst(k) == /\ buffer[Plus(SnOf(m), k)] = 0
                         /\ \A j \in 0..(k - 1) : buffer[Plus(SnOf(m), j)] # 0
<1>1. \A k \in Int : Plus(SnOf(m), k) = SnOf(m + k)
  BY SnFacts
<1>2. e - m \in Empty
  <2>1. m + (e - m) = e
    OBVIOUS
  <2> QED
    BY <1>1, <2>1
<1>3. PICK l \in Empty : \A n \in Empty : l <= n
  <2>1. Empty \in SUBSET Nat /\ Empty # {}
    BY <1>2, WindowFacts
  <2> HIDE DEF Empty
  <2> QED
    BY <2>1, Least
<1>4. IsFirst(l)
  BY <1>3, WindowFacts
<1> DEFINE k == CHOOSE k \in 0..(M - 1) : IsFirst(k)
<1>5. k \in 0..(M - 1) /\ IsFirst(k)
  <2> HIDE DEF IsFirst
  <2> QED
    BY <1>3, <1>4, Zenon
<1>6. FirstMissing(buffer, SnOf(m)) = Plus(SnOf(m), k)
  BY DEF FirstMissing
<1> HIDE DEF k
<1>7. ~(e - m < k)
  BY <1>2, <1>5
<1>8. m + k \in m..e
  BY <1>5, <1>7, WindowFacts
<1>9. \A j \in m..((m + k) - 1) : buffer[SnOf(j)] # 0
  <2> SUFFICES ASSUME NEW j \in m..((m + k) - 1) PROVE buffer[SnOf(j)] # 0
    OBVIOUS
  <2>1. j - m \in 0..(k - 1) /\ m + (j - m) = j /\ j - m \in Int
    BY <1>5, WindowFacts
  <2>2. Plus(SnOf(m), j - m) = SnOf(j)
    BY <1>1, <2>1
  <2> QED
    BY <1>5, <2>1, <2>2
<1>10. FirstMissing(buffer, SnOf(m)) = SnOf(m + k) /\ buffer[SnOf(m + k)] = 0
  <2>1. Plus(SnOf(m), k) = SnOf(m + k)
    BY <1>1, <1>5, WindowFacts
  <2> QED
    BY <1>5, <1>6, <2>1
<1> DEFINE f == m + k
<1>11. f \in m..e /\ FirstMissing(buffer, SnOf(m)) = SnOf(f) /\ buffer[SnOf(f)] = 0
  BY <1>8, <1>10
<1>12. \A j \in m..(f - 1) : buffer[SnOf(j)] # 0
  BY <1>9
<1> HIDE DEF f
<1> QED
  BY <1>11, <1>12

(* The sequence numbers of the numbers from b up to k. *)
LEMMA SegmentFacts ==
    ASSUME NEW b \in Int, NEW k \in Int, k - b \in 0..(M - 1),
           NEW S, S = {sn \in Sn : Rel(sn, SnOf(b)) < k - b}
    PROVE  /\ \A n \in b..(k - 1) : SnOf(n) \in S
           /\ \A sn \in S : \E n \in b..(k - 1) : SnOf(n) = sn
           /\ \A n \in b..(b + M - 1) : SnOf(n) \in S <=> n < k
           /\ IsFiniteSet(S) /\ Cardinality(S) = k - b
<1>1. ASSUME NEW n \in b..(b + M - 1)
      PROVE  SnOf(n) \in S <=> n < k
  <2>1. n \in Int /\ n - b \in 0..(M - 1)
    BY WindowFacts
  <2>2. SnOf(n) \in Sn /\ Rel(SnOf(n), SnOf(b)) = n - b
    BY <2>1, SnFacts
  <2> QED
    BY <2>1, <2>2
<1>2. \A n \in b..(k - 1) : SnOf(n) \in S
  BY <1>1, WindowFacts
<1>3. ASSUME NEW sn \in S
      PROVE  \E n \in b..(k - 1) : SnOf(n) = sn
  <2>1. sn \in Sn
    OBVIOUS
  <2>2. PICK n \in b..(b + M - 1) : SnOf(n) = sn
    BY <2>1, SnExists
  <2>3. n < k
    BY <1>1, <2>2
  <2> QED
    BY <2>2, <2>3
<1>4. IsFiniteSet(S) /\ Cardinality(S) = k - b
  <2> DEFINE f == [n \in b..(k - 1) |-> SnOf(n)]
  <2>1. f \in Bijection(b..(k - 1), S)
    <3>1. f \in [b..(k - 1) -> S]
      BY <1>2
    <3>2. \A n, o \in b..(k - 1) : f[n] = f[o] => n = o
      <4> SUFFICES ASSUME NEW n \in b..(k - 1), NEW o \in b..(k - 1), SnOf(n) = SnOf(o)
                   PROVE  n = o
        OBVIOUS
      <4>1. n \in Int /\ o \in Int /\ (n - o \in 0..(M - 1) \/ o - n \in 0..(M - 1))
        BY WindowFacts
      <4> QED
        BY <4>1, SnFacts
    <3>3. \A sn \in S : \E n \in b..(k - 1) : f[n] = sn
      BY <1>3
    <3> HIDE DEF f
    <3> QED
      BY <3>1, <3>2, <3>3 DEF ExistsBijection, Bijection, Injection, Surjection, IsInjective
  <2>2. IsFiniteSet(b..(k - 1)) /\ Cardinality(b..(k - 1)) = k - b
    <3>1. k - 1 \in Int /\ (b > k - 1 <=> k - b = 0) /\ (k - 1) - b + 1 = k - b
      BY WindowFacts
    <3> QED
      BY <3>1, FS_Interval
  <2>3. ExistsBijection(b..(k - 1), S)
    BY <2>1 DEF ExistsBijection
  <2> QED
    BY <2>2, <2>3, FS_Bijection
<1> QED
  BY <1>1, <1>2, <1>3, <1>4

(* Sequence numbers seen from a base are ordered like numbers. *)
LEMMA Extremes ==
    ASSUME NEW r \in Int, NEW S \in SUBSET Sn
    PROVE  /\ \A x \in S : Rel(x, SnOf(r)) \in 0..(M - 1)
           /\ \A x, y \in S : Rel(x, SnOf(r)) = Rel(y, SnOf(r)) => x = y
           /\ IsFiniteSet(S)
           /\ S # {} => /\ \E x \in S : \A y \in S : Rel(x, SnOf(r)) <= Rel(y, SnOf(r))
                        /\ \E x \in S : \A y \in S : Rel(y, SnOf(r)) <= Rel(x, SnOf(r))
<1> DEFINE Pos(x) == Rel(x, SnOf(r))
<1>1. ASSUME NEW x \in Sn
      PROVE  Pos(x) \in 0..(M - 1) /\ x = SnOf(r + Pos(x))
  <2>1. PICK n \in r..(r + M - 1) : SnOf(n) = x
    BY SnExists
  <2>2. n \in Int /\ n - r \in 0..(M - 1) /\ r + (n - r) = n
    BY WindowFacts
  <2>3. Pos(x) = n - r
    BY <2>1, <2>2, SnFacts
  <2> QED
    BY <2>1, <2>2, <2>3
<1>2. IsFiniteSet(S)
  <2>1. IsFiniteSet(Sn)
    BY FS_Interval, WindowFacts
  <2> QED
    BY <2>1, FS_Subset
<1>3. ASSUME S # {}
      PROVE  \E x \in S : \A y \in S : Pos(x) <= Pos(y)
  <2> DEFINE P == {Pos(x) : x \in S}
  <2>1. P \in SUBSET Nat /\ P # {}
    <3>1. \A x \in S : Pos(x) \in Nat
      BY <1>1, WindowFacts
    <3> QED
      BY <1>3, <3>1
  <2>2. PICK m \in P : \A n \in P : m <= n
    <3> HIDE DEF P
    <3> QED
      BY <2>1, Least
  <2> QED
    BY <2>2
<1>4. ASSUME S # {}
      PROVE  \E x \in S : \A y \in S : Pos(y) <= Pos(x)
  <2> DEFINE P == {M - Pos(x) : x \in S}
  <2>1. P \in SUBSET Nat /\ P # {}
    <3>1. ASSUME NEW x \in S PROVE M - Pos(x) \in Nat
      <4>1. Pos(x) \in 0..(M - 1)
        BY <1>1
      <4> HIDE DEF Pos
      <4> QED
        BY <4>1, WindowFacts
    <3> QED
      BY <1>4, <3>1
  <2>2. PICK m \in P : \A n \in P : m <= n
    <3> HIDE DEF P
    <3> QED
      BY <2>1, Least
  <2>3. PICK x \in S : m = M - Pos(x)
    BY <2>2
  <2>4. ASSUME NEW y \in S PROVE Pos(y) <= Pos(x)
    <3>1. M - Pos(x) <= M - Pos(y)
      BY <2>2, <2>3
    <3>2. Pos(x) \in Int /\ Pos(y) \in Int /\ M \in Int
      BY <1>1, WindowFacts
    <3> HIDE DEF Pos
    <3> QED
      BY <3>1, <3>2
  <2> QED
    BY <2>4
<1> QED
  BY <1>1, <1>2, <1>3, <1>4

(* How many numbers are missing before each one that is. *)
LEMMA Ranks ==
    ASSUME NEW r \in Int, vrR = SnOf(r)
    PROVE  /\ IsFiniteSet(Missing) /\ Cardinality(Missing) \in Nat
           /\ \A sn \in Missing : /\ Cardinality(MissingBefore(sn)) \in Nat
                                  /\ Cardinality(MissingBefore(sn)) < Cardinality(Missing)
           /\ \A x, y \in Missing : Rel(x, vrR) < Rel(y, vrR)
                 => Cardinality(MissingBefore(x)) < Cardinality(MissingBefore(y))
           /\ \A room \in Nat : Cardinality(Missing) > room
                 => \E sn \in Missing : Cardinality(MissingBefore(sn)) = room
<1> DEFINE Pos(x) == Rel(x, vrR)
           Rank(x) == Cardinality(MissingBefore(x))
<1>1. Missing \in SUBSET Sn
  BY DEF Missing
<1>2. /\ \A x \in Missing : Pos(x) \in 0..(M - 1) /\ Pos(x) \in Int
      /\ \A x, y \in Missing : Pos(x) = Pos(y) => x = y
      /\ IsFiniteSet(Missing)
  <2>1. \A n \in 0..(M - 1) : n \in Int
    OBVIOUS
  <2> HIDE DEF Pos
  <2>2. /\ \A x \in Missing : Pos(x) \in 0..(M - 1)
        /\ \A x, y \in Missing : Pos(x) = Pos(y) => x = y
        /\ IsFiniteSet(Missing)
    BY <1>1, Extremes DEF Pos
  <2> QED
    BY <2>1, <2>2
<1>3. \A x : MissingBefore(x) = {y \in Missing : Pos(y) < Pos(x)}
  BY DEF MissingBefore
<1> HIDE DEF Pos
<1>4. ASSUME NEW x
      PROVE  /\ IsFiniteSet(MissingBefore(x)) /\ Rank(x) \in Nat
             /\ MissingBefore(x) \in SUBSET Missing
  <2>1. MissingBefore(x) \in SUBSET Missing
    BY <1>3
  <2> QED
    BY <1>2, <2>1, FS_Subset, FS_CardinalityType
<1>5. Cardinality(Missing) \in Nat
  BY <1>2, FS_CardinalityType
<1>6. ASSUME NEW x \in Missing, NEW S \in SUBSET Missing, x \in S, MissingBefore(x) \subseteq S
      PROVE  Rank(x) < Cardinality(S)
  <2>1. x \notin MissingBefore(x)
    BY <1>2, <1>3
  <2>2. IsFiniteSet(S) /\ Cardinality(S) \in Nat
    BY <1>2, FS_Subset, FS_CardinalityType
  <2>3. Rank(x) <= Cardinality(S) /\ (Cardinality(S) = Rank(x) => S = MissingBefore(x))
    BY <1>6, <2>2, FS_Subset
  <2> QED
    BY <1>4, <1>6, <2>1, <2>2, <2>3
<1>7. ASSUME NEW x \in Missing, NEW y \in Missing, Pos(x) < Pos(y)
      PROVE  Rank(x) < Rank(y)
  <2>1. x \in MissingBefore(y) /\ MissingBefore(x) \subseteq MissingBefore(y)
    BY <1>2, <1>3, <1>7
  <2>2. MissingBefore(y) \in SUBSET Missing
    BY <1>4
  <2> QED
    BY <1>6, <2>1, <2>2
<1>8. ASSUME NEW S \in SUBSET Missing, S # {},
             \A x \in S : \A y \in Missing : Pos(y) < Pos(x) => y \in S
      PROVE  \E g \in S : Rank(g) = Cardinality(S) - 1
  <2>1. PICK g \in S : \A y \in S : Pos(y) <= Pos(g)
    BY <1>1, <1>8, Extremes DEF Pos
  <2>2. MissingBefore(g) = S \ {g}
    <3>1. ASSUME NEW y \in MissingBefore(g) PROVE y \in S \ {g}
      BY <1>2, <1>3, <1>8, <3>1
    <3>2. ASSUME NEW y \in S \ {g} PROVE y \in MissingBefore(g)
      <4>1. Pos(y) # Pos(g) /\ Pos(y) <= Pos(g) /\ Pos(y) \in Int /\ Pos(g) \in Int
        BY <1>2, <2>1
      <4>2. Pos(y) < Pos(g)
        BY <4>1
      <4> QED
        BY <1>3, <4>2
    <3> QED
      BY <3>1, <3>2
  <2>3. IsFiniteSet(S)
    BY <1>2, FS_Subset
  <2> QED
    BY <2>2, <2>3, FS_RemoveElement
<1>9. ASSUME NEW room \in Nat, Cardinality(Missing) > room
      PROVE  \E sn \in Missing : Rank(sn) = room
  <2> DEFINE T == {sn \in Missing : Rank(sn) >= room}
  <2>1. T # {}
    <3>1. Missing # {}
      BY <1>2, <1>9, FS_EmptySet
    <3>2. PICK g \in Missing : Rank(g) = Cardinality(Missing) - 1
      BY <1>8, <3>1
    <3>3. Rank(g) >= room
      BY <1>5, <1>9, <3>2
    <3> QED
      BY <3>3
  <2>2. T \in SUBSET Sn
    BY <1>1
  <2>3. PICK t \in T : \A y \in T : Pos(t) <= Pos(y)
    <3> HIDE DEF T
    <3> QED
      BY <2>1, <2>2, Extremes DEF Pos
  <2>4. CASE Rank(t) = room
    BY <2>4
  <2>5. CASE Rank(t) # room
    <3>1. Rank(t) > room /\ Rank(t) \in Nat
      BY <1>4, <2>5
    <3>2. MissingBefore(t) # {} /\ MissingBefore(t) \in SUBSET Missing
      BY <1>4, <3>1, FS_EmptySet
    <3>3. \A x \in MissingBefore(t) : \A y \in Missing : Pos(y) < Pos(x) => y \in MissingBefore(t)
      BY <1>2, <1>3
    <3>4. PICK p \in MissingBefore(t) : Rank(p) = Rank(t) - 1
      <4> HIDE DEF T
      <4> QED
        BY <1>8, <3>2, <3>3
    <3>5. p \in T
      BY <3>1, <3>2, <3>4
    <3>6. Pos(p) < Pos(t) /\ Pos(p) \in Int /\ Pos(t) \in Int
      BY <1>2, <1>3, <3>2
    <3> QED
      BY <2>3, <3>5, <3>6
  <2> QED
    BY <2>4, <2>5
<1>10. \A sn \in Missing : Rank(sn) < Cardinality(Missing)
  BY <1>4, <1>6
<1> QED
  BY <1>2, <1>4, <1>5, <1>7, <1>9, <1>10 DEF Pos

(* What is left of a sequence when an element is taken out. *)
LEMMA RemoveFacts ==
    ASSUME NEW T, NEW s \in Seq(T), NEW i \in DOMAIN s
    PROVE  /\ RemoveAt(s, i) \in Seq(T)
           /\ DOMAIN RemoveAt(s, i) = 1..(Len(s) - 1) /\ DOMAIN s = 1..Len(s)
           /\ Len(s) \in Nat \ {0}
           /\ \A j \in 1..(Len(s) - 1) : RemoveAt(s, i)[j] = IF j < i THEN s[j] ELSE s[j + 1]
<1>1. Len(s) \in Nat \ {0} /\ DOMAIN s = 1..Len(s) /\ i \in 1..Len(s)
  BY LenProperties
<1> DEFINE l == SubSeq(s, 1, i - 1)
           r == SubSeq(s, i + 1, Len(s))
<1>2. l \in Seq(T) /\ Len(l) = i - 1 /\ \A j \in 1..(i - 1) : l[j] = s[j]
  BY <1>1, SubSeqProperties
<1>3. r \in Seq(T) /\ Len(r) = Len(s) - i /\ \A j \in 1..(Len(s) - i) : r[j] = s[i + j]
  BY <1>1, SubSeqProperties
<1>4. RemoveAt(s, i) = l \o r
  BY DEF RemoveAt
<1> HIDE DEF l, r
<1>5. l \o r \in Seq(T) /\ Len(l \o r) = Len(s) - 1
      /\ \A j \in 1..(Len(s) - 1) : (l \o r)[j] = IF j <= i - 1 THEN l[j] ELSE r[j - (i - 1)]
  <2>1. /\ l \o r \in Seq(T) /\ Len(l \o r) = Len(l) + Len(r)
        /\ \A j \in 1..(Len(l) + Len(r)) :
              (l \o r)[j] = IF j <= Len(l) THEN l[j] ELSE r[j - Len(l)]
    BY <1>2, <1>3, ConcatProperties
  <2>2. Len(l) + Len(r) = Len(s) - 1
    BY <1>1, <1>2, <1>3
  <2> QED
    BY <1>2, <2>1, <2>2
<1>6. ASSUME NEW j \in 1..(Len(s) - 1)
      PROVE  (l \o r)[j] = IF j < i THEN s[j] ELSE s[j + 1]
  <2>1. CASE j < i
    <3>1. j \in 1..(i - 1) /\ j <= i - 1
      BY <1>1, <2>1
    <3> QED
      BY <1>2, <1>5, <2>1, <3>1
  <2>2. CASE ~(j < i)
    <3>1. j - (i - 1) \in 1..(Len(s) - i) /\ ~(j <= i - 1) /\ i + (j - (i - 1)) = j + 1
      BY <1>1, <2>2
    <3>2. r[j - (i - 1)] = s[i + (j - (i - 1))]
      BY <1>3, <3>1
    <3> QED
      BY <1>5, <2>2, <3>1, <3>2
  <2> QED
    BY <2>1, <2>2
<1>7. DOMAIN (l \o r) = 1..(Len(s) - 1)
  BY <1>5, LenProperties
<1> QED
  BY <1>1, <1>4, <1>5, <1>6, <1>7

-----------------------------------------------------------------------------
LEMMA Types ==
    ASSUME TypeOK
    PROVE  /\ accepted \in Nat /\ built \in Nat /\ built <= accepted /\ accepted <= MaxSdus
           /\ txed \in [Sn -> 0..MaxSdus] /\ retx \in [Sn -> 0..MaxSdus]
           /\ rxon \in [Sn -> 0..MaxSdus]
           /\ delivered \in Seq(Sdu) /\ Len(delivered) \in Nat
           /\ air \in Seq(DataPdu) /\ statuses \in Seq(StatusPdu)
           /\ DOMAIN air = 1..Len(air) /\ Len(air) \in Nat
           /\ DOMAIN statuses = 1..Len(statuses) /\ Len(statuses) \in Nat
           /\ MaxSdus \in Nat
<1>1. accepted \in 0..MaxSdus /\ built \in 0..accepted /\ MaxSdus \in Nat
  BY LinkAssumption DEF TypeOK
<1>2. /\ delivered \in Seq(Sdu) /\ air \in Seq(DataPdu) /\ statuses \in Seq(StatusPdu)
      /\ txed \in [Sn -> 0..MaxSdus] /\ retx \in [Sn -> 0..MaxSdus] /\ rxon \in [Sn -> 0..MaxSdus]
  BY DEF TypeOK
<1> QED
  BY <1>1, <1>2, LenProperties

(* The window of the transmitter in numbers. *)
LEMMA WindowOf ==
    ASSUME TypeOK, NEW a \in Nat \ {0}, Transmitter(a)
    PROVE  /\ VtS = SnOf(built + 1)
           /\ \A n \in a..(a + M - 1) : Rel(SnOf(n), vtA) = n - a
           /\ Rel(VtS, vtA) = built + 1 - a
           /\ Stalled <=> built + 1 - a = W
           /\ built + 1 - a \in 0..W
<1>1. a \in Int /\ built \in Nat /\ vtA = SnOf(a) /\ a <= built + 1 /\ built < a + W
  BY Types DEF Transmitter
<1>2. VtS = SnOf(built + 1)
  <2>1. (built + 1) - 1 = built
    BY <1>1
  <2> QED
    BY <2>1 DEF VtS, SnOf
<1>3. ASSUME NEW n \in a..(a + M - 1) PROVE Rel(SnOf(n), vtA) = n - a
  <2>1. n \in Int /\ n - a \in 0..(M - 1)
    BY <1>1, WindowFacts
  <2> QED
    BY <1>1, <2>1, SnFacts
<1>4. built + 1 \in a..(a + M - 1) /\ built + 1 - a \in 0..W
  BY <1>1, WindowFacts
<1>5. Rel(VtS, vtA) = built + 1 - a
  <2>1. Rel(SnOf(built + 1), vtA) = (built + 1) - a
    BY <1>3, <1>4
  <2> QED
    BY <1>1, <1>2, <2>1
<1> QED
  BY <1>2, <1>3, <1>4, <1>5 DEF Stalled

(* The receiver's variables seen from VR(R). *)
LEMMA ReceiverWindow ==
    ASSUME TypeOK, NEW a \in Nat \ {0}, NEW ms \in Nat, NEW h \in Nat,
           Transmitter(a), Receiver(ms, h), Links(a)
    PROVE  /\ \A n \in (Len(delivered) + 1)..(Len(delivered) + M) :
                 Rel(SnOf(n), vrR) = n - (Len(delivered) + 1)
           /\ h <= Len(delivered) + 1 + W
           /\ Rel(vrMs, vrR) = ms - (Len(delivered) + 1)
           /\ Rel(vrH, vrR) = h - (Len(delivered) + 1)
           /\ vrMs # vrH => reordering
<1> DEFINE r == Len(delivered) + 1
<1>1. r \in Nat /\ a <= r /\ built \in Nat /\ vrR = SnOf(r)
  BY Types DEF Links, Receiver
<1>2. r <= ms /\ ms <= h /\ h <= built + 1 /\ built < a + W /\ vrMs = SnOf(ms) /\ vrH = SnOf(h)
  BY Types DEF Transmitter, Receiver
<1>3. ASSUME NEW n \in r..(Len(delivered) + M) PROVE Rel(SnOf(n), vrR) = n - r
  <2>1. n \in Int /\ n - r \in 0..(M - 1)
    BY Types, WindowFacts
  <2> HIDE DEF r
  <2> QED
    BY <1>1, <2>1, SnFacts
<1>4. h <= r + W
  <2>1. r \in Nat /\ built \in Nat /\ h \in Nat /\ W \in Nat
    BY <1>1, WindowFacts
  <2>2. h <= built + 1 /\ built < a + W /\ a <= r
    BY <1>1, <1>2
  <2> HIDE DEF r
  <2> QED
    BY <2>1, <2>2
<1>5. ms \in r..(Len(delivered) + M) /\ h \in r..(Len(delivered) + M)
  <2>1. PICK R : R = Len(delivered)
    OBVIOUS
  <2>2. r = R + 1 /\ R \in Nat /\ r <= ms /\ ms <= h /\ h <= r + W
    BY <1>1, <1>2, <1>4, <2>1, Types
  <2> HIDE DEF r
  <2>3. ms \in r..(R + M) /\ h \in r..(R + M)
    BY <2>2, WindowFacts
  <2> QED
    BY <2>1, <2>3
<1>6. vrMs # vrH => reordering
  BY <1>2 DEF Receiver
<1> QED
  BY <1>2, <1>3, <1>4, <1>5, <1>6

-----------------------------------------------------------------------------
(* What the invariant says of the entities. *)
LEMMA InvHolds ==
    ASSUME InOrder, IInv
    PROVE  EntityInv /\ HeldUntilReceived
<1>1. PICK a \in 1..(built + 1), ms \in 1..(built + 1), h \in 1..(built + 1) :
        \E lo, k \in [DOMAIN statuses -> 1..(built + 1)] : Stands(a, ms, h, lo, k)
  BY DEF IInv
<1>2. PICK lo \in [DOMAIN statuses -> 1..(built + 1)], k \in [DOMAIN statuses -> 1..(built + 1)] :
        Transmitter(a) /\ Receiver(ms, h) /\ Links(a) /\ Reports(a, lo, k)
  BY <1>1 DEF Stands
<1>3. TypeOK /\ Asks /\ built \in Nat
  BY Types DEF IInv
<1>4. a \in Nat \ {0} /\ ms \in Nat /\ h \in Nat /\ a \in Int
  BY <1>3
<1>5. OneBuffer
  <2>1. ASSUME NEW buffer, Fits(buffer, a, built), NEW sn \in Sn, buffer[sn] # 0
        PROVE  Rel(sn, vtA) < Rel(VtS, vtA)
    <3>1. buffer[sn] \in a..built /\ SnOf(buffer[sn]) = sn
      BY <2>1 DEF Fits
    <3>2. buffer[sn] \in a..(a + M - 1)
      BY <1>2, <1>3, <1>4, <3>1, WindowFacts DEF Transmitter
    <3>3. Rel(sn, vtA) = buffer[sn] - a /\ Rel(VtS, vtA) = built + 1 - a
      BY <1>2, <1>3, <1>4, <3>1, <3>2, WindowOf
    <3> QED
      BY <1>3, <1>4, <3>1, <3>3
  <2>2. Rel(VtS, vtA) <= W
    BY <1>2, <1>3, <1>4, WindowOf
  <2>3. Held(txed) \cap Held(retx) = {}
    BY <1>2 DEF Transmitter, Held
  <2> QED
    BY <1>2, <2>1, <2>2, <2>3 DEF OneBuffer, Transmitter, Held
<1>6. NackedIsHeld
  <2> SUFFICES ASSUME NEW i \in DOMAIN statuses, NEW sn \in Nacked(statuses[i])
               PROVE  sn \in Held(txed) \cup Held(retx)
    BY DEF NackedIsHeld
  <2>1. sn \in Sn /\ sn \in statuses[i].nacks
    BY DEF Nacked, Considered
  <2>2. Report(statuses[i], a, lo[i], k[i]) /\ lo[i] \in 1..(built + 1) /\ k[i] \in 1..(built + 1)
    BY <1>2 DEF Reports
  <2>3. PICK n \in lo[i]..(k[i] - 1) : sn = SnOf(n)
    BY <2>1, <2>2 DEF Report
  <2>4. OnTx(n) /\ n # 0
    BY <1>3, <2>1, <2>2, <2>3 DEF Report
  <2> QED
    BY <2>1, <2>3, <2>4 DEF OnTx, Held
<1>7. KeepsAsking
  BY <1>3 DEF Asks, KeepsAsking, MustAsk
<1>8. GapsWatched
  <2>1. Rel(vrMs, vrR) = ms - (Len(delivered) + 1) /\ Rel(vrH, vrR) = h - (Len(delivered) + 1)
        /\ h <= Len(delivered) + 1 + W /\ (vrMs # vrH => reordering)
    BY <1>2, <1>3, <1>4, ReceiverWindow
  <2>2. ms <= h /\ Len(delivered) \in Nat
    BY <1>2, <1>3, Types DEF Receiver
  <2> QED
    BY <1>4, <2>1, <2>2, WindowFacts DEF GapsWatched
<1>9. HeldUntilReceived
  <2> SUFFICES ASSUME NEW n \in 1..built
               PROVE  n \in Received \/ txed[SnOf(n)] = n \/ retx[SnOf(n)] = n
    BY DEF HeldUntilReceived
  <2>1. CASE OnTx(n)
    BY <2>1 DEF OnTx
  <2>2. CASE n <= Len(delivered)
    <3>1. n \in 1..Len(delivered) /\ DOMAIN delivered = 1..Len(delivered)
      BY <1>3, <2>2, Types, LenProperties
    <3>2. delivered[n] = n
      BY <1>2, <3>1 DEF Receiver
    <3> QED
      BY <3>1, <3>2 DEF Received
  <2>3. CASE rxon[SnOf(n)] = n
    <3>1. SnOf(n) \in Held(rxon)
      BY <1>3, <2>3, SnFacts DEF Held
    <3> QED
      BY <2>3, <3>1 DEF Received
  <2>4. Got(n) \/ OnTx(n)
    BY <1>2 DEF Links
  <2> QED
    BY <2>1, <2>2, <2>3, <2>4 DEF Got
<1> QED
  BY <1>3, <1>5, <1>6, <1>7, <1>8, <1>9 DEF EntityInv

-----------------------------------------------------------------------------
(* What a step leaves alone.                                               *)
LEMMA ReceiverFrame ==
    ASSUME NEW ms, NEW h, Receiver(ms, h), h <= built' + 1,
           UNCHANGED <<delivered, rxon, vrR, vrX, vrMs, vrH, reordering>>
    PROVE  Receiver(ms, h)'
BY DEF Receiver, Fits

LEMMA GotFrame ==
    ASSUME UNCHANGED <<delivered, rxon>>
    PROVE  \A n \in 1..built : Got(n) => Got(n)'
  BY DEF Got

LEMMA OnTxFrame ==
    ASSUME UNCHANGED <<txed, retx>>
    PROVE  \A n \in 1..built : OnTx(n) => OnTx(n)'
  BY DEF OnTx

LEMMA ReportFrame ==
    ASSUME NEW s, NEW a \in Nat \ {0}, NEW lo \in Nat, NEW k \in Nat, Report(s, a, lo, k),
           built \in Nat, built' \in Nat, built <= built',
           Len(delivered) \in Nat, Len(delivered)' \in Nat, Len(delivered) <= Len(delivered)',
           \A n \in 1..built : Got(n) => Got(n)',
           NEW b \in Nat, b <= lo,
           \A n \in lo..(k - 1) : SnOf(n) \in s.nacks /\ OnTx(n) => OnTx(n)'
    PROVE  Report(s, b, lo, k)'
<1>1. lo <= Len(delivered)' + 1 /\ k <= built' + 1 /\ a <= lo /\ lo <= k /\ k <= built + 1
  BY DEF Report
<1>2. ASSUME NEW n \in lo..(k - 1)
      PROVE  IF SnOf(n) \in s.nacks THEN OnTx(n)' ELSE Got(n)'
  <2>1. n \in 1..built
    BY <1>1
  <2> QED
    BY <2>1 DEF Report
<1>3. /\ s.ack = SnOf(k)
      /\ lo < k => SnOf(lo) \in s.nacks
      /\ \A sn \in s.nacks : \E n \in lo..(k - 1) : sn = SnOf(n)
  BY DEF Report
<1> QED
  BY <1>1, <1>2, <1>3 DEF Report, SnOf

LEMMA ReportsFrame ==
    ASSUME TypeOK, TypeOK', NEW a \in Nat \ {0},
           NEW lo \in [DOMAIN statuses -> 1..(built + 1)],
           NEW k \in [DOMAIN statuses -> 1..(built + 1)],
           Reports(a, lo, k), UNCHANGED statuses,
           built <= built', Len(delivered) <= Len(delivered)',
           \A n \in 1..built : (Got(n) => Got(n)') /\ (OnTx(n) => OnTx(n)')
    PROVE  Reports(a, lo, k)'
<1>1. built \in Nat /\ built' \in Nat /\ Len(delivered) \in Nat /\ Len(delivered)' \in Nat
  <2>1. built \in Nat /\ Len(delivered) \in Nat
    BY Types
  <2>2. built' \in Nat /\ Len(delivered)' \in Nat
    BY LinkAssumption, LenProperties DEF TypeOK
  <2> QED
    BY <2>1, <2>2
<1>2. ASSUME NEW i \in DOMAIN statuses
      PROVE  Report(statuses[i], a, lo[i], k[i])'
  <2>1. Report(statuses[i], a, lo[i], k[i]) /\ lo[i] \in Nat /\ k[i] \in Nat
    BY <1>1 DEF Reports
  <2>2. a <= lo[i] /\ k[i] <= built + 1
    BY <2>1 DEF Report
  <2>3. \A n \in lo[i]..(k[i] - 1) : n \in 1..built
    BY <1>1, <2>1, <2>2
  <2> QED
    BY <1>1, <2>1, <2>2, <2>3, ReportFrame
<1> QED
  BY <1>2 DEF Reports

LEMMA LinksFrame ==
    ASSUME NEW a \in Nat, Links(a), built \in Nat, built' \in Nat, built <= built',
           Len(delivered) \in Nat, Len(delivered)' \in Nat, Len(delivered) <= Len(delivered)',
           \A n \in 1..built : (Got(n) => Got(n)') /\ (OnTx(n) => OnTx(n)'),
           \A n \in (built + 1)..built' : OnTx(n)',
           \A i \in DOMAIN air' : air'[i].n <= built'
    PROVE  Links(a)'
<1>1. a <= Len(delivered)' + 1
  BY DEF Links
<1>2. \A n \in 1..built' : Got(n)' \/ OnTx(n)'
  BY DEF Links
<1> QED
  BY <1>1, <1>2 DEF Links

LEMMA SentIn ==
    ASSUME TypeOK, NEW n \in Sdu, NEW poll \in BOOLEAN, air' = Append(air, [n |-> n, poll |-> poll]),
           NEW b, n <= b, \A i \in DOMAIN air : air[i].n <= b
    PROVE  air' \in Seq(DataPdu) /\ \A i \in DOMAIN air' : air'[i].n <= b
<1> DEFINE pdu == [n |-> n, poll |-> poll]
<1>1. pdu \in DataPdu /\ pdu.n = n
  BY DEF DataPdu
<1>2. air \in Seq(DataPdu)
  BY DEF TypeOK
<1> HIDE DEF pdu
<1>3. /\ air' \in Seq(DataPdu) /\ Len(air') = Len(air) + 1
      /\ \A i \in 1..Len(air) : air'[i] = air[i]
      /\ air'[Len(air) + 1] = pdu
  BY <1>1, <1>2, AppendProperties DEF pdu
<1>4. DOMAIN air' = 1..(Len(air) + 1) /\ DOMAIN air = 1..Len(air) /\ Len(air) \in Nat
  BY <1>2, <1>3, LenProperties
<1>5. ASSUME NEW i \in DOMAIN air' PROVE air'[i].n <= b
  <2>1. CASE i \in DOMAIN air
    BY <1>3, <1>4, <2>1
  <2>2. CASE i = Len(air) + 1
    BY <1>1, <1>3, <2>2
  <2> QED
    BY <1>4, <2>1, <2>2
<1> QED
  BY <1>3, <1>5

(* The invariant for the numbers of a step that changes none of them. *)
LEMMA SameNumbers ==
    ASSUME TypeOK', Asks', 1..(built + 1) \subseteq 1..(built' + 1), UNCHANGED statuses,
           NEW a \in 1..(built + 1), NEW ms \in 1..(built + 1), NEW h \in 1..(built + 1),
           NEW lo \in [DOMAIN statuses -> 1..(built + 1)],
           NEW k \in [DOMAIN statuses -> 1..(built + 1)],
           Transmitter(a)', Receiver(ms, h)', Links(a)', Reports(a, lo, k)'
    PROVE  IInv'
<1>1. a \in 1..(built' + 1) /\ ms \in 1..(built' + 1) /\ h \in 1..(built' + 1)
  OBVIOUS
<1>2. lo \in [DOMAIN statuses' -> 1..(built' + 1)] /\ k \in [DOMAIN statuses' -> 1..(built' + 1)]
  OBVIOUS
<1>3. Stands(a, ms, h, lo, k)'
  BY DEF Stands
<1> QED
  BY <1>1, <1>2, <1>3 DEF IInv

(* The invariant, for given numbers. *)
Good(a, ms, h, lo, k) ==
    /\ TypeOK /\ Asks
    /\ a \in 1..(built + 1) /\ ms \in 1..(built + 1) /\ h \in 1..(built + 1)
    /\ lo \in [DOMAIN statuses -> 1..(built + 1)] /\ k \in [DOMAIN statuses -> 1..(built + 1)]
    /\ Transmitter(a) /\ Receiver(ms, h) /\ Links(a) /\ Reports(a, lo, k)

LEMMA InvIsGood == IInv <=> \E a, ms, h, lo, k : Good(a, ms, h, lo, k)
BY DEF IInv, Good, Stands

LEMMA GoodFacts ==
    ASSUME NEW a, NEW ms, NEW h, NEW lo, NEW k, Good(a, ms, h, lo, k)
    PROVE  /\ TypeOK /\ Asks /\ Transmitter(a) /\ Receiver(ms, h) /\ Links(a) /\ Reports(a, lo, k)
           /\ a \in Nat \ {0} /\ ms \in Nat /\ h \in Nat /\ built \in Nat
           /\ h <= built + 1 /\ a <= built + 1 /\ built < a + W
           /\ a \in 1..(built + 1) /\ ms \in 1..(built + 1) /\ h \in 1..(built + 1)
           /\ lo \in [DOMAIN statuses -> 1..(built + 1)] /\ k \in [DOMAIN statuses -> 1..(built + 1)]
           /\ \A n \in a..built : n \in a..(a + M - 1) /\ n \in 1..built
           /\ \A x, y \in a..(a + M - 1) : SnOf(x) = SnOf(y) => x = y
<1>1. /\ TypeOK /\ Asks /\ Transmitter(a) /\ Receiver(ms, h) /\ Links(a) /\ Reports(a, lo, k)
      /\ a \in 1..(built + 1) /\ ms \in 1..(built + 1) /\ h \in 1..(built + 1)
      /\ lo \in [DOMAIN statuses -> 1..(built + 1)] /\ k \in [DOMAIN statuses -> 1..(built + 1)]
  BY DEF Good
<1>2. built \in Nat
  BY <1>1, Types
<1>3. a \in Nat \ {0} /\ ms \in Nat /\ h \in Nat /\ h <= built + 1 /\ a <= built + 1
  BY <1>1, <1>2
<1>4. built < a + W
  BY <1>1 DEF Transmitter
<1>5. \A n \in a..built : n \in a..(a + M - 1) /\ n \in 1..built
  BY <1>2, <1>3, <1>4, WindowFacts
<1>6. ASSUME NEW x \in a..(a + M - 1), NEW y \in a..(a + M - 1), SnOf(x) = SnOf(y)
      PROVE  x = y
  <2>1. x \in Int /\ y \in Int /\ (x - y \in 0..(M - 1) \/ y - x \in 0..(M - 1))
    BY <1>3, WindowFacts
  <2> QED
    BY <1>6, <2>1, SnFacts
<1> QED
  BY <1>1, <1>2, <1>3, <1>4, <1>5, <1>6

(* What is in a buffer of the transmitter, by number. *)
LEMMA Buffered ==
    ASSUME NEW a, NEW ms, NEW h, NEW lo, NEW k, Good(a, ms, h, lo, k)
    PROVE  /\ \A sn \in Sn : txed[sn] # 0 =>
                 txed[sn] \in a..built /\ SnOf(txed[sn]) = sn /\ retx[sn] = 0 /\ txed[sn] \in Sdu
           /\ \A sn \in Sn : retx[sn] # 0 =>
                 retx[sn] \in a..built /\ SnOf(retx[sn]) = sn /\ txed[sn] = 0 /\ retx[sn] \in Sdu
           /\ \A sn \in Sn : Rel(sn, vtA) \in 0..(M - 1)
           /\ \A sn \in Sn : retx[sn] # 0 => Rel(sn, vtA) = retx[sn] - a
           /\ \A n \in a..built : SnOf(n) \in Sn
<1>1. /\ TypeOK /\ Transmitter(a) /\ a \in Nat \ {0} /\ built \in Nat
      /\ \A n \in a..built : n \in a..(a + M - 1)
  BY GoodFacts
<1>2. txed \in [Sn -> 0..MaxSdus] /\ retx \in [Sn -> 0..MaxSdus] /\ MaxSdus \in Nat
  BY <1>1, Types
<1>3. \A v \in 0..MaxSdus : v # 0 => v \in Sdu
  BY <1>2 DEF Sdu
<1>4. /\ \A sn \in Sn : txed[sn] # 0 => txed[sn] \in a..built /\ SnOf(txed[sn]) = sn
      /\ \A sn \in Sn : retx[sn] # 0 => retx[sn] \in a..built /\ SnOf(retx[sn]) = sn
      /\ \A sn \in Sn : txed[sn] = 0 \/ retx[sn] = 0
  BY <1>1 DEF Transmitter, Fits
<1>5. ASSUME NEW sn \in Sn PROVE Rel(sn, vtA) \in 0..(M - 1)
  <2>1. PICK n \in a..(a + M - 1) : SnOf(n) = sn
    BY <1>1, SnExists
  <2>2. n \in Int /\ a \in Int /\ vtA = SnOf(a)
    BY <1>1, WindowFacts DEF Transmitter
  <2> QED
    BY <2>1, <2>2, SnFacts
<1>6. ASSUME NEW sn \in Sn, retx[sn] # 0 PROVE Rel(sn, vtA) = retx[sn] - a
  BY <1>1, <1>4, <1>6, WindowOf
<1>7. \A n \in a..built : SnOf(n) \in Sn
  BY <1>1, SnFacts
<1> QED
  BY <1>2, <1>3, <1>4, <1>5, <1>6, <1>7

-----------------------------------------------------------------------------
LEMMA AcceptStep ==
    ASSUME NEW a, NEW ms, NEW h, NEW lo, NEW k, Good(a, ms, h, lo, k), DoTransmitPdcpPdu
    PROVE  IInv'
<1>1. /\ accepted' = accepted + 1 /\ accepted < MaxSdus /\ bsrTimer' = TRUE
      /\ UNCHANGED <<built, vtA, txed, retx, pollSn, pollTimer, justExpired>>
      /\ UNCHANGED <<rxon, vrR, vrX, vrMs, vrH, reordering, requested, prohibit, told, delivered>>
      /\ UNCHANGED air /\ UNCHANGED statuses
  BY DEF DoTransmitPdcpPdu, receiver
<1>2. /\ TypeOK /\ Asks /\ Transmitter(a) /\ Receiver(ms, h) /\ Links(a) /\ Reports(a, lo, k)
      /\ a \in 1..(built + 1) /\ ms \in 1..(built + 1) /\ h \in 1..(built + 1) /\ built \in Nat
      /\ lo \in [DOMAIN statuses -> 1..(built + 1)] /\ k \in [DOMAIN statuses -> 1..(built + 1)]
  BY GoodFacts
<1>3. TypeOK'
  <2>1. accepted' \in 0..MaxSdus /\ built \in 0..accepted'
    BY <1>1, <1>2, Types
  <2> QED
    BY <1>1, <1>2, <2>1 DEF TypeOK
<1>4. Asks'
  <2>1. (Waiting => Waiting') /\ (Stalled <=> Stalled') /\ Held(txed)' = Held(txed)
        /\ Held(retx)' = Held(retx)
    <3>1. accepted > built => accepted' > built
      BY <1>1, <1>2, Types
    <3> QED
      BY <1>1, <3>1 DEF Waiting, Stalled, VtS, Held
  <2> QED
    BY <1>1, <1>2, <2>1 DEF Asks
<1>5. Transmitter(a)' /\ Receiver(ms, h)' /\ Links(a)' /\ Reports(a, lo, k)'
  BY <1>1, <1>2 DEF Transmitter, Receiver, Links, Reports, Report, Got, OnTx, Fits
<1> QED
  BY <1>1, <1>2, <1>3, <1>4, <1>5, SameNumbers

LEMMA BsrStep ==
    ASSUME NEW a, NEW ms, NEW h, NEW lo, NEW k, Good(a, ms, h, lo, k),
           UNCHANGED <<accepted, built, vtA, txed, retx, pollSn, pollTimer, justExpired>>,
           UNCHANGED <<rxon, vrR, vrX, vrMs, vrH, reordering, requested, delivered>>,
           bsrTimer' \in BOOLEAN, prohibit' \in BOOLEAN, told' \in BOOLEAN,
           UNCHANGED <<air, statuses>>
    PROVE  IInv'
<1>2. /\ TypeOK /\ Asks /\ Transmitter(a) /\ Receiver(ms, h) /\ Links(a) /\ Reports(a, lo, k)
      /\ a \in 1..(built + 1) /\ ms \in 1..(built + 1) /\ h \in 1..(built + 1)
      /\ lo \in [DOMAIN statuses -> 1..(built + 1)] /\ k \in [DOMAIN statuses -> 1..(built + 1)]
  BY GoodFacts
<1>3. TypeOK'
  BY <1>2 DEF TypeOK
<1>4. Asks'
  BY <1>2 DEF Asks, Waiting, Stalled, VtS, Held
<1>5. Transmitter(a)' /\ Receiver(ms, h)' /\ Links(a)' /\ Reports(a, lo, k)'
  BY <1>2 DEF Transmitter, Receiver, Links, Reports, Report, Got, OnTx, Fits
<1> QED
  BY <1>2, <1>3, <1>4, <1>5, SameNumbers

(* A PDU for the first time: its slot is free. *)
LEMMA SendNewStep ==
    ASSUME NEW a, NEW ms, NEW h, NEW lo, NEW k, Good(a, ms, h, lo, k), SendNew
    PROVE  IInv'
<1>1. /\ Held(retx) = {} /\ Waiting /\ ~Stalled
      /\ built' = built + 1 /\ txed' = [txed EXCEPT ![VtS] = built + 1]
      /\ Transmit(built + 1, TRUE)
      /\ pollSn' = SnOf(built + 1) /\ pollTimer' = TRUE /\ justExpired' = FALSE /\ bsrTimer' = TRUE
      /\ UNCHANGED <<accepted, vtA, retx>> /\ UNCHANGED statuses
      /\ UNCHANGED <<rxon, vrR, vrX, vrMs, vrH, reordering, requested, prohibit, told, delivered>>
  BY DEF SendNew, MaySendNew, Poll, receiver
<1>2. /\ TypeOK /\ Asks /\ Transmitter(a) /\ Receiver(ms, h) /\ Links(a) /\ Reports(a, lo, k)
      /\ a \in Nat \ {0} /\ built \in Nat /\ h \in Nat /\ h <= built + 1
      /\ a \in 1..(built + 1) /\ ms \in 1..(built + 1) /\ h \in 1..(built + 1)
      /\ lo \in [DOMAIN statuses -> 1..(built + 1)] /\ k \in [DOMAIN statuses -> 1..(built + 1)]
  BY GoodFacts
<1>3. accepted \in Nat /\ built + 1 <= accepted /\ accepted <= MaxSdus /\ MaxSdus \in Nat
      /\ txed \in [Sn -> 0..MaxSdus] /\ retx \in [Sn -> 0..MaxSdus] /\ Len(delivered) \in Nat
  BY <1>1, <1>2, Types DEF Waiting
<1>4. VtS = SnOf(built + 1) /\ VtS \in Sn /\ built + 1 - a < W
  BY <1>1, <1>2, WindowOf, SnFacts, WindowFacts
<1>5. built + 1 \in Sdu /\ built + 1 \in 0..MaxSdus
  BY <1>2, <1>3 DEF Sdu
<1>6. \A sn \in Sn : retx[sn] = 0
  BY <1>1 DEF Held
<1>7. \A sn \in Sn : txed'[sn] = IF sn = VtS THEN built + 1 ELSE txed[sn]
  BY <1>1, <1>3
<1>8. air' \in Seq(DataPdu) /\ \A i \in DOMAIN air' : air'[i].n <= built + 1
  <2>1. \A i \in DOMAIN air : air[i].n <= built + 1
    <3>1. ASSUME NEW i \in DOMAIN air PROVE air[i].n <= built + 1
      <4>1. air[i] \in DataPdu /\ air[i].n <= built
        BY <1>2, Types, LenProperties DEF Links
      <4>2. air[i].n \in Nat
        BY <4>1 DEF DataPdu, Sdu
      <4> QED
        BY <1>2, <4>1, <4>2
    <3> QED
      BY <3>1
  <2>2. air' = Append(air, [n |-> built + 1, poll |-> TRUE])
    BY <1>1 DEF Transmit
  <2>3. built + 1 <= built + 1
    BY <1>2
  <2> QED
    BY <1>2, <1>5, <2>1, <2>2, <2>3, SentIn
<1>9. TypeOK'
  <2>1. txed' \in [Sn -> 0..MaxSdus]
    BY <1>1, <1>3, <1>5
  <2>2. built' \in 0..accepted /\ pollSn' \in Sn
    BY <1>1, <1>2, <1>3, <1>4
  <2> QED
    BY <1>1, <1>2, <1>8, <2>1, <2>2 DEF TypeOK
<1>10. Asks'
  BY <1>1 DEF Asks
<1>11. Transmitter(a)'
  <2>1. Fits(txed', a, built + 1)
    <3>1. ASSUME NEW sn \in Sn, txed'[sn] # 0
          PROVE  txed'[sn] \in a..(built + 1) /\ SnOf(txed'[sn]) = sn
      <4>1. CASE sn = VtS
        BY <1>2, <1>4, <1>7, <4>1
      <4>2. CASE sn # VtS
        <5>1. txed[sn] \in a..built /\ SnOf(txed[sn]) = sn
          BY <1>2, <1>7, <3>1, <4>2 DEF Transmitter, Fits
        <5> QED
          BY <1>2, <1>7, <4>2, <5>1
      <4> QED
        BY <4>1, <4>2
    <3> QED
      BY <3>1 DEF Fits
  <2>2. Fits(retx, a, built + 1)
    BY <1>6 DEF Fits
  <2>3. vtA = SnOf(a) /\ a <= built + 1 + 1 /\ built + 1 < a + W
    BY <1>2, <1>4, WindowFacts DEF Transmitter
  <2> QED
    BY <1>1, <1>6, <2>1, <2>2, <2>3 DEF Transmitter, Fits, SnOf
<1>12. h <= built' + 1
  BY <1>1, <1>2
<1>13. Receiver(ms, h)'
  BY <1>1, <1>2, <1>12, ReceiverFrame
<1>14. \A n \in 1..built : (Got(n) => Got(n)') /\ (OnTx(n) => OnTx(n)')
  <2>1. \A n \in 1..built : Got(n) => Got(n)'
    BY <1>1, GotFrame
  <2>2. ASSUME NEW n \in 1..built, OnTx(n) PROVE OnTx(n)'
    <3>1. SnOf(n) \in Sn
      BY SnFacts
    <3>2. txed[SnOf(n)] = n
      BY <1>6, <2>2, <3>1 DEF OnTx
    <3>3. n \in a..built
      BY <1>2, <3>1, <3>2 DEF Transmitter, Fits
    <3>4. SnOf(n) # VtS
      <4>1. built + 1 - n \in 0..(M - 1) /\ n # built + 1
        BY <1>2, <1>4, <3>3, WindowFacts
      <4> QED
        BY <1>2, <1>4, <4>1, SnFacts
    <3>5. txed'[SnOf(n)] = n
      BY <1>7, <3>1, <3>2, <3>4
    <3> QED
      BY <3>5 DEF OnTx, SnOf
  <2> QED
    BY <2>1, <2>2
<1>15. ASSUME NEW n, n = built + 1 PROVE OnTx(n)'
  <2>1. txed'[SnOf(n)] = n
    BY <1>4, <1>7, <1>15
  <2> QED
    BY <2>1 DEF OnTx, SnOf
<1>16. /\ built' \in Nat /\ built <= built' /\ Len(delivered)' \in Nat
       /\ Len(delivered) <= Len(delivered)' /\ 1..(built + 1) \subseteq 1..(built' + 1)
       /\ \A n \in (built + 1)..built' : n = built + 1
  BY <1>1, <1>2, <1>3
<1>17. Links(a)'
  <2>1. \A i \in DOMAIN air' : air'[i].n <= built'
    BY <1>1, <1>8
  <2>2. \A n \in (built + 1)..built' : OnTx(n)'
    BY <1>15, <1>16
  <2> QED
    BY <1>2, <1>3, <1>14, <1>16, <2>1, <2>2, LinksFrame
<1>18. Reports(a, lo, k)'
  BY <1>1, <1>2, <1>9, <1>14, <1>16, ReportsFrame
<1> QED
  BY <1>1, <1>2, <1>9, <1>10, <1>11, <1>13, <1>16, <1>17, <1>18, SameNumbers

(* A step of the transmitter that sends nothing new and forgets nothing. *)
LEMMA BuffersStep ==
    ASSUME NEW a, NEW ms, NEW h, NEW lo, NEW k, Good(a, ms, h, lo, k), TypeOK', Asks',
           UNCHANGED <<built, vtA, statuses>>,
           UNCHANGED <<rxon, vrR, vrX, vrMs, vrH, reordering, delivered>>,
           Fits(txed', a, built), Fits(retx', a, built),
           \A sn \in Sn : txed'[sn] = 0 \/ retx'[sn] = 0,
           built > 0 => pollSn' = SnOf(built),
           \A sn \in Sn : \A v \in Sdu : txed[sn] = v \/ retx[sn] = v => txed'[sn] = v \/ retx'[sn] = v,
           \A i \in DOMAIN air' : air'[i].n <= built
    PROVE  IInv'
<1>1. /\ TypeOK /\ Transmitter(a) /\ Receiver(ms, h) /\ Links(a) /\ Reports(a, lo, k)
      /\ a \in Nat \ {0} /\ built \in Nat /\ h <= built + 1
      /\ a \in 1..(built + 1) /\ ms \in 1..(built + 1) /\ h \in 1..(built + 1)
      /\ lo \in [DOMAIN statuses -> 1..(built + 1)] /\ k \in [DOMAIN statuses -> 1..(built + 1)]
  BY GoodFacts
<1>2. Transmitter(a)'
  BY <1>1 DEF Transmitter, Fits, SnOf
<1>3. Receiver(ms, h)'
  BY <1>1, ReceiverFrame
<1>4. \A n \in 1..built : (Got(n) => Got(n)') /\ (OnTx(n) => OnTx(n)')
  <2>1. \A n \in 1..built : Got(n) => Got(n)'
    BY GotFrame
  <2>2. ASSUME NEW n \in 1..built, OnTx(n) PROVE OnTx(n)'
    <3>1. SnOf(n) \in Sn /\ n \in Sdu
      <4>1. built \in Nat /\ built <= MaxSdus /\ MaxSdus \in Nat
        BY <1>1, Types
      <4> QED
        BY <4>1, SnFacts DEF Sdu
    <3>2. txed[SnOf(n)] = n \/ retx[SnOf(n)] = n
      BY <2>2 DEF OnTx
    <3>3. txed'[SnOf(n)] = n \/ retx'[SnOf(n)] = n
      BY <3>1, <3>2
    <3> QED
      BY <3>3 DEF OnTx, SnOf
  <2> QED
    BY <2>1, <2>2
<1>5. /\ built' \in Nat /\ built <= built' /\ Len(delivered) \in Nat /\ Len(delivered)' \in Nat
      /\ Len(delivered) <= Len(delivered)' /\ 1..(built + 1) \subseteq 1..(built' + 1)
  BY <1>1, Types
<1>6. \A n \in (built + 1)..built' : FALSE
  BY <1>1
<1>7. Links(a)'
  BY <1>1, <1>4, <1>5, <1>6, LinksFrame
<1>8. Reports(a, lo, k)'
  BY <1>1, <1>4, <1>5, ReportsFrame
<1> QED
  BY <1>1, <1>2, <1>3, <1>5, <1>7, <1>8, SameNumbers

(* The first PDU of retx is sent again.  Unless it polls there is a later  *)
(* one behind it, or new data to send.                                     *)
LEMMA RetransmitStep ==
    ASSUME NEW a, NEW ms, NEW h, NEW lo, NEW k, Good(a, ms, h, lo, k), Retransmit
    PROVE  IInv'
<1>1. PICK sn \in Held(retx) :
          /\ \A other \in Held(retx) : Rel(sn, vtA) <= Rel(other, vtA)
          /\ txed' = [txed EXCEPT ![sn] = retx[sn]]
          /\ retx' = [retx EXCEPT ![sn] = 0]
          /\ Transmit(retx[sn], PollsOnRetx(sn))
          /\ Poll(PollsOnRetx(sn), built)
  BY DEF Retransmit
<1>2. /\ bsrTimer' = TRUE /\ UNCHANGED <<accepted, built, vtA, statuses>>
      /\ UNCHANGED <<rxon, vrR, vrX, vrMs, vrH, reordering, requested, prohibit, told, delivered>>
  BY DEF Retransmit, receiver
<1>3. /\ TypeOK /\ Asks /\ Transmitter(a) /\ Links(a) /\ a \in Nat \ {0} /\ built \in Nat
      /\ txed \in [Sn -> 0..MaxSdus] /\ retx \in [Sn -> 0..MaxSdus]
  BY GoodFacts, Types
<1>4. sn \in Sn /\ retx[sn] # 0 /\ retx[sn] \in a..built /\ retx[sn] \in Sdu
      /\ SnOf(retx[sn]) = sn /\ txed[sn] = 0
  BY Buffered DEF Held
<1>5. /\ \A x \in Sn : txed'[x] = IF x = sn THEN retx[sn] ELSE txed[x]
      /\ \A x \in Sn : retx'[x] = IF x = sn THEN 0 ELSE retx[x]
      /\ txed' \in [Sn -> 0..MaxSdus] /\ retx' \in [Sn -> 0..MaxSdus]
  BY <1>1, <1>3, <1>4, Types
<1>6. air' \in Seq(DataPdu) /\ \A i \in DOMAIN air' : air'[i].n <= built
  <2>1. \A i \in DOMAIN air : air[i].n <= built
    BY <1>3 DEF Links
  <2>2. PollsOnRetx(sn) \in BOOLEAN
    BY DEF PollsOnRetx
  <2>3. retx[sn] <= built
    BY <1>4
  <2>4. air' = Append(air, [n |-> retx[sn], poll |-> PollsOnRetx(sn)])
    BY <1>1 DEF Transmit
  <2> QED
    BY <1>3, <1>4, <2>1, <2>2, <2>3, <2>4, SentIn
<1>7. /\ PollsOnRetx(sn) => pollSn' = SnOf(built) /\ pollTimer' = TRUE /\ justExpired' = FALSE
      /\ ~PollsOnRetx(sn) => UNCHANGED <<pollSn, pollTimer, justExpired>>
  BY <1>1 DEF Poll
<1>8. TypeOK'
  <2>1. pollSn' \in Sn /\ pollTimer' \in BOOLEAN /\ justExpired' \in BOOLEAN
    <3>1. pollSn \in Sn /\ pollTimer \in BOOLEAN /\ justExpired \in BOOLEAN
      BY <1>3 DEF TypeOK
    <3>2. SnOf(built) \in Sn
      BY <1>3, SnFacts
    <3>3. CASE PollsOnRetx(sn)
      BY <1>7, <3>2, <3>3
    <3>4. CASE ~PollsOnRetx(sn)
      BY <1>7, <3>1, <3>4
    <3> QED
      BY <3>3, <3>4
  <2> QED
    BY <1>2, <1>3, <1>5, <1>6, <2>1 DEF TypeOK
<1>9. Asks'
  <2>1. CASE PollsOnRetx(sn)
    BY <1>7, <2>1 DEF Asks
  <2>2. CASE ~PollsOnRetx(sn)
    <3>1. CASE pollTimer \/ justExpired
      BY <1>7, <2>2, <3>1 DEF Asks
    <3>2. CASE Waiting /\ ~Stalled
      BY <1>2, <3>2 DEF Asks, Waiting, Stalled, VtS
    <3>3. CASE ~(pollTimer \/ justExpired) /\ ~(Waiting /\ ~Stalled)
      <4>1. \A t \in Held(txed) : \E o \in Held(retx) : txed[t] < retx[o]
        BY <1>3, <3>3 DEF Asks
      <4>2. ~Stalled
        <5>1. ~(Rel(VtS, vtA) >= W) /\ Rel(VtS, vtA) \in Int
          BY <1>3, <2>2, WindowOf DEF PollsOnRetx
        <5> QED
          BY <5>1, WindowFacts DEF Stalled
      <4>3. Held(retx) # {sn}
        BY <2>2, <3>3, <4>2 DEF PollsOnRetx
      <4>4. PICK o \in Held(retx) : o # sn
        BY <1>1, <4>3
      <4>5. o \in Sn /\ retx[o] # 0 /\ retx[o] \in a..built /\ SnOf(retx[o]) = o
        BY Buffered DEF Held
      <4>6. retx[sn] < retx[o]
        <5>1. Rel(sn, vtA) = retx[sn] - a /\ Rel(o, vtA) = retx[o] - a
          BY <1>4, <4>5, Buffered
        <5>2. retx[sn] # retx[o]
          BY <1>4, <4>4, <4>5
        <5>3. Rel(sn, vtA) <= Rel(o, vtA)
          BY <1>1
        <5> QED
          BY <1>3, <1>4, <4>5, <5>1, <5>2, <5>3
      <4>7. o \in Held(retx)' /\ retx'[o] = retx[o]
        BY <1>5, <4>4, <4>5 DEF Held
      <4>8. ASSUME NEW t \in Held(txed)'
            PROVE  \E p \in Held(retx)' : txed'[t] < retx'[p]
        <5>1. t \in Sn /\ txed'[t] # 0
          BY DEF Held
        <5>2. CASE t = sn
          BY <1>5, <4>6, <4>7, <5>1, <5>2
        <5>3. CASE t # sn
          <6>1. t \in Held(txed) /\ txed'[t] = txed[t]
            BY <1>5, <5>1, <5>3 DEF Held
          <6>2. PICK p \in Held(retx) : txed[t] < retx[p]
            BY <4>1, <6>1
          <6>3. CASE p = sn
            <7>1. txed[t] \in Int /\ retx[sn] \in Int /\ retx[o] \in Int
              BY <1>3, <1>4, <4>5, <5>1
            <7>2. txed[t] < retx[o]
              BY <4>6, <6>2, <6>3, <7>1
            <7> QED
              BY <4>7, <6>1, <7>2
          <6>4. CASE p # sn
            <7>1. p \in Held(retx)' /\ retx'[p] = retx[p]
              BY <1>5, <6>4 DEF Held
            <7> QED
              BY <6>1, <6>2, <7>1
          <6> QED
            BY <6>3, <6>4
        <5> QED
          BY <5>2, <5>3
      <4> QED
        BY <4>8 DEF Asks
    <3> QED
      BY <3>1, <3>2, <3>3
  <2> QED
    BY <2>1, <2>2
<1>10. Fits(txed', a, built) /\ Fits(retx', a, built)
  BY <1>3, <1>4, <1>5 DEF Fits, Transmitter
<1>11. \A x \in Sn : txed'[x] = 0 \/ retx'[x] = 0
  BY <1>3, <1>5 DEF Transmitter
<1>12. built > 0 => pollSn' = SnOf(built)
  BY <1>3, <1>7 DEF Transmitter
<1>13. \A x \in Sn : \A v \in Sdu : txed[x] = v \/ retx[x] = v => txed'[x] = v \/ retx'[x] = v
  <2>1. \A v \in Sdu : v # 0
    BY DEF Sdu
  <2> QED
    BY <1>4, <1>5, <2>1
<1> QED
  BY <1>2, <1>6, <1>8, <1>9, <1>10, <1>11, <1>12, <1>13, BuffersStep

LEMMA PollTimerStep ==
    ASSUME NEW a, NEW ms, NEW h, NEW lo, NEW k, Good(a, ms, h, lo, k), ExpirePollRetransmitTimer
    PROVE  IInv'
<1>1. /\ pollTimer' = FALSE /\ justExpired' = TRUE
      /\ UNCHANGED <<accepted, built, vtA, pollSn, bsrTimer, air, statuses>>
      /\ UNCHANGED <<rxon, vrR, vrX, vrMs, vrH, reordering, requested, prohibit, told, delivered>>
  BY DEF ExpirePollRetransmitTimer, receiver
<1>2. /\ TypeOK /\ Asks /\ Transmitter(a) /\ Links(a) /\ built \in Nat
      /\ txed \in [Sn -> 0..MaxSdus] /\ retx \in [Sn -> 0..MaxSdus] /\ MaxSdus \in Nat
  BY GoodFacts, Types
<1>3. \/ UNCHANGED <<txed, retx>>
      \/ /\ retx' = [sn \in Sn |-> IF txed[sn] # 0 THEN txed[sn] ELSE retx[sn]]
         /\ txed' = [sn \in Sn |-> 0]
  BY DEF ExpirePollRetransmitTimer
<1>4. /\ txed' \in [Sn -> 0..MaxSdus] /\ retx' \in [Sn -> 0..MaxSdus]
      /\ Fits(txed', a, built) /\ Fits(retx', a, built)
      /\ \A sn \in Sn : txed'[sn] = 0 \/ retx'[sn] = 0
      /\ \A sn \in Sn : \A v \in Sdu : txed[sn] = v \/ retx[sn] = v => txed'[sn] = v \/ retx'[sn] = v
  <2>1. CASE UNCHANGED <<txed, retx>>
    BY <1>2, <2>1 DEF Transmitter
  <2>2. CASE /\ retx' = [sn \in Sn |-> IF txed[sn] # 0 THEN txed[sn] ELSE retx[sn]]
             /\ txed' = [sn \in Sn |-> 0]
    <3>1. \A sn \in Sn : txed'[sn] = 0 /\ retx'[sn] = IF txed[sn] # 0 THEN txed[sn] ELSE retx[sn]
      BY <2>2
    <3>2. txed' \in [Sn -> 0..MaxSdus] /\ retx' \in [Sn -> 0..MaxSdus]
      BY <1>2, <2>2
    <3>3. \A v \in Sdu : v # 0
      BY DEF Sdu
    <3>4. \A sn \in Sn : txed[sn] = 0 \/ retx[sn] = 0
      BY <1>2 DEF Transmitter
    <3>5. Fits(txed', a, built) /\ Fits(retx', a, built)
      BY <1>2, <3>1 DEF Transmitter, Fits
    <3> QED
      BY <3>1, <3>2, <3>3, <3>4, <3>5
  <2> QED
    BY <1>3, <2>1, <2>2
<1>5. TypeOK'
  BY <1>1, <1>2, <1>4 DEF TypeOK
<1>6. Asks'
  BY <1>1 DEF Asks
<1>7. built > 0 => pollSn' = SnOf(built)
  BY <1>1, <1>2 DEF Transmitter
<1>8. \A i \in DOMAIN air' : air'[i].n <= built
  BY <1>1, <1>2 DEF Links
<1> QED
  BY <1>1, <1>4, <1>5, <1>6, <1>7, <1>8, BuffersStep

-----------------------------------------------------------------------------
(* The invariant for the numbers of a step that changes them. *)
LEMMA NewNumbers ==
    ASSUME TypeOK', Asks',
           NEW a \in 1..(built' + 1), NEW ms \in 1..(built' + 1), NEW h \in 1..(built' + 1),
           NEW lo \in [DOMAIN statuses' -> 1..(built' + 1)],
           NEW k \in [DOMAIN statuses' -> 1..(built' + 1)],
           Transmitter(a)', Receiver(ms, h)', Links(a)', Reports(a, lo, k)'
    PROVE  IInv'
<1>1. Stands(a, ms, h, lo, k)'
  BY DEF Stands
<1> QED
  BY <1>1 DEF IInv

(* A STATUS PDU arrives or is lost: the numbers of the others. *)
LEMMA FewerReports ==
    ASSUME TypeOK, NEW a, NEW b, NEW i \in DOMAIN statuses, statuses' = RemoveAt(statuses, i),
           NEW lo \in [DOMAIN statuses -> 1..(built + 1)],
           NEW k \in [DOMAIN statuses -> 1..(built + 1)],
           Reports(a, lo, k),
           \A j \in DOMAIN statuses : \A s :
              j # i /\ s = statuses[j] => Report(s, b, lo[j], k[j])'
    PROVE  /\ statuses' \in Seq(StatusPdu)
           /\ \E l, e \in [DOMAIN statuses' -> 1..(built + 1)] : Reports(b, l, e)'
<1>1. statuses \in Seq(StatusPdu)
  BY DEF TypeOK
<1>2. /\ statuses' \in Seq(StatusPdu)
      /\ DOMAIN statuses' = 1..(Len(statuses) - 1) /\ DOMAIN statuses = 1..Len(statuses)
      /\ Len(statuses) \in Nat \ {0}
      /\ \A j \in 1..(Len(statuses) - 1) :
            statuses'[j] = IF j < i THEN statuses[j] ELSE statuses[j + 1]
  BY <1>1, RemoveFacts
<1> DEFINE from(j) == IF j < i THEN j ELSE j + 1
<1>3. ASSUME NEW j \in DOMAIN statuses'
      PROVE  /\ from(j) \in DOMAIN statuses /\ from(j) # i /\ statuses'[j] = statuses[from(j)]
             /\ \A m \in DOMAIN statuses' : j < m => from(j) < from(m)
  BY <1>2
<1>4. PICK l : l = [j \in DOMAIN statuses' |-> lo[from(j)]]
  OBVIOUS
<1>5. PICK e : e = [j \in DOMAIN statuses' |-> k[from(j)]]
  OBVIOUS
<1> HIDE DEF from
<1>6. /\ l \in [DOMAIN statuses' -> 1..(built + 1)] /\ e \in [DOMAIN statuses' -> 1..(built + 1)]
      /\ \A j \in DOMAIN statuses' : l[j] = lo[from(j)] /\ e[j] = k[from(j)]
  BY <1>3, <1>4, <1>5
<1>7. ASSUME NEW j \in DOMAIN statuses'
      PROVE  Report(statuses[j], b, l[j], e[j])'
  <2>1. PICK s : s = statuses[from(j)]
    OBVIOUS
  <2>2. Report(s, b, lo[from(j)], k[from(j)])'
    BY <1>3, <2>1
  <2>3. Report(s, b, l[j], e[j])'
    BY <1>6, <2>2
  <2>4. s = statuses'[j]
    BY <1>3, <2>1
  <2> QED
    BY <2>3, <2>4
<1>8. ASSUME NEW j \in DOMAIN statuses', NEW m \in DOMAIN statuses', j < m
      PROVE  /\ l[j] <= l[m]
             /\ \A n \in l[m]..(e[m] - 1) :
                   SnOf(n) \in statuses'[m].nacks /\ n < e[j] => SnOf(n) \in statuses'[j].nacks
  <2>1. from(j) \in DOMAIN statuses /\ from(m) \in DOMAIN statuses /\ from(j) < from(m)
    BY <1>3, <1>8
  <2> QED
    BY <1>3, <1>6, <2>1 DEF Reports
<1>9. Reports(b, l, e)'
  BY <1>7, <1>8 DEF Reports, SnOf
<1> QED
  BY <1>2, <1>6, <1>9

(* What a STATUS PDU says of the buffers, in numbers: all up to k[1] are   *)
(* considered, and what it asks for starts at lo[1].                       *)
LEMMA ReportSays ==
    ASSUME NEW a, NEW ms, NEW h, NEW lo, NEW k, Good(a, ms, h, lo, k),
           NEW i \in DOMAIN statuses, NEW s, s = statuses[i]
    PROVE  /\ \A n \in a..built : SnOf(n) \in Considered(s) <=> n < k[i]
           /\ \A sn \in Considered(s) : \E n \in a..(k[i] - 1) : SnOf(n) = sn
           /\ \A sn \in Nacked(s) : \E n \in lo[i]..(k[i] - 1) : SnOf(n) = sn
           /\ \A n \in a..(k[i] - 1) : SnOf(n) \in s.nacks => SnOf(n) \in Nacked(s) /\ lo[i] <= n
           /\ VtAAfter(s) = SnOf(lo[i])
<1> DEFINE l == lo[i]
           e == k[i]
<1>1. /\ TypeOK /\ Transmitter(a) /\ Reports(a, lo, k) /\ a \in Nat \ {0} /\ built \in Nat
      /\ a <= built + 1 /\ built < a + W /\ vtA = SnOf(a)
      /\ \A n \in a..built : n \in a..(a + M - 1) /\ n \in 1..built
      /\ \A x, y \in a..(a + M - 1) : SnOf(x) = SnOf(y) => x = y
  BY GoodFacts DEF Transmitter
<1>2. l \in Nat /\ e \in Nat
  BY <1>1, GoodFacts
<1>3. Report(s, a, l, e)
  BY <1>1 DEF Reports
<1> HIDE DEF l, e
<1>4. a <= l /\ l <= e /\ e <= built + 1 /\ s.ack = SnOf(e)
  BY <1>3 DEF Report
<1>5. e \in a..(a + M - 1) /\ e - a \in 0..(M - 1) /\ e - a <= built + 1 - a
  BY <1>1, <1>2, <1>4, WindowFacts
<1>6. Rel(s.ack, vtA) = e - a /\ Rel(VtS, vtA) = built + 1 - a
  BY <1>1, <1>4, <1>5, WindowOf
<1>7. \A sn \in Sn : Rel(sn, SnOf(a)) \in 0..(M - 1)
  BY <1>1, Buffered
<1>8. Considered(s) = {sn \in Sn : Rel(sn, SnOf(a)) < e - a}
  <2>1. ASSUME NEW sn \in Sn
        PROVE  Rel(sn, SnOf(a)) < e - a => Rel(sn, SnOf(a)) < built + 1 - a
    BY <1>1, <1>2, <1>5, <1>7
  <2> QED
    BY <1>1, <1>6, <2>1 DEF Considered
<1>9. /\ \A n \in a..(e - 1) : SnOf(n) \in Considered(s)
      /\ \A sn \in Considered(s) : \E n \in a..(e - 1) : SnOf(n) = sn
      /\ \A n \in a..(a + M - 1) : SnOf(n) \in Considered(s) <=> n < e
      /\ Cardinality(Considered(s)) = e - a
  <2>1. a \in Int /\ e \in Int /\ Considered(s) = {sn \in Sn : Rel(sn, SnOf(a)) < e - a}
    BY <1>1, <1>2, <1>8
  <2>2. PICK C : C = Considered(s)
    OBVIOUS
  <2>3. a \in Int /\ e \in Int /\ e - a \in 0..(M - 1)
        /\ C = {sn \in Sn : Rel(sn, SnOf(a)) < e - a}
    BY <1>5, <2>1, <2>2
  <2>4. /\ \A n \in a..(e - 1) : SnOf(n) \in C
        /\ \A sn \in C : \E n \in a..(e - 1) : SnOf(n) = sn
        /\ \A n \in a..(a + M - 1) : SnOf(n) \in C <=> n < e
        /\ Cardinality(C) = e - a
    BY ONLY <2>3, SegmentFacts
  <2> QED
    BY <2>2, <2>4
<1>10. ASSUME NEW sn \in s.nacks PROVE \E n \in l..(e - 1) : SnOf(n) = sn
  BY <1>3 DEF Report
<1>11. ASSUME NEW n \in a..(e - 1), SnOf(n) \in s.nacks
       PROVE  SnOf(n) \in Nacked(s) /\ l <= n
  <2>1. PICK m \in l..(e - 1) : SnOf(m) = SnOf(n)
    BY <1>10, <1>11
  <2>2. n \in a..(a + M - 1) /\ m \in a..(a + M - 1)
    BY <1>1, <1>2, <1>4, <1>5, WindowFacts
  <2>3. m = n
    BY <1>1, <2>1, <2>2
  <2> QED
    BY <1>2, <1>9, <1>11, <2>3 DEF Nacked
<1>12. ASSUME NEW n \in l..(e - 1) PROVE Rel(SnOf(n), vtA) = n - a
  <2>1. n \in a..(a + M - 1)
    BY <1>1, <1>2, <1>4, <1>5, WindowFacts
  <2> QED
    BY <1>1, <2>1, WindowOf
<1>13. VtAAfter(s) = SnOf(l)
  <2>1. CASE l < e
    <3>1. SnOf(l) \in s.nacks /\ l \in l..(e - 1) /\ l \in a..(e - 1)
      BY <1>1, <1>2, <1>3, <1>4, <2>1 DEF Report
    <3>2. SnOf(l) \in Nacked(s)
      BY <1>11, <3>1
    <3>3. \A other \in Nacked(s) : \E n \in l..(e - 1) : SnOf(n) = other
      BY <1>10 DEF Nacked
    <3>4. \A other \in Nacked(s) : Rel(SnOf(l), vtA) <= Rel(other, vtA)
      BY <1>1, <1>2, <1>12, <3>1, <3>3
    <3>5. ASSUME NEW sn \in Nacked(s),
                 \A other \in Nacked(s) : Rel(sn, vtA) <= Rel(other, vtA)
          PROVE  sn = SnOf(l)
      <4>1. PICK n \in l..(e - 1) : SnOf(n) = sn
        BY <3>3
      <4>2. n - a <= l - a
        BY <1>12, <3>1, <3>2, <3>5, <4>1
      <4> QED
        BY <1>1, <1>2, <4>1, <4>2
    <3> QED
      BY <3>2, <3>4, <3>5 DEF VtAAfter
  <2>2. CASE l = e
    <3>1. Nacked(s) = {}
      BY <1>2, <1>10, <2>2 DEF Nacked
    <3>2. Plus(SnOf(a), e - a) = SnOf(a + (e - a)) /\ a + (e - a) = e
      BY <1>1, <1>2, SnFacts
    <3> QED
      BY <1>1, <1>9, <2>2, <3>1, <3>2 DEF VtAAfter
  <2> QED
    BY <1>2, <1>4, <2>1, <2>2
<1> QED
  BY <1>1, <1>9, <1>10, <1>11, <1>13 DEF Nacked, l, e

(* The oldest report is taken: VT(A) moves to the first SDU it asks for.   *)
LEMMA ReceiveStatusStep ==
    ASSUME NEW a, NEW ms, NEW h, NEW lo, NEW k, Good(a, ms, h, lo, k),
           InOrder, NEW i \in DOMAIN statuses, ReceiveStatus(i)
    PROVE  IInv'
<1>1. i = 1
  BY DEF ReceiveStatus, InOrder
<1>2. PICK s : s = statuses[1]
  OBVIOUS
<1>3. /\ txed' = [sn \in Sn |-> IF sn \in Considered(s) THEN 0 ELSE txed[sn]]
      /\ retx' = RetxAfter(s) /\ vtA' = VtAAfter(s)
      /\ pollTimer' = (pollTimer /\ ~CancelsPoll(s))
      /\ statuses' = RemoveAt(statuses, 1)
      /\ UNCHANGED <<accepted, built, pollSn, justExpired, bsrTimer, air>>
      /\ UNCHANGED <<rxon, vrR, vrX, vrMs, vrH, reordering, requested, prohibit, told, delivered>>
  BY <1>1, <1>2 DEF ReceiveStatus, receiver
<1>4. /\ TypeOK /\ Asks /\ Transmitter(a) /\ Receiver(ms, h) /\ Links(a) /\ Reports(a, lo, k)
      /\ a \in Nat \ {0} /\ built \in Nat /\ a <= built + 1 /\ built < a + W /\ h <= built + 1
      /\ ms \in 1..(built + 1) /\ h \in 1..(built + 1)
      /\ lo \in [DOMAIN statuses -> 1..(built + 1)] /\ k \in [DOMAIN statuses -> 1..(built + 1)]
      /\ txed \in [Sn -> 0..MaxSdus] /\ retx \in [Sn -> 0..MaxSdus] /\ Len(delivered) \in Nat
  BY GoodFacts, Types
<1>5. 1 \in DOMAIN statuses
  BY <1>1
<1>6. PICK l : l = lo[1]
  OBVIOUS
<1>7. PICK e : e = k[1]
  OBVIOUS
<1>8. l \in 1..(built + 1) /\ e \in 1..(built + 1) /\ l \in Nat /\ e \in Nat
  BY <1>4, <1>5, <1>6, <1>7
<1>9. Report(s, a, l, e)
  BY <1>2, <1>4, <1>5, <1>6, <1>7 DEF Reports
<1>10. a <= l /\ l <= Len(delivered) + 1 /\ l <= e /\ e <= built + 1
  BY <1>9 DEF Report
<1>11. /\ \A n \in a..built : SnOf(n) \in Considered(s) <=> n < e
       /\ \A sn \in Considered(s) : \E n \in a..(e - 1) : SnOf(n) = sn
       /\ \A sn \in Nacked(s) : \E n \in l..(e - 1) : SnOf(n) = sn
       /\ \A n \in a..(e - 1) : SnOf(n) \in s.nacks => SnOf(n) \in Nacked(s) /\ l <= n
       /\ VtAAfter(s) = SnOf(l)
  BY <1>2, <1>5, <1>6, <1>7, ReportSays
<1>12. /\ \A sn \in Sn : txed'[sn] = IF sn \in Considered(s) THEN 0 ELSE txed[sn]
       /\ \A sn \in Sn : sn \notin Considered(s) => retx'[sn] = retx[sn]
       /\ \A sn \in Nacked(s) : retx'[sn] = IF txed[sn] # 0 THEN txed[sn] ELSE retx[sn]
       /\ \A sn \in Considered(s) : sn \notin Nacked(s) => retx'[sn] = 0
       /\ Considered(s) \subseteq Sn /\ Nacked(s) \subseteq Considered(s)
       /\ txed' \in [Sn -> 0..MaxSdus] /\ retx' \in [Sn -> 0..MaxSdus]
  <2>1. Considered(s) \subseteq Sn /\ Nacked(s) \subseteq Considered(s)
    BY DEF Considered, Nacked
  <2>2. MaxSdus \in Nat
    BY LinkAssumption
  <2>3. txed' \in [Sn -> 0..MaxSdus] /\ retx' \in [Sn -> 0..MaxSdus]
    BY <1>3, <1>4, <2>2 DEF RetxAfter
  <2> QED
    BY <1>3, <2>1, <2>3 DEF RetxAfter
<1>13. /\ \A sn \in Sn : txed[sn] # 0 => txed[sn] \in a..built /\ SnOf(txed[sn]) = sn
       /\ \A sn \in Sn : retx[sn] # 0 => retx[sn] \in a..built /\ SnOf(retx[sn]) = sn
       /\ \A sn \in Sn : txed[sn] = 0 \/ retx[sn] = 0
  BY <1>4 DEF Transmitter, Fits
<1>14. ASSUME NEW n \in 1..built, OnTx(n), n < e => SnOf(n) \in s.nacks
       PROVE  n \in a..built /\ (txed'[SnOf(n)] = n \/ retx'[SnOf(n)] = n) /\ OnTx(n)'
  <2>1. SnOf(n) \in Sn /\ n # 0
    BY SnFacts
  <2>2. txed[SnOf(n)] = n \/ retx[SnOf(n)] = n
    BY <1>14 DEF OnTx
  <2>3. n \in a..built
    BY <1>13, <2>1, <2>2
  <2>4. txed'[SnOf(n)] = n \/ retx'[SnOf(n)] = n
    <3>1. CASE n < e
      <4>1. SnOf(n) \in Nacked(s)
        BY <1>8, <1>11, <1>14, <2>3, <3>1
      <4> QED
        BY <1>12, <1>13, <2>1, <2>2, <4>1
    <3>2. CASE ~(n < e)
      <4>1. SnOf(n) \notin Considered(s)
        BY <1>11, <2>3, <3>2
      <4> QED
        BY <1>12, <2>1, <2>2, <4>1
    <3> QED
      BY <3>1, <3>2
  <2> QED
    BY <2>3, <2>4 DEF OnTx, SnOf
<1>15. Transmitter(l)'
  <2>1. ASSUME NEW sn \in Sn, txed'[sn] # 0
        PROVE  txed'[sn] \in l..built /\ SnOf(txed'[sn]) = sn
    <3>1. sn \notin Considered(s) /\ txed'[sn] = txed[sn]
      BY <1>12, <2>1
    <3>2. txed[sn] \in a..built /\ SnOf(txed[sn]) = sn
      BY <1>13, <2>1, <3>1
    <3>3. ~(txed[sn] < e)
      BY <1>11, <3>1, <3>2
    <3> QED
      BY <1>4, <1>8, <1>10, <3>1, <3>2, <3>3
  <2>2. ASSUME NEW sn \in Sn, retx'[sn] # 0
        PROVE  retx'[sn] \in l..built /\ SnOf(retx'[sn]) = sn
    <3>1. CASE sn \in Nacked(s)
      <4>1. PICK n \in l..(e - 1) : SnOf(n) = sn
        BY <1>11, <3>1
      <4>2. retx'[sn] = txed[sn] \/ retx'[sn] = retx[sn]
        BY <1>12, <3>1
      <4>3. retx'[sn] \in a..built /\ SnOf(retx'[sn]) = sn
        BY <1>13, <2>2, <4>2
      <4>4. n = retx'[sn]
        <5>1. n \in a..(a + M - 1)
          BY <1>4, <1>8, <1>10, WindowFacts
        <5>2. retx'[sn] \in a..(a + M - 1)
          BY <4>3, GoodFacts
        <5> QED
          BY <4>1, <4>3, <5>1, <5>2, GoodFacts
      <4> QED
        BY <1>4, <1>8, <4>3, <4>4
    <3>2. CASE sn \notin Nacked(s)
      <4>1. sn \notin Considered(s) /\ retx'[sn] = retx[sn]
        BY <1>12, <2>2, <3>2
      <4>2. retx[sn] \in a..built /\ SnOf(retx[sn]) = sn
        BY <1>13, <2>2, <4>1
      <4>3. ~(retx[sn] < e)
        BY <1>11, <4>1, <4>2
      <4> QED
        BY <1>4, <1>8, <1>10, <4>1, <4>2, <4>3
    <3> QED
      BY <3>1, <3>2
  <2>3. ASSUME NEW sn \in Sn PROVE txed'[sn] = 0 \/ retx'[sn] = 0
    BY <1>12, <1>13
  <2>4. vtA' = SnOf(l) /\ l <= built' + 1 /\ built' < l + W /\ built' = built
    <3>1. vtA' = SnOf(l) /\ built' = built
      BY <1>3, <1>11
    <3>2. built < l + W /\ l <= built + 1
      <4>1. a \in Nat /\ built \in Nat /\ built < a + W
        BY <1>4
      <4> QED
        BY <1>8, <1>10, <4>1, WindowFacts
    <3> QED
      BY <3>1, <3>2
  <2>5. built' > 0 => pollSn' = SnOf(built')
    BY <1>3, <1>4 DEF Transmitter
  <2> QED
    BY <2>1, <2>2, <2>3, <2>4, <2>5 DEF Transmitter, Fits, SnOf
<1>16. Receiver(ms, h)'
  <2>1. h <= built' + 1
    BY <1>3, <1>4
  <2> QED
    BY <1>3, <1>4, <2>1, ReceiverFrame
<1>17. \A n \in 1..built : Got(n) => Got(n)'
  BY <1>3, GotFrame
<1>18. Links(l)'
  <2>1. ASSUME NEW n \in 1..built PROVE Got(n)' \/ OnTx(n)'
    <3>1. CASE Got(n)
      BY <1>17, <3>1
    <3>2. CASE OnTx(n) /\ (n < e => SnOf(n) \in s.nacks)
      BY <1>14, <3>2
    <3>3. CASE n < e /\ SnOf(n) \notin s.nacks
      <4>1. CASE n < l
        BY <1>4, <1>8, <1>10, <1>17, <4>1 DEF Got
      <4>2. CASE ~(n < l)
        <5>1. n \in l..(e - 1)
          BY <1>8, <3>3, <4>2
        <5>2. Got(n)
          BY <1>9, <3>3, <5>1 DEF Report
        <5> QED
          BY <1>17, <5>2
      <4> QED
        BY <4>1, <4>2
    <3> QED
      BY <1>4, <3>1, <3>2, <3>3 DEF Links
  <2> QED
    BY <1>3, <1>4, <1>10, <2>1 DEF Links
<1>19. /\ statuses' \in Seq(StatusPdu)
       /\ \E lo2, k2 \in [DOMAIN statuses' -> 1..(built + 1)] : Reports(l, lo2, k2)'
  <2>1. ASSUME NEW j \in DOMAIN statuses, NEW t, j # 1, t = statuses[j]
        PROVE  Report(t, l, lo[j], k[j])'
    <3>0. 1 < j
      BY <1>4, <2>1, Types
    <3>1. Report(t, a, lo[j], k[j]) /\ l <= lo[j]
      <4>1. Report(t, a, lo[j], k[j])
        BY <1>4, <2>1 DEF Reports
      <4>2. lo[1] <= lo[j]
        BY <1>4, <1>5, <3>0 DEF Reports
      <4> QED
        BY <1>6, <4>1, <4>2
    <3>2. lo[j] \in Nat /\ k[j] \in Nat /\ a <= lo[j] /\ k[j] <= built + 1
      BY <1>4, <3>1 DEF Report
    <3>3. ASSUME NEW n \in lo[j]..(k[j] - 1), SnOf(n) \in t.nacks, OnTx(n)
          PROVE  OnTx(n)'
      <4>1. n \in 1..built
        BY <1>4, <3>2
      <4>2. n < e => SnOf(n) \in s.nacks
        <5>1. \A m \in lo[j]..(k[j] - 1) :
                 SnOf(m) \in statuses[j].nacks /\ m < k[1] => SnOf(m) \in statuses[1].nacks
          BY <1>4, <1>5, <3>0 DEF Reports
        <5> QED
          BY <1>2, <1>7, <2>1, <3>3, <5>1
      <4> QED
        BY <1>14, <3>3, <4>1, <4>2
    <3>4. built' \in Nat /\ built <= built' /\ Len(delivered)' \in Nat
          /\ Len(delivered) <= Len(delivered)'
      BY <1>3, <1>4
    <3> QED
      BY <1>4, <1>8, <1>17, <3>1, <3>2, <3>3, <3>4, ReportFrame
  <2> QED
    BY <1>3, <1>4, <1>5, <2>1, FewerReports
<1>20. TypeOK'
  <2>1. vtA' \in Sn
    BY <1>3, <1>8, <1>11, SnFacts
  <2>2. pollTimer' \in BOOLEAN
    BY <1>3, <1>4 DEF TypeOK
  <2>3. /\ txed' \in [Sn -> 0..MaxSdus] /\ retx' \in [Sn -> 0..MaxSdus]
        /\ statuses' \in Seq(StatusPdu)
    BY <1>12, <1>19
  <2> QED
    BY <1>3, <1>4, <2>1, <2>2, <2>3 DEF TypeOK
<1>21. Asks'
  <2>1. CASE (pollTimer /\ ~CancelsPoll(s)) \/ justExpired
    BY <1>3, <2>1 DEF Asks
  <2>2. CASE CancelsPoll(s)
    <3>1. pollSn \in Considered(s)
      BY <2>2 DEF CancelsPoll
    <3>2. a < e
      BY <1>4, <1>8, <1>11, <3>1
    <3>3. built \in a..built /\ built > 0 /\ pollSn = SnOf(built)
      BY <1>4, <1>8, <1>10, <3>2 DEF Transmitter
    <3>4. built < e
      BY <1>11, <3>1, <3>3
    <3>5. ASSUME NEW sn \in Sn PROVE txed'[sn] = 0
      <4>1. CASE txed[sn] = 0
        BY <1>12, <4>1
      <4>2. CASE txed[sn] # 0
        <5>1. txed[sn] \in a..built /\ SnOf(txed[sn]) = sn
          BY <1>13, <4>2
        <5>2. txed[sn] < e
          BY <1>4, <1>8, <3>4, <5>1
        <5> QED
          BY <1>11, <1>12, <5>1, <5>2
      <4> QED
        BY <4>1, <4>2
    <3> QED
      BY <3>5 DEF Asks, Held
  <2>3. CASE Waiting /\ ~Stalled
    <3>1. built + 1 - a # W
      BY <1>4, <2>3, WindowOf
    <3>2. built + 1 - l # W /\ built + 1 - l \in 0..(M - 1)
      BY <1>4, <1>8, <1>10, <3>1, WindowFacts
    <3>3. VtS = SnOf(built + 1)
      BY <1>4, WindowOf
    <3>4. Rel(VtS, SnOf(l)) = built + 1 - l
      BY <1>4, <1>8, <3>2, <3>3, SnFacts
    <3>5. Rel(VtS, vtA') # W
      BY <1>3, <1>11, <3>2, <3>4
    <3> QED
      BY <1>3, <2>3, <3>5 DEF Asks, Waiting, Stalled, VtS, Rel
  <2>4. CASE \A sn \in Held(txed) : \E other \in Held(retx) : txed[sn] < retx[other]
    <3>1. ASSUME NEW sn \in Held(txed)'
          PROVE  \E other \in Held(retx)' : txed'[sn] < retx'[other]
      <4>1. sn \in Sn /\ sn \notin Considered(s) /\ txed'[sn] = txed[sn] /\ txed[sn] # 0
        BY <1>12 DEF Held
      <4>2. PICK o \in Held(retx) : txed[sn] < retx[o]
        BY <2>4, <4>1 DEF Held
      <4>3. txed[sn] \in a..built /\ SnOf(txed[sn]) = sn
        BY <1>13, <4>1
      <4>4. o \in Sn /\ retx[o] # 0 /\ retx[o] \in a..built /\ SnOf(retx[o]) = o
        BY <1>13 DEF Held
      <4>5. ~(txed[sn] < e)
        BY <1>11, <4>1, <4>3
      <4>6. ~(retx[o] < e)
        BY <1>4, <1>8, <4>2, <4>3, <4>4, <4>5
      <4>7. retx'[o] = retx[o]
        BY <1>11, <1>12, <4>4, <4>6
      <4> QED
        BY <4>1, <4>2, <4>4, <4>7 DEF Held
    <3> QED
      BY <3>1 DEF Asks
  <2> QED
    BY <1>4, <2>1, <2>2, <2>3, <2>4 DEF Asks
<1>22. PICK lo2, k2 \in [DOMAIN statuses' -> 1..(built + 1)] : Reports(l, lo2, k2)'
  BY <1>19
<1> QED
  BY <1>3, <1>4, <1>8, <1>15, <1>16, <1>18, <1>20, <1>21, <1>22, NewNumbers

LEMMA LoseDataStep ==
    ASSUME NEW a, NEW ms, NEW h, NEW lo, NEW k, Good(a, ms, h, lo, k),
           NEW i \in DOMAIN air, LoseData(i)
    PROVE  IInv'
<1>1. /\ UNCHANGED <<accepted, built, vtA, txed, retx, pollSn, pollTimer, justExpired, bsrTimer>>
      /\ UNCHANGED <<rxon, vrR, vrX, vrMs, vrH, reordering, requested, prohibit, told, delivered>>
      /\ UNCHANGED statuses /\ air' = RemoveAt(air, i)
  BY DEF LoseData, sender, receiver
<1>2. TypeOK /\ Asks /\ Transmitter(a) /\ Links(a) /\ air \in Seq(DataPdu)
  BY GoodFacts, Types
<1>3. /\ air' \in Seq(DataPdu) /\ DOMAIN air' = 1..(Len(air) - 1) /\ DOMAIN air = 1..Len(air)
      /\ Len(air) \in Nat \ {0}
      /\ \A j \in 1..(Len(air) - 1) : air'[j] = IF j < i THEN air[j] ELSE air[j + 1]
  BY <1>1, <1>2, RemoveFacts
<1>4. ASSUME NEW j \in DOMAIN air' PROVE air'[j].n <= built
  <2>1. (j \in DOMAIN air /\ air'[j] = air[j]) \/ (j + 1 \in DOMAIN air /\ air'[j] = air[j + 1])
    BY <1>3
  <2> QED
    BY <1>2, <2>1 DEF Links
<1>5. TypeOK'
  BY <1>1, <1>2, <1>3 DEF TypeOK
<1>6. Asks'
  BY <1>1, <1>2 DEF Asks, Waiting, Stalled, VtS, Held
<1>7. /\ Fits(txed', a, built) /\ Fits(retx', a, built)
      /\ \A sn \in Sn : txed'[sn] = 0 \/ retx'[sn] = 0
      /\ built > 0 => pollSn' = SnOf(built)
  BY <1>1, <1>2 DEF Transmitter
<1>8. \A sn \in Sn : \A v \in Sdu : txed[sn] = v \/ retx[sn] = v => txed'[sn] = v \/ retx'[sn] = v
  BY <1>1
<1> QED
  BY <1>1, <1>4, <1>5, <1>6, <1>7, <1>8, BuffersStep

(* A step of the link on which the reports go. *)
LEMMA ReportsStep ==
    ASSUME NEW a, NEW ms, NEW h, NEW lo, NEW k, Good(a, ms, h, lo, k),
           UNCHANGED <<accepted, built, vtA, txed, retx, pollSn, pollTimer, justExpired, bsrTimer>>,
           UNCHANGED <<rxon, vrR, vrX, vrMs, vrH, reordering, delivered, air>>,
           requested' \in BOOLEAN, prohibit' \in BOOLEAN, told' \in BOOLEAN,
           statuses' \in Seq(StatusPdu),
           NEW lo2 \in [DOMAIN statuses' -> 1..(built + 1)],
           NEW k2 \in [DOMAIN statuses' -> 1..(built + 1)],
           Reports(a, lo2, k2)'
    PROVE  IInv'
<1>1. /\ TypeOK /\ Asks /\ Transmitter(a) /\ Receiver(ms, h) /\ Links(a)
      /\ a \in 1..(built' + 1) /\ ms \in 1..(built' + 1) /\ h \in 1..(built' + 1)
      /\ lo2 \in [DOMAIN statuses' -> 1..(built' + 1)]
      /\ k2 \in [DOMAIN statuses' -> 1..(built' + 1)]
  BY GoodFacts
<1>2. TypeOK'
  BY <1>1 DEF TypeOK
<1>3. Asks'
  BY <1>1 DEF Asks, Waiting, Stalled, VtS, Held
<1>4. Transmitter(a)' /\ Receiver(ms, h)' /\ Links(a)'
  BY <1>1 DEF Transmitter, Receiver, Links, Got, OnTx, Fits
<1> QED
  BY <1>1, <1>2, <1>3, <1>4, NewNumbers

(* What a step changes of a report when it changes neither the buffers nor *)
(* what was received.                                                      *)
LEMMA OtherReport ==
    ASSUME NEW a, NEW ms, NEW h, NEW lo, NEW k, Good(a, ms, h, lo, k),
           UNCHANGED <<built, txed, retx, rxon, delivered>>,
           NEW j \in DOMAIN statuses, NEW s, s = statuses[j]
    PROVE  Report(s, a, lo[j], k[j])'
<1>1. TypeOK /\ Reports(a, lo, k) /\ a \in Nat \ {0} /\ built \in Nat
  BY GoodFacts
<1>2. Len(delivered) \in Nat /\ Len(delivered)' \in Nat /\ Len(delivered) <= Len(delivered)'
      /\ built' \in Nat /\ built <= built'
  BY <1>1, Types
<1>3. Report(s, a, lo[j], k[j]) /\ lo[j] \in Nat /\ k[j] \in Nat
  BY <1>1, GoodFacts DEF Reports
<1>4. a <= lo[j] /\ k[j] <= built + 1
  BY <1>3 DEF Report
<1>5. \A n \in 1..built : (Got(n) => Got(n)') /\ (OnTx(n) => OnTx(n)')
  BY GotFrame, OnTxFrame
<1>6. \A n \in lo[j]..(k[j] - 1) : n \in 1..built
  BY <1>1, <1>3, <1>4
<1> QED
  BY <1>1, <1>2, <1>3, <1>4, <1>5, <1>6, ReportFrame

LEMMA LoseStatusStep ==
    ASSUME NEW a, NEW ms, NEW h, NEW lo, NEW k, Good(a, ms, h, lo, k),
           NEW i \in DOMAIN statuses, LoseStatus(i)
    PROVE  IInv'
<1>1. /\ UNCHANGED <<accepted, built, vtA, txed, retx, pollSn, pollTimer, justExpired, bsrTimer>>
      /\ UNCHANGED <<rxon, vrR, vrX, vrMs, vrH, reordering, requested, prohibit, told, delivered>>
      /\ UNCHANGED air /\ statuses' = RemoveAt(statuses, i)
  BY DEF LoseStatus, sender, receiver
<1>2. /\ TypeOK /\ Reports(a, lo, k)
      /\ lo \in [DOMAIN statuses -> 1..(built + 1)] /\ k \in [DOMAIN statuses -> 1..(built + 1)]
  BY GoodFacts
<1>3. \A j \in DOMAIN statuses : \A s : s = statuses[j] => Report(s, a, lo[j], k[j])'
  BY <1>1, OtherReport
<1>4. /\ statuses' \in Seq(StatusPdu)
      /\ \E l, e \in [DOMAIN statuses' -> 1..(built + 1)] : Reports(a, l, e)'
  BY <1>1, <1>2, <1>3, FewerReports
<1>5. PICK l, e \in [DOMAIN statuses' -> 1..(built + 1)] : Reports(a, l, e)'
  BY <1>4
<1>6. requested' \in BOOLEAN /\ prohibit' \in BOOLEAN /\ told' \in BOOLEAN
  BY <1>1, <1>2 DEF TypeOK
<1> QED
  BY <1>1, <1>4, <1>5, <1>6, ReportsStep

-----------------------------------------------------------------------------
(* What is in the buffer of the receiver, by number. *)
LEMMA Slots ==
    ASSUME NEW a, NEW ms, NEW h, NEW lo, NEW k, Good(a, ms, h, lo, k),
           NEW r, r = Len(delivered) + 1
    PROVE  /\ r \in Nat \ {0} /\ vrR = SnOf(r) /\ r <= ms /\ ms <= h /\ h <= r + W
           /\ \A n \in r..(r + M - 1) : rxon[SnOf(n)] # 0 =>
                 rxon[SnOf(n)] = n /\ n \in (r + 1)..(h - 1)
           /\ rxon[SnOf(r)] = 0
           /\ \A n \in r..(r + M - 1) : SnOf(n) \in Sn
           /\ \A x, y \in r..(r + M - 1) : SnOf(x) = SnOf(y) => x = y
<1>1. /\ TypeOK /\ Transmitter(a) /\ Receiver(ms, h) /\ Links(a)
      /\ a \in Nat \ {0} /\ ms \in Nat /\ h \in Nat /\ built \in Nat /\ h <= built + 1
      /\ Len(delivered) \in Nat
  BY GoodFacts, Types
<1>2. h <= r + W /\ r \in Nat \ {0} /\ vrR = SnOf(r) /\ r <= ms /\ ms <= h
  BY <1>1, ReceiverWindow DEF Receiver
<1>3. \A n \in r..(r + M - 1) : SnOf(n) \in Sn
  BY <1>2, SnFacts
<1>4. ASSUME NEW x \in r..(r + M - 1), NEW y \in r..(r + M - 1), SnOf(x) = SnOf(y)
      PROVE  x = y
  <2>1. x \in Int /\ y \in Int
    BY <1>2
  <2>2. CASE x <= y
    <3>1. y - x \in 0..(M - 1)
      BY <1>2, <2>2, WindowFacts
    <3> QED
      BY <1>4, <2>1, <3>1, SnFacts
  <2>3. CASE y <= x
    <3>1. x - y \in 0..(M - 1)
      BY <1>2, <2>3, WindowFacts
    <3> QED
      BY <1>4, <2>1, <3>1, SnFacts
  <2> QED
    BY <2>1, <2>2, <2>3
<1>5. ASSUME NEW n \in r..(r + M - 1), rxon[SnOf(n)] # 0
      PROVE  rxon[SnOf(n)] = n /\ n \in (r + 1)..(h - 1)
  <2>1. PICK v : v = rxon[SnOf(n)]
    OBVIOUS
  <2>2. v \in (Len(delivered) + 2)..(h - 1) /\ SnOf(v) = SnOf(n)
    BY <1>1, <1>3, <1>5, <2>1 DEF Receiver, Fits
  <2>3. v \in (r + 1)..(h - 1) /\ v \in r..(r + M - 1)
    BY <1>1, <1>2, <2>2, WindowFacts
  <2> QED
    BY <1>4, <2>1, <2>2, <2>3
<1>6. r \in r..(r + M - 1) /\ r \notin (r + 1)..(h - 1)
  BY <1>1, <1>2, WindowFacts
<1> QED
  BY <1>2, <1>3, <1>4, <1>5, <1>6

(* What a STATUS PDU says, in numbers: it goes up to SDU e, and asks for   *)
(* what is missing before it.                                              *)
SpeaksOf(ack, nacks, r, e) ==
    /\ ack = SnOf(e)
    /\ \A sn \in nacks : \E n \in r..(e - 1) : sn = SnOf(n)
    /\ \A n \in r..(e - 1) : SnOf(n) \in nacks <=> rxon[SnOf(n)] = 0

LEMMA StatusSays ==
    ASSUME NEW a, NEW ms, NEW h, NEW lo, NEW k, Good(a, ms, h, lo, k),
           NEW r, r = Len(delivered) + 1, NEW room \in NackRoom,
           NEW nacks, \A sn : sn \in nacks <=> sn \in Missing /\ Cardinality(MissingBefore(sn)) < room
    PROVE  \E e \in r..ms : SpeaksOf(AckSn(room), nacks, r, e)
<1>1. /\ TypeOK /\ Transmitter(a) /\ Receiver(ms, h) /\ Links(a)
      /\ a \in Nat \ {0} /\ ms \in Nat /\ h \in Nat
  BY GoodFacts
<1>2. /\ r \in Nat \ {0} /\ vrR = SnOf(r) /\ r <= ms /\ ms <= h /\ h <= r + W
      /\ ms - r \in 0..(M - 1) /\ r \in Int /\ ms \in Int
  BY <1>1, Slots, WindowFacts
<1>3. Rel(vrMs, vrR) = ms - r
  BY <1>1, ReceiverWindow
<1>4. PICK S : S = {sn \in Sn : Rel(sn, SnOf(r)) < ms - r}
  OBVIOUS
<1>5. /\ \A n \in r..(ms - 1) : SnOf(n) \in S
      /\ \A sn \in S : \E n \in r..(ms - 1) : SnOf(n) = sn
  BY <1>2, <1>4, SegmentFacts
<1>6. Missing = {sn \in S : rxon[sn] = 0} /\ Missing \subseteq Sn
  BY <1>2, <1>3, <1>4 DEF Missing
<1>7. \A n \in r..(ms - 1) : Rel(SnOf(n), vrR) = n - r
  <2>1. \A n \in (Len(delivered) + 1)..(Len(delivered) + M) :
           Rel(SnOf(n), vrR) = n - (Len(delivered) + 1)
    BY <1>1, ReceiverWindow
  <2> QED
    BY <1>1, <1>2, <2>1, Types, WindowFacts
<1>8. room \in Nat \ {0}
  BY LinkAssumption
<1>9. /\ Cardinality(Missing) \in Nat
      /\ \A sn \in Missing : /\ Cardinality(MissingBefore(sn)) \in Nat
                             /\ Cardinality(MissingBefore(sn)) < Cardinality(Missing)
      /\ \A x, y \in Missing : Rel(x, vrR) < Rel(y, vrR)
            => Cardinality(MissingBefore(x)) < Cardinality(MissingBefore(y))
      /\ Cardinality(Missing) > room
            => \E sn \in Missing : Cardinality(MissingBefore(sn)) = room
  BY <1>2, <1>8, Ranks
<1>10. CASE Cardinality(Missing) <= room
  <2>1. AckSn(room) = SnOf(ms)
    BY <1>1, <1>10 DEF AckSn, Receiver
  <2>2. \A sn : sn \in nacks <=> sn \in Missing
    <3>1. ASSUME NEW sn \in Missing PROVE Cardinality(MissingBefore(sn)) < room
      BY <1>8, <1>9, <1>10
    <3> QED
      BY <3>1
  <2>3. ms \in r..ms
    BY <1>2
  <2> QED
    BY <1>5, <1>6, <2>1, <2>2, <2>3 DEF SpeaksOf
<1>11. CASE ~(Cardinality(Missing) <= room)
  <2>1. Cardinality(Missing) > room
    BY <1>8, <1>9, <1>11
  <2>2. AckSn(room) \in Missing /\ Cardinality(MissingBefore(AckSn(room))) = room
    BY <1>9, <1>11, <2>1 DEF AckSn
  <2>3. PICK e \in r..(ms - 1) : SnOf(e) = AckSn(room)
    BY <1>5, <1>6, <2>2
  <2>4. e \in r..ms /\ e \in Nat
    BY <1>2
  <2>5. ASSUME NEW n \in r..(ms - 1), SnOf(n) \in Missing
        PROVE  SnOf(n) \in nacks <=> n < e
    <3>1. Rel(SnOf(n), vrR) = n - r /\ Rel(SnOf(e), vrR) = e - r
      BY <1>7
    <3>2. Cardinality(MissingBefore(SnOf(n))) \in Nat /\ SnOf(e) \in Missing
          /\ Cardinality(MissingBefore(SnOf(e))) = room
      BY <1>9, <2>2, <2>3, <2>5
    <3>3. CASE n < e
      <4>1. Rel(SnOf(n), vrR) < Rel(SnOf(e), vrR)
        BY <1>2, <2>4, <3>1, <3>3
      <4>2. Cardinality(MissingBefore(SnOf(n))) < room
        BY <1>9, <2>5, <3>2, <4>1
      <4> QED
        BY <2>5, <3>3, <4>2
    <3>4. CASE n = e
      BY <1>8, <3>2, <3>4
    <3>5. CASE n > e
      <4>1. Rel(SnOf(e), vrR) < Rel(SnOf(n), vrR)
        BY <1>2, <2>4, <3>1, <3>5
      <4>2. room < Cardinality(MissingBefore(SnOf(n)))
        BY <1>9, <2>5, <3>2, <4>1
      <4> QED
        BY <1>2, <1>8, <2>4, <3>2, <3>5, <4>2
    <3> QED
      BY <1>2, <2>4, <3>3, <3>4, <3>5
  <2>6. ASSUME NEW sn \in nacks PROVE \E n \in r..(e - 1) : sn = SnOf(n)
    <3>1. sn \in Missing
      OBVIOUS
    <3>2. PICK n \in r..(ms - 1) : SnOf(n) = sn
      BY <1>5, <1>6, <3>1
    <3>3. n < e
      BY <2>5, <3>1, <3>2
    <3> QED
      BY <1>2, <2>4, <3>2, <3>3
  <2>7. ASSUME NEW n \in r..(e - 1) PROVE SnOf(n) \in nacks <=> rxon[SnOf(n)] = 0
    <3>1. n \in r..(ms - 1) /\ n < e
      BY <1>2, <2>4
    <3>2. SnOf(n) \in Missing <=> rxon[SnOf(n)] = 0
      BY <1>5, <1>6, <3>1
    <3> QED
      BY <2>5, <3>1, <3>2
  <2> QED
    BY <2>3, <2>4, <2>6, <2>7 DEF SpeaksOf
<1> QED
  BY <1>10, <1>11

LEMMA SendStatusStep ==
    ASSUME NEW a, NEW ms, NEW h, NEW lo, NEW k, Good(a, ms, h, lo, k),
           NEW room \in NackRoom, SendStatus(room)
    PROVE  IInv'
<1>1. PICK nacks : nacks = {sn \in Missing : Cardinality(MissingBefore(sn)) < room}
  OBVIOUS
<1>2. PICK s : s = [ack |-> AckSn(room), nacks |-> nacks]
  OBVIOUS
<1>3. /\ UNCHANGED <<accepted, built, vtA, txed, retx, pollSn, pollTimer, justExpired, bsrTimer>>
      /\ UNCHANGED <<rxon, vrR, vrX, vrMs, vrH, reordering, delivered, air>>
      /\ requested' \in BOOLEAN /\ prohibit' \in BOOLEAN /\ told' \in BOOLEAN
      /\ statuses' = Append(statuses, s)
  BY <1>1, <1>2 DEF SendStatus, sender
<1>4. /\ TypeOK /\ Receiver(ms, h) /\ Links(a) /\ Reports(a, lo, k)
      /\ a \in Nat \ {0} /\ ms \in Nat /\ h \in Nat /\ built \in Nat /\ h <= built + 1
      /\ lo \in [DOMAIN statuses -> 1..(built + 1)] /\ k \in [DOMAIN statuses -> 1..(built + 1)]
      /\ Len(delivered) \in Nat /\ statuses \in Seq(StatusPdu)
      /\ DOMAIN statuses = 1..Len(statuses) /\ Len(statuses) \in Nat
  BY GoodFacts, Types
<1>5. PICK r : r = Len(delivered) + 1
  OBVIOUS
<1>6. /\ r \in Nat \ {0} /\ r <= ms /\ ms <= h /\ h <= r + W /\ a <= r
      /\ rxon[SnOf(r)] = 0
      /\ \A n \in r..(r + M - 1) : rxon[SnOf(n)] # 0 => rxon[SnOf(n)] = n
  BY <1>4, <1>5, Slots DEF Links
<1>7. PICK e \in r..ms : /\ AckSn(room) = SnOf(e)
                         /\ \A sn \in nacks : \E n \in r..(e - 1) : sn = SnOf(n)
                         /\ \A n \in r..(e - 1) : SnOf(n) \in nacks <=> rxon[SnOf(n)] = 0
  <2>1. \A sn : sn \in nacks <=> sn \in Missing /\ Cardinality(MissingBefore(sn)) < room
    BY <1>1
  <2>2. \E e \in r..ms : SpeaksOf(AckSn(room), nacks, r, e)
    BY <1>5, <2>1, StatusSays
  <2> QED
    BY <2>2 DEF SpeaksOf
<1>8. e \in Nat /\ e \in 1..(built + 1) /\ r \in 1..(built + 1)
  BY <1>4, <1>6
<1>9. ASSUME NEW n \in r..(e - 1)
      PROVE  /\ n \in 1..built /\ n > Len(delivered)
             /\ IF SnOf(n) \in nacks THEN ~Got(n) /\ OnTx(n) ELSE Got(n)
  <2>1. n \in 1..built /\ n > Len(delivered) /\ n \in r..(r + M - 1) /\ n # 0
    BY <1>4, <1>5, <1>6, <1>8, WindowFacts
  <2>2. rxon[SnOf(n)] = 0 \/ rxon[SnOf(n)] = n
    BY <1>6, <2>1
  <2>3. ~(n <= Len(delivered))
    BY <1>4, <2>1
  <2>4. Got(n) <=> SnOf(n) \notin nacks
    BY <1>7, <2>1, <2>2, <2>3 DEF Got
  <2> QED
    BY <1>4, <2>1, <2>4 DEF Links
<1>10. s.ack = SnOf(e) /\ s.nacks = nacks /\ s \in StatusPdu
  <2>1. AckSn(room) \in Sn /\ nacks \subseteq Sn
    BY <1>1, <1>7, <1>8, SnFacts DEF Missing
  <2> QED
    BY <1>2, <1>7, <2>1 DEF StatusPdu
<1>11. Report(s, a, r, e)'
  <2>1. r < e => SnOf(r) \in nacks
    BY <1>6, <1>7, <1>8
  <2>2. \A n \in r..(e - 1) : IF SnOf(n) \in s.nacks THEN OnTx(n)' ELSE Got(n)'
    <3>1. \A n \in 1..built : (Got(n) => Got(n)') /\ (OnTx(n) => OnTx(n)')
      BY <1>3, GotFrame, OnTxFrame
    <3> QED
      BY <1>9, <1>10, <3>1
  <2>3. a <= r /\ r <= Len(delivered)' + 1 /\ r <= e /\ e <= built' + 1
    BY <1>3, <1>4, <1>5, <1>6, <1>8
  <2> QED
    BY <1>7, <1>10, <2>1, <2>2, <2>3 DEF Report, SnOf
<1>12. /\ statuses' \in Seq(StatusPdu) /\ DOMAIN statuses' = 1..(Len(statuses) + 1)
       /\ \A i \in DOMAIN statuses : statuses'[i] = statuses[i]
       /\ statuses'[Len(statuses) + 1] = s
  BY <1>3, <1>4, <1>10, AppendProperties, LenProperties
<1>13. PICK last : last = Len(statuses) + 1
  OBVIOUS
<1>14. PICK lo2 : lo2 = [i \in DOMAIN statuses' |-> IF i = last THEN r ELSE lo[i]]
  OBVIOUS
<1>15. PICK k2 : k2 = [i \in DOMAIN statuses' |-> IF i = last THEN e ELSE k[i]]
  OBVIOUS
<1>16. /\ \A i \in DOMAIN statuses' : i = last \/ (i \in DOMAIN statuses /\ i < last)
       /\ \A i \in DOMAIN statuses : i \in DOMAIN statuses' /\ i # last
       /\ last \in DOMAIN statuses'
  BY <1>4, <1>12, <1>13
<1>17. /\ lo2 \in [DOMAIN statuses' -> 1..(built + 1)] /\ k2 \in [DOMAIN statuses' -> 1..(built + 1)]
       /\ lo2[last] = r /\ k2[last] = e /\ statuses'[last] = s
       /\ \A i \in DOMAIN statuses :
             lo2[i] = lo[i] /\ k2[i] = k[i] /\ statuses'[i] = statuses[i]
  BY <1>4, <1>8, <1>12, <1>13, <1>14, <1>15, <1>16
<1>18. ASSUME NEW i \in DOMAIN statuses'
       PROVE  Report(statuses[i], a, lo2[i], k2[i])'
  <2>1. CASE i = last
    BY <1>11, <1>17, <2>1
  <2>2. CASE i \in DOMAIN statuses
    <3>1. PICK t : t = statuses[i]
      OBVIOUS
    <3>2. Report(t, a, lo[i], k[i])'
      BY <1>3, <2>2, <3>1, OtherReport
    <3>3. t = statuses'[i] /\ lo2[i] = lo[i] /\ k2[i] = k[i]
      BY <1>17, <2>2, <3>1
    <3> QED
      BY <3>2, <3>3
  <2> QED
    BY <1>16, <2>1, <2>2
<1>19. ASSUME NEW i \in DOMAIN statuses', NEW j \in DOMAIN statuses', i < j
       PROVE  /\ lo2[i] <= lo2[j]
              /\ \A n \in lo2[j]..(k2[j] - 1) :
                    SnOf(n) \in statuses'[j].nacks /\ n < k2[i] => SnOf(n) \in statuses'[i].nacks
  <2>1. i \in DOMAIN statuses
    BY <1>4, <1>12, <1>13, <1>16, <1>19
  <2>2. CASE j \in DOMAIN statuses
    BY <1>4, <1>17, <1>19, <2>1, <2>2 DEF Reports
  <2>3. CASE j = last
    <3>1. Report(statuses[i], a, lo[i], k[i]) /\ lo[i] \in Nat /\ k[i] \in Nat
      BY <1>4, <2>1 DEF Reports
    <3>2. lo[i] <= r
      BY <1>5, <3>1 DEF Report
    <3>3. ASSUME NEW n \in r..(e - 1), SnOf(n) \in nacks, n < k[i]
          PROVE  SnOf(n) \in statuses[i].nacks
      <4>1. n \in lo[i]..(k[i] - 1)
        BY <1>6, <1>8, <3>1, <3>2, <3>3
      <4>2. ~Got(n)
        BY <1>9, <3>3
      <4> QED
        BY <3>1, <4>1, <4>2 DEF Report
    <3> QED
      BY <1>10, <1>17, <2>1, <2>3, <3>2, <3>3
  <2> QED
    BY <1>16, <2>2, <2>3
<1>20. Reports(a, lo2, k2)'
  BY <1>18, <1>19 DEF Reports, SnOf
<1> QED
  BY <1>3, <1>12, <1>17, <1>20, ReportsStep

-----------------------------------------------------------------------------
(* A number of the window before a base is at least W from it. *)
LEMMA Behind ==
    ASSUME NEW n \in Int, NEW b \in Int, b - n \in 1..W
    PROVE  Rel(SnOf(n), SnOf(b)) >= W /\ ~(Rel(SnOf(n), SnOf(b)) < W)
<1>1. W \in Nat \ {0} /\ M \in Nat \ {0} /\ M = 2 * W
  BY WindowFacts
<1>2. PICK m \in b..(b + M - 1) : SnOf(m) = SnOf(n)
  BY SnExists, SnFacts
<1>3. m \in Int /\ m - b \in 0..(M - 1) /\ Rel(SnOf(m), SnOf(b)) = m - b
  BY <1>1, <1>2, SnFacts
<1>4. CASE m - b < W
  <2>1. m - n \in 0..(M - 1) /\ m # n
    BY <1>1, <1>3, <1>4
  <2> QED
    BY <1>2, <1>3, <2>1, SnFacts
<1>5. CASE ~(m - b < W)
  BY <1>1, <1>2, <1>3, <1>5
<1> QED
  BY <1>4, <1>5

(* A step of the receiver: the numbers that the transmitter and the        *)
(* reports have stay.                                                      *)
LEMMA ReceiverStep ==
    ASSUME NEW a, NEW ms, NEW h, NEW lo, NEW k, Good(a, ms, h, lo, k), TypeOK',
           UNCHANGED <<accepted, built, vtA, txed, retx, pollSn, pollTimer, justExpired, statuses>>,
           NEW ms2 \in 1..(built + 1), NEW h2 \in 1..(built + 1), Receiver(ms2, h2)',
           Len(delivered)' \in Nat, Len(delivered) <= Len(delivered)',
           \A n \in 1..built : Got(n) => Got(n)',
           \A i \in DOMAIN air' : air'[i].n <= built
    PROVE  IInv'
<1>1. /\ TypeOK /\ Asks /\ Transmitter(a) /\ Links(a) /\ Reports(a, lo, k)
      /\ a \in Nat \ {0} /\ built \in Nat /\ a \in 1..(built + 1) /\ Len(delivered) \in Nat
      /\ lo \in [DOMAIN statuses -> 1..(built + 1)] /\ k \in [DOMAIN statuses -> 1..(built + 1)]
  BY GoodFacts, Types
<1>2. Asks'
  BY <1>1 DEF Asks, Waiting, Stalled, VtS, Held
<1>3. Transmitter(a)'
  BY <1>1 DEF Transmitter, Fits
<1>4. \A n \in 1..built : (Got(n) => Got(n)') /\ (OnTx(n) => OnTx(n)')
  BY OnTxFrame
<1>5. built' \in Nat /\ built <= built' /\ 1..(built + 1) \subseteq 1..(built' + 1)
      /\ \A n \in (built + 1)..built' : FALSE
  BY <1>1
<1>6. Links(a)'
  BY <1>1, <1>4, <1>5, LinksFrame
<1>7. Reports(a, lo, k)'
  BY <1>1, <1>4, <1>5, ReportsFrame
<1> QED
  BY <1>1, <1>2, <1>3, <1>5, <1>6, <1>7, SameNumbers

(* What t-Reordering waited for is given up: VR(MS) moves past VR(X).      *)
LEMMA ReorderingStep ==
    ASSUME NEW a, NEW ms, NEW h, NEW lo, NEW k, Good(a, ms, h, lo, k), ExpireReorderingTimer
    PROVE  IInv'
<1>1. /\ UNCHANGED <<accepted, built, vtA, txed, retx, pollSn, pollTimer, justExpired, bsrTimer>>
      /\ UNCHANGED <<rxon, vrR, vrH, prohibit, told, delivered, air, statuses>>
      /\ reordering /\ requested' = TRUE
      /\ vrMs' = FirstMissing(rxon, vrX)
      /\ reordering' = (Rel(vrH, vrR) > Rel(vrMs', vrR))
      /\ vrX' = IF reordering' THEN vrH ELSE vrX
  BY DEF ExpireReorderingTimer, StartsAgain, sender
<1>2. /\ TypeOK /\ Receiver(ms, h) /\ Links(a) /\ Transmitter(a)
      /\ a \in Nat \ {0} /\ ms \in Nat /\ h \in Nat /\ built \in Nat /\ h <= built + 1
      /\ Len(delivered) \in Nat
  BY GoodFacts, Types
<1>3. PICK r : r = Len(delivered) + 1
  OBVIOUS
<1>4. /\ r \in Nat \ {0} /\ vrR = SnOf(r) /\ h <= r + W
      /\ \A n \in r..(r + M - 1) : rxon[SnOf(n)] # 0 => n \in (r + 1)..(h - 1)
  BY <1>3, Slots
<1>5. PICK x \in (r + 1)..h : vrX = SnOf(x)
  BY <1>1, <1>2, <1>3 DEF Receiver
<1>6. x \in Int /\ h \in Int /\ h - x \in 0..(M - 1) /\ rxon[SnOf(h)] = 0
  BY <1>2, <1>4, <1>5, WindowFacts
<1>7. PICK f \in x..h : FirstMissing(rxon, SnOf(x)) = SnOf(f)
  BY <1>6, FirstMissingFacts
<1>8. f \in Nat /\ r < f /\ f \in 1..(built + 1) /\ h \in 1..(built + 1) /\ vrMs' = SnOf(f)
  BY <1>1, <1>2, <1>4, <1>5, <1>7
<1>9. Rel(vrH, vrR) = h - r /\ Rel(vrMs', vrR) = f - r
  <2>1. vrH = SnOf(h)
    BY <1>2 DEF Receiver
  <2>2. h - r \in 0..(M - 1) /\ f - r \in 0..(M - 1)
    BY <1>2, <1>4, <1>5, <1>7, <1>8, WindowFacts
  <2> QED
    BY <1>2, <1>4, <1>8, <2>1, <2>2, SnFacts
<1>10. reordering' = (f < h)
  BY <1>1, <1>2, <1>4, <1>8, <1>9
<1>11. vrX' = IF f < h THEN SnOf(h) ELSE SnOf(x)
  BY <1>1, <1>2, <1>5, <1>10 DEF Receiver
<1>12. TypeOK'
  <2>1. vrMs' \in Sn /\ vrX' \in Sn
    BY <1>2, <1>6, <1>8, <1>11, SnFacts
  <2>2. reordering' \in BOOLEAN
    BY <1>10
  <2> QED
    BY <1>1, <1>2, <2>1, <2>2 DEF TypeOK
<1>13. Receiver(f, h)'
  <2>1. reordering' => \E y \in (Len(delivered)' + 2)..h : vrX' = SnOf(y)
    <3>1. f < h => h \in (Len(delivered)' + 2)..h
      BY <1>1, <1>2, <1>3, <1>4, <1>5, <1>7, <1>8
    <3> QED
      BY <1>10, <1>11, <3>1
  <2>2. f # h => reordering'
    <3>1. f # h => f < h
      BY <1>2, <1>7, <1>8
    <3> QED
      BY <1>10, <3>1
  <2>3. Len(delivered)' < f /\ f <= h /\ h <= built' + 1
    BY <1>1, <1>2, <1>3, <1>7, <1>8
  <2>4. Fits(rxon', Len(delivered)' + 2, h - 1)
    BY <1>1, <1>2 DEF Receiver
  <2>5. delivered' = [i \in 1..Len(delivered)' |-> i] /\ vrR' = SnOf(Len(delivered)' + 1)
        /\ vrMs' = SnOf(f) /\ vrH' = SnOf(h)
    BY <1>1, <1>2, <1>8 DEF Receiver
  <2> QED
    BY <2>1, <2>2, <2>3, <2>4, <2>5 DEF Receiver, Fits, SnOf
<1>14. \A n \in 1..built : Got(n) => Got(n)'
  BY <1>1, GotFrame
<1>15. Len(delivered)' \in Nat /\ Len(delivered) <= Len(delivered)'
       /\ \A i \in DOMAIN air' : air'[i].n <= built
  BY <1>1, <1>2 DEF Links
<1> QED
  BY <1>1, <1>8, <1>12, <1>13, <1>14, <1>15, ReceiverStep

(* A PDU inside the window, in numbers: what the buffer, VR(MS), VR(H),    *)
(* VR(R) and VR(X) become.                                                 *)
LEMMA ArrivesInside ==
    ASSUME NEW a, NEW ms, NEW h, NEW lo, NEW k, Good(a, ms, h, lo, k),
           NEW r, r = Len(delivered) + 1, NEW n \in Sdu, r <= n, n < r + W,
           NEW buffer,
           \A x \in Sn : buffer[x] = IF x = SnOf(n) /\ rxon[x] = 0 THEN n ELSE rxon[x]
    PROVE  \E h2 \in r..(r + W), ms2 \in r..(r + W), r2 \in r..(r + W) :
             /\ \A m \in r..(r + M - 1) :
                   buffer[SnOf(m)] # 0 => buffer[SnOf(m)] = m /\ m \in r..(h2 - 1)
             /\ \A m \in r..(r + M - 1) : rxon[SnOf(m)] = m => buffer[SnOf(m)] = m
             /\ h <= h2 /\ (h2 = h \/ h2 = n + 1)
             /\ SnOf(h2) = IF Rel(SnOf(n), vrR) >= Rel(vrH, vrR) THEN Plus(SnOf(n), 1) ELSE vrH
             /\ FirstMissing(buffer, vrMs) = SnOf(ms2)
             /\ SnOf(r2) = IF SnOf(n) = vrR THEN FirstMissing(buffer, vrR) ELSE vrR
             /\ r2 <= ms2 /\ ms2 <= h2 /\ buffer[SnOf(r2)] = 0
             /\ \A m \in r..(r2 - 1) : buffer[SnOf(m)] = m
<1>1. /\ TypeOK /\ Receiver(ms, h) /\ Links(a) /\ Transmitter(a)
      /\ a \in Nat \ {0} /\ ms \in Nat /\ h \in Nat /\ Len(delivered) \in Nat
      /\ rxon \in [Sn -> 0..MaxSdus] /\ MaxSdus \in Nat
  BY GoodFacts, Types
<1>2. /\ r \in Nat \ {0} /\ vrR = SnOf(r) /\ r <= ms /\ ms <= h /\ h <= r + W
      /\ \A m \in r..(r + M - 1) : rxon[SnOf(m)] # 0 =>
            rxon[SnOf(m)] = m /\ m \in (r + 1)..(h - 1)
      /\ rxon[SnOf(r)] = 0
      /\ \A m \in r..(r + M - 1) : SnOf(m) \in Sn
      /\ \A x, y \in r..(r + M - 1) : SnOf(x) = SnOf(y) => x = y
  BY Slots
<1>3. n \in Nat /\ n # 0 /\ n \in r..(r + M - 1) /\ n <= MaxSdus
  BY <1>1, <1>2, WindowFacts DEF Sdu
<1>4. SnOf(n) \in Sn /\ vrMs = SnOf(ms) /\ vrH = SnOf(h)
  BY <1>1, <1>2, <1>3 DEF Receiver
<1>5. rxon[SnOf(n)] = 0 \/ rxon[SnOf(n)] = n
  BY <1>2, <1>3
<1>6. \A x \in Sn : buffer[x] = IF x = SnOf(n) THEN n ELSE rxon[x]
  BY <1>5
<1>7. PICK h2 : h2 = IF n >= h THEN n + 1 ELSE h
  OBVIOUS
<1>8. h2 \in r..(r + W) /\ h <= h2 /\ n < h2 /\ (h2 = h \/ h2 = n + 1)
  BY <1>1, <1>2, <1>3, <1>7, WindowFacts
<1>9. Rel(SnOf(n), vrR) = n - r /\ Rel(vrH, vrR) = h - r
  <2>1. n - r \in 0..(M - 1) /\ h - r \in 0..(M - 1)
    BY <1>1, <1>2, <1>3, WindowFacts
  <2> QED
    BY <1>1, <1>2, <1>3, <1>4, <2>1, SnFacts
<1>10. SnOf(h2) = IF Rel(SnOf(n), vrR) >= Rel(vrH, vrR) THEN Plus(SnOf(n), 1) ELSE vrH
  <2>1. Plus(SnOf(n), 1) = SnOf(n + 1)
    BY <1>3, SnFacts
  <2>2. (n >= h) <=> (n - r >= h - r)
    BY <1>1, <1>2, <1>3
  <2> QED
    BY <1>4, <1>7, <1>9, <2>1, <2>2
<1>11. ASSUME NEW m \in r..(r + M - 1), buffer[SnOf(m)] # 0
       PROVE  buffer[SnOf(m)] = m /\ m \in r..(h2 - 1)
  <2>1. SnOf(m) \in Sn
    BY <1>2
  <2>2. CASE SnOf(m) = SnOf(n)
    <3>1. m = n
      BY <1>2, <1>3, <2>2
    <3> QED
      BY <1>2, <1>3, <1>6, <1>8, <2>1, <3>1
  <2>3. CASE SnOf(m) # SnOf(n)
    <3>1. buffer[SnOf(m)] = rxon[SnOf(m)]
      BY <1>6, <2>1, <2>3
    <3>2. rxon[SnOf(m)] = m /\ m \in (r + 1)..(h - 1)
      BY <1>2, <1>11, <3>1
    <3> QED
      BY <1>1, <1>2, <1>8, <3>1, <3>2
  <2> QED
    BY <2>2, <2>3
<1>12. ASSUME NEW m \in r..(r + M - 1), rxon[SnOf(m)] = m PROVE buffer[SnOf(m)] = m
  <2>1. SnOf(m) \in Sn
    BY <1>2
  <2>2. SnOf(m) = SnOf(n) => m = n
    BY <1>2, <1>3
  <2> QED
    BY <1>6, <1>12, <2>1, <2>2
<1>13. buffer[SnOf(h2)] = 0
  <2>1. h2 \in r..(r + M - 1) /\ h2 \notin r..(h2 - 1)
    BY <1>2, <1>8, WindowFacts
  <2> QED
    BY <1>11, <2>1
<1>14. PICK ms2 \in ms..h2 : /\ FirstMissing(buffer, SnOf(ms)) = SnOf(ms2)
                             /\ buffer[SnOf(ms2)] = 0
  <2>1. ms \in Int /\ h2 \in Int /\ h2 - ms \in 0..(M - 1)
    BY <1>1, <1>2, <1>8, WindowFacts
  <2> QED
    BY <1>13, <2>1, FirstMissingFacts
<1>15. \E f \in r..h2 : /\ FirstMissing(buffer, SnOf(r)) = SnOf(f)
                       /\ buffer[SnOf(f)] = 0
                       /\ \A m \in r..(f - 1) : buffer[SnOf(m)] # 0
  <2>1. r \in Int /\ h2 \in Int /\ h2 - r \in 0..(M - 1)
    BY <1>2, <1>8, WindowFacts
  <2>2. \A b, e \in Int : e - b \in 0..(M - 1) /\ buffer[SnOf(e)] = 0 =>
           \E f \in b..e : /\ FirstMissing(buffer, SnOf(b)) = SnOf(f)
                          /\ buffer[SnOf(f)] = 0
                          /\ \A m \in b..(f - 1) : buffer[SnOf(m)] # 0
    BY FirstMissingFacts
  <2> QED
    BY <1>13, <2>1, <2>2
<1>16. \E r2 \in r..h2 :
          /\ SnOf(r2) = IF SnOf(n) = vrR THEN FirstMissing(buffer, vrR) ELSE vrR
          /\ buffer[SnOf(r2)] = 0
          /\ \A m \in r..(r2 - 1) : buffer[SnOf(m)] # 0
  <2>1. CASE SnOf(n) = vrR
    <3> QED
      BY <1>2, <1>15, <2>1
  <2>2. CASE SnOf(n) # vrR
    <3>1. r \in r..(r + M - 1) /\ r \in r..h2
      BY <1>2, <1>8, WindowFacts
    <3>2. buffer[SnOf(r)] = 0
      BY <1>2, <1>6, <2>2, <3>1
    <3>3. \A m \in r..(r - 1) : FALSE
      BY <1>2
    <3> QED
      BY <1>2, <2>2, <3>1, <3>2, <3>3
  <2> QED
    BY <2>1, <2>2
<1>17. PICK r2 \in r..h2 : /\ SnOf(r2) = IF SnOf(n) = vrR THEN FirstMissing(buffer, vrR) ELSE vrR
                           /\ buffer[SnOf(r2)] = 0
                           /\ \A m \in r..(r2 - 1) : buffer[SnOf(m)] # 0
  BY <1>16
<1>18. r2 <= ms2
  <2>1. ms2 \notin r..(r2 - 1)
    BY <1>14, <1>17
  <2> QED
    BY <1>1, <1>2, <1>8, <2>1
<1>19. ms2 \in r..(r + W) /\ r2 \in r..(r + W) /\ ms2 <= h2
  BY <1>1, <1>2, <1>8, WindowFacts
<1>20. \A m \in r..(r2 - 1) : buffer[SnOf(m)] = m
  <2>1. \A m \in r..(r2 - 1) : m \in r..(r + M - 1)
    BY <1>2, <1>19, WindowFacts
  <2> QED
    BY <1>11, <1>17, <2>1
<1> QED
  BY <1>4, <1>6, <1>8, <1>10, <1>11, <1>12, <1>14, <1>17, <1>18, <1>19, <1>20

(* The PDU taken off the link, and the numbers it may have: a window on    *)
(* either side of VR(R).                                                   *)
LEMMA TakenOff ==
    ASSUME NEW a, NEW ms, NEW h, NEW lo, NEW k, Good(a, ms, h, lo, k),
           NEW i \in DOMAIN air, ReceiveData(i), NEW r, r = Len(delivered) + 1
    PROVE  /\ UNCHANGED <<accepted, built, vtA, txed, retx, pollSn, pollTimer, justExpired, bsrTimer>>
           /\ UNCHANGED <<prohibit, statuses>>
           /\ requested' \in BOOLEAN /\ told' \in BOOLEAN
           /\ air' \in Seq(DataPdu) /\ \A j \in DOMAIN air' : air'[j].n <= built
           /\ air[i].n \in Sdu /\ air[i].n <= built /\ air[i].n < r + W
           /\ Discards(SnOf(air[i].n)) <=> air[i].n < r
<1>1. /\ UNCHANGED <<accepted, built, vtA, txed, retx, pollSn, pollTimer, justExpired, bsrTimer>>
      /\ UNCHANGED <<prohibit, statuses>>
      /\ requested' = (requested \/ air[i].poll)
      /\ told' = (told \/ (air[i].poll /\ ~prohibit))
      /\ air' = RemoveAt(air, i) /\ Len(delivered) - air[i].n < W
  BY DEF ReceiveData, sender
<1>2. /\ TypeOK /\ Links(a) /\ Transmitter(a) /\ air \in Seq(DataPdu)
      /\ a \in Nat \ {0} /\ built \in Nat /\ built < a + W /\ Len(delivered) \in Nat
  BY GoodFacts, Types
<1>3. /\ air' \in Seq(DataPdu) /\ DOMAIN air' = 1..(Len(air) - 1) /\ DOMAIN air = 1..Len(air)
      /\ Len(air) \in Nat \ {0}
      /\ \A j \in 1..(Len(air) - 1) : air'[j] = IF j < i THEN air[j] ELSE air[j + 1]
  BY <1>1, <1>2, RemoveFacts
<1>4. ASSUME NEW j \in DOMAIN air' PROVE air'[j].n <= built
  <2>1. (j \in DOMAIN air /\ air'[j] = air[j]) \/ (j + 1 \in DOMAIN air /\ air'[j] = air[j + 1])
    BY <1>3
  <2> QED
    BY <1>2, <2>1 DEF Links
<1>5. air[i] \in DataPdu
  BY <1>2, <1>3
<1>6. requested' \in BOOLEAN /\ told' \in BOOLEAN
  <2>1. requested \in BOOLEAN /\ told \in BOOLEAN /\ prohibit \in BOOLEAN
    BY <1>2 DEF TypeOK
  <2>2. air[i].poll \in BOOLEAN
    BY <1>5 DEF DataPdu
  <2> QED
    BY <1>1, <2>1, <2>2
<1>7. PICK n : n = air[i].n
  OBVIOUS
<1>8. n \in Sdu /\ n \in Nat /\ n <= built
  BY <1>2, <1>5, <1>7 DEF DataPdu, Links, Sdu
<1>9. /\ r \in Nat \ {0} /\ vrR = SnOf(r) /\ a <= r /\ n < r + W
      /\ n \in Int /\ r \in Int /\ r - n <= W
  <2>1. r \in Nat \ {0} /\ vrR = SnOf(r) /\ a <= r
    BY <1>2, Slots DEF Links
  <2>2. n < r + W
    BY <1>2, <1>8, <2>1, WindowFacts
  <2>3. r - n <= W
    BY <1>1, <1>2, <1>7, <1>8, WindowFacts
  <2> QED
    BY <1>8, <2>1, <2>2, <2>3
<1>10. Discards(SnOf(n)) <=> n < r
  <2>1. CASE n < r
    <3>1. r - n \in 1..W
      BY <1>8, <1>9, <2>1, WindowFacts
    <3>2. ~(Rel(SnOf(n), SnOf(r)) < W)
      BY <1>9, <3>1, Behind
    <3> QED
      BY <1>9, <2>1, <3>2 DEF Discards, InsideWindow
  <2>2. CASE ~(n < r)
    <3>1. n - r \in 0..(M - 1) /\ n - r < W
      BY <1>8, <1>9, <2>2, WindowFacts
    <3>2. Rel(SnOf(n), SnOf(r)) = n - r
      BY <1>9, <3>1, SnFacts
    <3> QED
      BY <1>9, <2>2, <3>1, <3>2 DEF Discards, InsideWindow
  <2> QED
    BY <2>1, <2>2
<1> QED
  BY <1>1, <1>3, <1>4, <1>6, <1>7, <1>8, <1>9, <1>10

(* Whether t-Reordering still has something to wait for. *)
LEMMA StillRunsFacts ==
    ASSUME NEW x \in Int, NEW r \in Int, NEW r2 \in Int, r < x, x <= r + W, r <= r2, r2 <= r + W,
           vrX = SnOf(x), StillRuns(SnOf(r2))
    PROVE  r2 < x
<1>1. W \in Nat \ {0} /\ M = 2 * W
  BY WindowFacts
<1>2. x # r2 /\ (Rel(SnOf(x), SnOf(r2)) < W \/ SnOf(x) = SnOf(r2 + W))
  <2>1. Plus(SnOf(r2), W) = SnOf(r2 + W)
    BY <1>1, SnFacts
  <2> QED
    BY <2>1 DEF StillRuns, InsideWindow
<1>3. CASE x < r2
  <2>1. r2 - x \in 1..W /\ (r2 + W) - x \in 0..(M - 1) /\ r2 + W # x /\ r2 + W \in Int
    BY <1>1, <1>3
  <2>2. ~(Rel(SnOf(x), SnOf(r2)) < W)
    BY <2>1, Behind
  <2>3. SnOf(x) # SnOf(r2 + W)
    BY <2>1, SnFacts
  <2> QED
    BY <1>2, <2>2, <2>3
<1> QED
  BY <1>2, <1>3

(* A PDU that the window does not admit changes nothing but the links. *)
LEMMA DiscardStep ==
    ASSUME NEW a, NEW ms, NEW h, NEW lo, NEW k, Good(a, ms, h, lo, k),
           NEW i \in DOMAIN air, ReceiveData(i), Discards(SnOf(air[i].n))
    PROVE  IInv' /\ UNCHANGED delivered
<1>1. PICK r : r = Len(delivered) + 1
  OBVIOUS
<1>2. /\ UNCHANGED <<accepted, built, vtA, txed, retx, pollSn, pollTimer, justExpired, bsrTimer>>
      /\ UNCHANGED <<prohibit, statuses>>
      /\ requested' \in BOOLEAN /\ told' \in BOOLEAN
      /\ air' \in Seq(DataPdu) /\ \A j \in DOMAIN air' : air'[j].n <= built
  BY <1>1, TakenOff
<1>3. UNCHANGED <<rxon, vrR, vrX, vrMs, vrH, reordering, delivered>>
  BY DEF ReceiveData
<1>4. /\ TypeOK /\ Receiver(ms, h) /\ built \in Nat /\ h <= built + 1 /\ Len(delivered) \in Nat
      /\ ms \in 1..(built + 1) /\ h \in 1..(built + 1)
  BY GoodFacts, Types
<1>5. TypeOK'
  BY <1>2, <1>3, <1>4 DEF TypeOK
<1>6. h <= built' + 1
  BY <1>2, <1>4
<1>7. Receiver(ms, h)'
  BY <1>3, <1>4, <1>6, ReceiverFrame
<1>8. \A n \in 1..built : Got(n) => Got(n)'
  BY <1>3, GotFrame
<1>9. Len(delivered)' \in Nat /\ Len(delivered) <= Len(delivered)'
  BY <1>3, <1>4
<1> QED
  BY <1>2, <1>3, <1>4, <1>5, <1>7, <1>8, <1>9, ReceiverStep

(* A PDU that the window admits. *)
LEMMA AdmitStep ==
    ASSUME NEW a, NEW ms, NEW h, NEW lo, NEW k, Good(a, ms, h, lo, k),
           NEW i \in DOMAIN air, ReceiveData(i), ~Discards(SnOf(air[i].n))
    PROVE  IInv' /\ Len(delivered) <= Len(delivered)'
<1>1. PICK r : r = Len(delivered) + 1
  OBVIOUS
<1>2. PICK n : n = air[i].n
  OBVIOUS
<1>3. PICK buffer : buffer = [rxon EXCEPT ![SnOf(n)] = IF @ = 0 THEN n ELSE @]
  OBVIOUS
<1>4. PICK hs : hs = IF Rel(SnOf(n), vrR) >= Rel(vrH, vrR) THEN Plus(SnOf(n), 1) ELSE vrH
  OBVIOUS
<1>5. PICK rs : rs = IF SnOf(n) = vrR THEN FirstMissing(buffer, vrR) ELSE vrR
  OBVIOUS
<1>6. PICK gone : gone = {x \in Sn : Rel(x, vrR) < Rel(rs, vrR)}
  OBVIOUS
<1>7. PICK runs : runs = (reordering /\ StillRuns(rs))
  OBVIOUS
<1>8. /\ vrH' = hs /\ vrMs' = FirstMissing(buffer, vrMs) /\ vrR' = rs
      /\ delivered' = delivered \o [j \in 1..Rel(rs, vrR) |-> buffer[Plus(vrR, j - 1)]]
      /\ rxon' = [x \in Sn |-> IF x \in gone THEN 0 ELSE buffer[x]]
      /\ reordering' = (runs \/ Rel(hs, rs) > 0)
      /\ vrX' = IF ~runs /\ Rel(hs, rs) > 0 THEN hs ELSE vrX
  <2> DEFINE sn == SnOf(air[i].n)
             b == [rxon EXCEPT ![sn] = IF @ = 0 THEN air[i].n ELSE @]
             hn == IF Rel(sn, vrR) >= Rel(vrH, vrR) THEN Plus(sn, 1) ELSE vrH
             rn == IF sn = vrR THEN FirstMissing(b, vrR) ELSE vrR
             gn == {x \in Sn : Rel(x, vrR) < Rel(rn, vrR)}
             go == reordering /\ StillRuns(rn)
  <2>1. /\ vrH' = hn /\ vrMs' = FirstMissing(b, vrMs) /\ vrR' = rn
        /\ delivered' = delivered \o [j \in 1..Rel(rn, vrR) |-> b[Plus(vrR, j - 1)]]
        /\ rxon' = [x \in Sn |-> IF x \in gn THEN 0 ELSE b[x]]
        /\ reordering' = (go \/ Rel(hn, rn) > 0)
        /\ vrX' = IF ~go /\ Rel(hn, rn) > 0 THEN hn ELSE vrX
    BY DEF ReceiveData
  <2>2. sn = SnOf(n)
    BY <1>2
  <2>3. b = buffer
    BY <1>2, <1>3, <2>2
  <2> HIDE DEF b
  <2>4. hn = hs
    BY <1>4, <2>2
  <2>5. rn = rs
    BY <1>5, <2>2, <2>3
  <2> HIDE DEF sn, hn, rn
  <2>6. gn = gone
    BY <1>6, <2>5
  <2>7. go = runs
    BY <1>7, <2>5
  <2> HIDE DEF gn, go
  <2> QED
    BY <2>1, <2>3, <2>4, <2>5, <2>6, <2>7
<1>9. /\ UNCHANGED <<accepted, built, vtA, txed, retx, pollSn, pollTimer, justExpired, bsrTimer>>
      /\ UNCHANGED <<prohibit, statuses>>
      /\ requested' \in BOOLEAN /\ told' \in BOOLEAN
      /\ air' \in Seq(DataPdu) /\ \A j \in DOMAIN air' : air'[j].n <= built
      /\ n \in Sdu /\ n <= built /\ r <= n /\ n < r + W
  <2>1. n \in Sdu => n \in Int
    BY DEF Sdu
  <2>2. r \in Int
    BY <1>1, Slots
  <2> QED
    BY <1>1, <1>2, <2>1, <2>2, TakenOff
<1>10. /\ TypeOK /\ Receiver(ms, h) /\ Links(a) /\ built \in Nat /\ h <= built + 1
       /\ ms \in Nat /\ h \in Nat /\ Len(delivered) \in Nat /\ delivered \in Seq(Sdu)
       /\ rxon \in [Sn -> 0..MaxSdus] /\ MaxSdus \in Nat /\ built <= MaxSdus
  BY GoodFacts, Types
<1>11. /\ r \in Nat \ {0} /\ vrR = SnOf(r) /\ h <= r + W /\ r <= ms /\ ms <= h
       /\ \A m \in r..(r + M - 1) : SnOf(m) \in Sn
       /\ \A x, y \in r..(r + M - 1) : SnOf(x) = SnOf(y) => x = y
  BY <1>1, Slots
<1>12. /\ n \in Nat \ {0} /\ n <= MaxSdus /\ SnOf(n) \in Sn
  BY <1>9, <1>10, SnFacts DEF Sdu
<1>13. /\ buffer \in [Sn -> 0..MaxSdus]
       /\ \A x \in Sn : buffer[x] = IF x = SnOf(n) /\ rxon[x] = 0 THEN n ELSE rxon[x]
  BY <1>3, <1>10, <1>12
<1>14. PICK h2 \in r..(r + W), ms2 \in r..(r + W), r2 \in r..(r + W) :
             /\ \A m \in r..(r + M - 1) :
                   buffer[SnOf(m)] # 0 => buffer[SnOf(m)] = m /\ m \in r..(h2 - 1)
             /\ \A m \in r..(r + M - 1) : rxon[SnOf(m)] = m => buffer[SnOf(m)] = m
             /\ h <= h2 /\ (h2 = h \/ h2 = n + 1)
             /\ hs = SnOf(h2) /\ FirstMissing(buffer, vrMs) = SnOf(ms2) /\ rs = SnOf(r2)
             /\ r2 <= ms2 /\ ms2 <= h2 /\ buffer[SnOf(r2)] = 0
             /\ \A m \in r..(r2 - 1) : buffer[SnOf(m)] = m
  BY <1>1, <1>4, <1>5, <1>9, <1>13, ArrivesInside
<1>15. /\ W \in Nat \ {0} /\ M = 2 * W
       /\ h2 \in Int /\ ms2 \in Int /\ r2 \in Int /\ r2 - r \in 0..(M - 1) /\ h2 - r2 \in 0..(M - 1)
       /\ r <= r2 /\ r2 <= r + W /\ r2 <= h2 /\ h <= h2
       /\ h2 <= built + 1
  <2>1. /\ h2 \in r..(r + W) /\ ms2 \in r..(r + W) /\ r2 \in r..(r + W)
        /\ h <= h2 /\ (h2 = h \/ h2 = n + 1) /\ r2 <= ms2 /\ ms2 <= h2
    BY <1>14
  <2>2. built \in Nat /\ n <= built /\ h <= built + 1 /\ r \in Nat /\ n \in Nat
    BY <1>9, <1>10, <1>11, <1>12
  <2> QED
    BY <2>1, <2>2, WindowFacts
<1>16. Rel(rs, vrR) = r2 - r /\ Rel(hs, rs) = h2 - r2
  BY <1>11, <1>14, <1>15, SnFacts
<1>17. /\ \A m \in r..(r + M - 1) : SnOf(m) \in gone <=> m < r2
       /\ gone = {x \in Sn : Rel(x, SnOf(r)) < r2 - r}
  <2>1. gone = {x \in Sn : Rel(x, SnOf(r)) < r2 - r}
    BY <1>6, <1>11, <1>16
  <2>2. r \in Int
    BY <1>11
  <2> QED
    BY <1>15, <2>1, <2>2, SegmentFacts
<1>18. /\ delivered' = [j \in 1..(r2 - 1) |-> j] /\ Len(delivered)' = r2 - 1
       /\ delivered' \in Seq(Sdu) /\ Len(delivered)' \in Nat /\ Len(delivered) <= Len(delivered)'
  <2>1. PICK more : more = [j \in 1..(r2 - r) |-> r + j - 1]
    OBVIOUS
  <2>2. [j \in 1..(r2 - r) |-> buffer[Plus(vrR, j - 1)]] = more
    <3>1. ASSUME NEW j \in 1..(r2 - r) PROVE buffer[Plus(vrR, j - 1)] = r + j - 1
      <4>1. r + (j - 1) \in r..(r2 - 1) /\ r \in Int /\ j - 1 \in Int
            /\ r + (j - 1) = r + j - 1
        BY <1>11, <1>15
      <4>2. Plus(SnOf(r), j - 1) = SnOf(r + (j - 1))
        BY <4>1, SnFacts
      <4> QED
        BY <1>11, <1>14, <4>1, <4>2
    <3> QED
      BY <2>1, <3>1
  <2>3. delivered' = delivered \o more
    BY <1>8, <1>16, <2>2
  <2>4. \A j \in 1..(r2 - r) : r + j - 1 \in Sdu
    <3>1. r2 - 1 <= MaxSdus /\ r2 \in Int /\ MaxSdus \in Nat /\ r \in Nat \ {0}
      <4>1. built \in Nat /\ built <= MaxSdus /\ MaxSdus \in Nat /\ r \in Nat \ {0}
        BY <1>10, <1>11
      <4>2. r2 \in Int /\ h2 \in Int /\ r2 <= h2 /\ h2 <= built + 1
        BY <1>15
      <4> QED
        BY <4>1, <4>2
    <3>2. \A j \in 1..(r2 - r) : r + j - 1 \in 1..MaxSdus
      BY <3>1
    <3> QED
      BY <3>2 DEF Sdu
  <2>5. r2 - r \in Nat
    BY <1>15
  <2>6. more \in Seq(Sdu) /\ Len(more) = r2 - r
    <3>1. more \in [1..(r2 - r) -> Sdu]
      BY <2>1, <2>4
    <3> QED
      BY <2>5, <3>1, SeqDef, LenProperties
  <2>7. delivered' \in Seq(Sdu) /\ Len(delivered') = Len(delivered) + (r2 - r)
        /\ \A j \in 1..Len(delivered') :
              delivered'[j] = IF j <= Len(delivered) THEN delivered[j] ELSE more[j - Len(delivered)]
    <3>1. PICK d : d = delivered
      OBVIOUS
    <3>2. d \in Seq(Sdu) /\ more \in Seq(Sdu) /\ Len(d) \in Nat
      BY <1>10, <2>6, <3>1
    <3>3. /\ d \o more \in Seq(Sdu) /\ Len(d \o more) = Len(d) + Len(more)
          /\ \A j \in 1..Len(d \o more) :
                (d \o more)[j] = IF j <= Len(d) THEN d[j] ELSE more[j - Len(d)]
      BY ONLY <3>2, ConcatProperties
    <3> QED
      BY <2>3, <2>6, <3>1, <3>3
  <2>8. Len(delivered') = r2 - 1
    BY <1>1, <1>10, <1>11, <1>15, <2>7
  <2>9. ASSUME NEW j \in 1..(r2 - 1) PROVE delivered'[j] = j
    <3>1. CASE j <= Len(delivered)
      <4>1. delivered[j] = j
        BY <1>10, <3>1 DEF Receiver
      <4> QED
        BY <2>7, <2>8, <3>1, <4>1
    <3>2. CASE ~(j <= Len(delivered))
      <4>1. j - Len(delivered) \in 1..(r2 - r) /\ r + (j - Len(delivered)) - 1 = j
        <5>1. r = Len(delivered) + 1 /\ Len(delivered) \in Nat /\ r2 \in Int
          BY <1>1, <1>10, <1>15
        <5> QED
          BY <3>2, <5>1
      <4> QED
        BY <2>1, <2>7, <2>8, <3>2, <4>1
    <3> QED
      BY <3>1, <3>2
  <2>10. DOMAIN delivered' = 1..(r2 - 1)
    BY <2>7, <2>8, LenProperties
  <2>11. delivered' = [j \in DOMAIN delivered' |-> delivered'[j]]
    BY <2>7, <2>8, SeqDef
  <2>12. delivered' = [j \in 1..(r2 - 1) |-> j]
    BY <2>9, <2>10, <2>11
  <2>13. r2 - 1 \in Nat /\ Len(delivered) <= r2 - 1
    BY <1>1, <1>10, <1>11, <1>15
  <2> QED
    BY <2>7, <2>8, <2>12, <2>13
<1>19. \A x \in Sn : rxon'[x] = IF x \in gone THEN 0 ELSE buffer[x]
  BY <1>8
<1>20. ASSUME NEW x \in Sn, rxon'[x] # 0
       PROVE  rxon'[x] \in (r2 + 1)..(h2 - 1) /\ SnOf(rxon'[x]) = x
  <2>1. x \notin gone /\ rxon'[x] = buffer[x] /\ buffer[x] # 0
    BY <1>19, <1>20
  <2>2. PICK m \in r..(r + M - 1) : SnOf(m) = x
    BY <1>11, SnExists
  <2>3. buffer[SnOf(m)] = m /\ m \in r..(h2 - 1) /\ ~(m < r2)
    BY <1>14, <1>17, <2>1, <2>2
  <2>4. m # r2
    BY <1>14, <2>1, <2>2
  <2> QED
    BY <1>11, <1>15, <2>1, <2>2, <2>3, <2>4
<1>21. ASSUME NEW m \in 1..built, Got(m) PROVE Got(m)'
  <2>1. CASE m < r2
    <3>1. m <= Len(delivered)'
      BY <1>10, <1>15, <1>18, <2>1
    <3> QED
      BY <3>1 DEF Got
  <2>2. CASE ~(m < r2)
    <3>1. m \in r..(r + M - 1) /\ rxon[SnOf(m)] = m
      <4>1. ~(m <= Len(delivered))
        BY <1>1, <1>10, <1>11, <1>14, <1>15, <2>2
      <4>2. rxon[SnOf(m)] = m /\ SnOf(m) \in Sn /\ m # 0
        BY <1>21, <4>1, SnFacts DEF Got
      <4>3. m \in (Len(delivered) + 2)..(h - 1)
        BY <1>10, <4>2 DEF Receiver, Fits
      <4> QED
        BY <1>1, <1>10, <1>11, <1>15, <4>2, <4>3
    <3>2. buffer[SnOf(m)] = m /\ SnOf(m) \notin gone /\ SnOf(m) \in Sn
      BY <1>11, <1>14, <1>17, <2>2, <3>1
    <3>3. rxon'[SnOf(m)] = m
      BY <1>19, <3>2
    <3> QED
      BY <3>3 DEF Got, SnOf
  <2> QED
    BY <2>1, <2>2
<1>22. reordering' = (runs \/ r2 < h2) /\ vrX' = IF ~runs /\ r2 < h2 THEN SnOf(h2) ELSE vrX
  <2>1. (Rel(hs, rs) > 0) <=> (r2 < h2)
    BY <1>15, <1>16
  <2> QED
    BY <1>8, <1>14, <2>1
<1>23. ASSUME runs PROVE \E x \in (r2 + 1)..h2 : vrX = SnOf(x)
  <2>1. reordering /\ StillRuns(SnOf(r2))
    BY <1>7, <1>14, <1>23
  <2>2. PICK x \in (Len(delivered) + 2)..h : vrX = SnOf(x)
    BY <1>10, <2>1 DEF Receiver
  <2>3. x \in Int /\ r \in Int /\ r < x /\ x <= r + W /\ r <= r2 /\ r2 <= r + W
    <3>1. r = Len(delivered) + 1 /\ Len(delivered) \in Nat /\ h \in Nat /\ h <= r + W
      BY <1>1, <1>10, <1>11
    <3>2. W \in Nat /\ r2 \in Int /\ r <= r2 /\ r2 <= r + W
      BY <1>15
    <3> QED
      BY <2>2, <3>1, <3>2
  <2>4. r2 < x
    BY <1>15, <2>1, <2>2, <2>3, StillRunsFacts
  <2>5. x \in (r2 + 1)..h2
    <3>1. x <= h /\ h <= h2
      BY <1>10, <1>14, <2>2
    <3> QED
      BY <1>10, <1>15, <2>3, <2>4, <3>1
  <2> QED
    BY <2>2, <2>5
<1>24. reordering' => \E x \in (r2 + 1)..h2 : vrX' = SnOf(x)
  <2>1. CASE runs
    BY <1>22, <1>23, <2>1
  <2>2. CASE ~runs
    <3>1. r2 < h2 => h2 \in (r2 + 1)..h2
      BY <1>15
    <3> QED
      BY <1>22, <2>2, <3>1
  <2> QED
    BY <2>1, <2>2
<1>25. Receiver(ms2, h2)'
  <2>1. vrR' = SnOf(Len(delivered)' + 1) /\ vrMs' = SnOf(ms2) /\ vrH' = SnOf(h2)
    <3>1. (r2 - 1) + 1 = r2
      BY <1>15
    <3> QED
      BY <1>8, <1>14, <1>18, <3>1
  <2>2. Len(delivered)' < ms2 /\ ms2 <= h2 /\ h2 <= built' + 1
    <3>1. r2 - 1 < ms2
      BY <1>14, <1>15
    <3> QED
      BY <1>9, <1>14, <1>15, <1>18, <3>1
  <2>3. Len(delivered)' + 2 = r2 + 1
    <3>1. (r2 - 1) + 2 = r2 + 1
      BY <1>15
    <3> QED
      BY <1>18, <3>1
  <2>4. Fits(rxon', Len(delivered)' + 2, h2 - 1)
    BY <1>20, <2>3 DEF Fits
  <2>5. reordering' => \E x \in (Len(delivered)' + 2)..h2 : vrX' = SnOf(x)
    BY <1>24, <2>3
  <2>6. ms2 # h2 => reordering'
    <3>1. ms2 # h2 => r2 < h2
      BY <1>14, <1>15
    <3> QED
      BY <1>22, <3>1
  <2>7. delivered' = [j \in 1..Len(delivered)' |-> j]
    BY <1>18
  <2> QED
    BY <2>1, <2>2, <2>4, <2>5, <2>6, <2>7 DEF Receiver, Fits, SnOf
<1>26. TypeOK'
  <2>1. rxon' \in [Sn -> 0..MaxSdus]
    BY <1>8, <1>10, <1>13
  <2>2. vrR' \in Sn /\ vrMs' \in Sn /\ vrH' \in Sn /\ vrX' \in Sn
    <3>1. SnOf(r2) \in Sn /\ SnOf(h2) \in Sn /\ SnOf(ms2) \in Sn /\ vrX \in Sn
      BY <1>10, <1>15, SnFacts DEF TypeOK
    <3>2. vrX' \in Sn
      BY <1>22, <3>1
    <3> QED
      BY <1>8, <1>14, <3>1, <3>2
  <2>3. reordering' \in BOOLEAN
    BY <1>22
  <2> QED
    BY <1>9, <1>10, <1>18, <2>1, <2>2, <2>3 DEF TypeOK
<1>27. ms2 \in 1..(built + 1) /\ h2 \in 1..(built + 1)
  BY <1>10, <1>11, <1>14, <1>15
<1> QED
  BY <1>9, <1>18, <1>21, <1>25, <1>26, <1>27, ReceiverStep

-----------------------------------------------------------------------------
LEMMA InitStands == Init => IInv
<1> SUFFICES ASSUME Init PROVE IInv
  OBVIOUS
<1>1. /\ accepted = 0 /\ built = 0 /\ vtA = 0
      /\ txed = [sn \in Sn |-> 0] /\ retx = [sn \in Sn |-> 0]
      /\ pollSn = 0 /\ pollTimer = FALSE /\ justExpired = FALSE /\ bsrTimer = FALSE
      /\ rxon = [sn \in Sn |-> 0]
      /\ vrR = 0 /\ vrX = 0 /\ vrMs = 0 /\ vrH = 0
      /\ reordering = FALSE /\ requested = FALSE /\ prohibit = FALSE /\ told = FALSE
      /\ delivered = <<>> /\ air = <<>> /\ statuses = <<>>
  BY DEF Init
<1>2. W \in Nat \ {0} /\ M \in Nat \ {0} /\ MaxSdus \in Nat /\ 0 \in Sn /\ SnOf(1) = 0
  <2>1. 0 \in 0..(M - 1) /\ W \in Nat \ {0} /\ M \in Nat \ {0} /\ Sn = 0..(M - 1)
    BY WindowFacts
  <2>2. 0 % M = 0
    BY <2>1, SmallMod
  <2> QED
    BY <2>1, <2>2, LinkAssumption DEF SnOf
<1>3. /\ \A sn \in Sn : txed[sn] = 0 /\ retx[sn] = 0 /\ rxon[sn] = 0
      /\ txed \in [Sn -> 0..MaxSdus] /\ retx \in [Sn -> 0..MaxSdus] /\ rxon \in [Sn -> 0..MaxSdus]
  BY <1>1, <1>2
<1>4. /\ delivered \in Seq(Sdu) /\ air \in Seq(DataPdu) /\ statuses \in Seq(StatusPdu)
      /\ Len(delivered) = 0 /\ DOMAIN air = {} /\ DOMAIN statuses = {}
      /\ delivered = [i \in 1..0 |-> i]
  <2>1. \A T : <<>> \in Seq(T) /\ Len(<<>>) = 0
    BY EmptySeq
  <2>2. DOMAIN air = {} /\ DOMAIN statuses = {}
    BY <1>1
  <2>3. delivered = [i \in 1..0 |-> i]
    BY <1>1
  <2> QED
    BY <1>1, <2>1, <2>2, <2>3
<1>5. TypeOK
  <2>1. accepted \in 0..MaxSdus /\ built \in 0..accepted
    BY <1>1, <1>2
  <2> QED
    BY <1>1, <1>2, <1>3, <1>4, <2>1 DEF TypeOK
<1>6. Asks
  BY <1>3 DEF Asks, Held
<1>7. Transmitter(1)
  BY <1>1, <1>2, <1>3 DEF Transmitter, Fits
<1>8. Receiver(1, 1)
  BY <1>1, <1>2, <1>3, <1>4 DEF Receiver, Fits
<1>9. Links(1)
  BY <1>1, <1>4 DEF Links
<1>10. PICK none : none = [i \in DOMAIN statuses |-> 1]
  OBVIOUS
<1>11. 1 \in 1..(built + 1) /\ none \in [DOMAIN statuses -> 1..(built + 1)]
  BY <1>1, <1>10
<1>12. Reports(1, none, none)
  BY <1>4 DEF Reports
<1> QED
  BY <1>5, <1>6, <1>7, <1>8, <1>9, <1>11, <1>12 DEF IInv, Stands

(* A step without a new SDU leaves accepted, and what was delivered stays. *)
LEMMA StepStands ==
    ASSUME InOrder, IInv, [Next]_vars
    PROVE  /\ IInv'
           /\ \/ DoTransmitPdcpPdu
              \/ UNCHANGED accepted /\ UNCHANGED delivered
              \/ UNCHANGED accepted /\ Len(delivered) <= Len(delivered)'
<1>1. PICK a, ms, h, lo, k : Good(a, ms, h, lo, k)
  BY InvIsGood
<1>2. TypeOK
  BY <1>1, GoodFacts
<1>3. CASE DoTransmitPdcpPdu
  BY <1>1, <1>3, AcceptStep
<1>4. CASE Retransmit
  <2>1. UNCHANGED <<accepted, delivered>>
    BY <1>4 DEF Retransmit, receiver
  <2> QED
    BY <1>1, <1>4, <2>1, RetransmitStep
<1>5. CASE SendNew
  <2>1. UNCHANGED <<accepted, delivered>>
    BY <1>5 DEF SendNew, receiver
  <2> QED
    BY <1>1, <1>5, <2>1, SendNewStep
<1>6. CASE ExpirePollRetransmitTimer
  <2>1. UNCHANGED <<accepted, delivered>>
    BY <1>6 DEF ExpirePollRetransmitTimer, receiver
  <2> QED
    BY <1>1, <1>6, <2>1, PollTimerStep
<1>7. CASE ExpireBsrTimer
  <2>1. /\ UNCHANGED <<accepted, built, vtA, txed, retx, pollSn, pollTimer, justExpired>>
        /\ UNCHANGED <<rxon, vrR, vrX, vrMs, vrH, reordering, requested, delivered>>
        /\ UNCHANGED <<air, statuses>>
        /\ bsrTimer' = FALSE /\ prohibit' = prohibit /\ told' = told
    BY <1>7 DEF ExpireBsrTimer, receiver
  <2>2. prohibit' \in BOOLEAN /\ told' \in BOOLEAN
    BY <1>2, <2>1 DEF TypeOK
  <2> QED
    BY <1>1, <2>1, <2>2, BsrStep
<1>8. CASE \E i \in DOMAIN air : ReceiveData(i) \/ LoseData(i)
  <2>1. PICK i \in DOMAIN air : ReceiveData(i) \/ LoseData(i)
    BY <1>8
  <2>2. CASE ReceiveData(i)
    <3>1. UNCHANGED accepted
      BY <2>2 DEF ReceiveData, sender
    <3>2. CASE Discards(SnOf(air[i].n))
      BY <1>1, <2>2, <3>1, <3>2, DiscardStep
    <3>3. CASE ~Discards(SnOf(air[i].n))
      BY <1>1, <2>2, <3>1, <3>3, AdmitStep
    <3> QED
      BY <3>2, <3>3
  <2>3. CASE LoseData(i)
    <3>1. UNCHANGED <<accepted, delivered>>
      BY <2>3 DEF LoseData, sender, receiver
    <3> QED
      BY <1>1, <2>3, <3>1, LoseDataStep
  <2> QED
    BY <2>1, <2>2, <2>3
<1>9. CASE \E i \in DOMAIN statuses : ReceiveStatus(i) \/ LoseStatus(i)
  <2>1. PICK i \in DOMAIN statuses : ReceiveStatus(i) \/ LoseStatus(i)
    BY <1>9
  <2>2. CASE ReceiveStatus(i)
    <3>1. UNCHANGED <<accepted, delivered>>
      BY <2>2 DEF ReceiveStatus, receiver
    <3> QED
      BY <1>1, <2>2, <3>1, ReceiveStatusStep
  <2>3. CASE LoseStatus(i)
    <3>1. UNCHANGED <<accepted, delivered>>
      BY <2>3 DEF LoseStatus, sender, receiver
    <3> QED
      BY <1>1, <2>3, <3>1, LoseStatusStep
  <2> QED
    BY <2>1, <2>2, <2>3
<1>10. CASE \E room \in NackRoom : SendStatus(room)
  <2>1. PICK room \in NackRoom : SendStatus(room)
    BY <1>10
  <2>2. UNCHANGED <<accepted, delivered>>
    BY <2>1 DEF SendStatus, sender
  <2> QED
    BY <1>1, <2>1, <2>2, SendStatusStep
<1>11. CASE ExpireReorderingTimer
  <2>1. UNCHANGED <<accepted, delivered>>
    BY <1>11 DEF ExpireReorderingTimer, sender
  <2> QED
    BY <1>1, <1>11, <2>1, ReorderingStep
<1>12. CASE ExpireStatusProhibitTimer
  <2>1. /\ UNCHANGED <<accepted, built, vtA, txed, retx, pollSn, pollTimer, justExpired>>
        /\ UNCHANGED <<rxon, vrR, vrX, vrMs, vrH, reordering, requested, delivered>>
        /\ UNCHANGED <<air, statuses>>
        /\ bsrTimer' = bsrTimer /\ prohibit' = FALSE /\ told' = told
    BY <1>12 DEF ExpireStatusProhibitTimer, sender
  <2>2. bsrTimer' \in BOOLEAN /\ told' \in BOOLEAN
    BY <1>2, <2>1 DEF TypeOK
  <2> QED
    BY <1>1, <2>1, <2>2, BsrStep
<1>13. CASE UNCHANGED vars
  <2>1. /\ UNCHANGED <<accepted, built, vtA, txed, retx, pollSn, pollTimer, justExpired>>
        /\ UNCHANGED <<rxon, vrR, vrX, vrMs, vrH, reordering, requested, delivered>>
        /\ UNCHANGED <<air, statuses>>
        /\ bsrTimer' = bsrTimer /\ prohibit' = prohibit /\ told' = told
    BY <1>13 DEF vars, sender, receiver
  <2>2. bsrTimer' \in BOOLEAN /\ prohibit' \in BOOLEAN /\ told' \in BOOLEAN
    BY <1>2, <2>1 DEF TypeOK
  <2> QED
    BY <1>1, <2>1, <2>2, BsrStep
<1> QED
  BY <1>3, <1>4, <1>5, <1>6, <1>7, <1>8, <1>9, <1>10, <1>11, <1>12, <1>13 DEF Next

-----------------------------------------------------------------------------
(* The inductive invariant holds of every reachable state: DoReceivePdu,   *)
(* DoNotifyTxOpportunity and the timers keep the numbers of the two        *)
(* entities and of the reports between them consistent, for any window.    *)
THEOREM InvIsInvariant == InOrder => (Spec => []IInv)
<1> SUFFICES ASSUME InOrder PROVE Spec => []IInv
  OBVIOUS
<1>1. Init => IInv
  BY InitStands
<1>2. IInv /\ [Next]_vars => IInv'
  BY StepStands
<1> QED
  BY <1>1, <1>2, PTL DEF Spec

(* TypeOK, OneBuffer, NackedIsHeld, KeepsAsking and GapsWatched: no slot   *)
(* is used for two SDUs, a STATUS PDU asks only for what the transmitter   *)
(* has, and it never waits for an answer it has not asked for.             *)
THEOREM EntitiesStayInStep == InOrder => (Spec => []EntityInv)
<1> SUFFICES ASSUME InOrder PROVE Spec => []EntityInv
  OBVIOUS
<1>1. Spec => []IInv
  BY InvIsInvariant
<1>2. IInv => EntityInv
  BY InvHolds
<1> QED
  BY <1>1, <1>2, PTL

(* DoReceivePdu removes from m_txedBuffer and m_retxBuffer only what the   *)
(* peer has received.                                                      *)
THEOREM NothingIsForgotten == InOrder => (Spec => []HeldUntilReceived)
<1> SUFFICES ASSUME InOrder PROVE Spec => []HeldUntilReceived
  OBVIOUS
<1>1. Spec => []IInv
  BY InvIsInvariant
<1>2. IInv => HeldUntilReceived
  BY InvHolds
<1> QED
  BY <1>1, <1>2, PTL

-----------------------------------------------------------------------------
(* What PDCP has is what the peer accepted, from the first SDU on. *)
InStep ==
    /\ accepted \in Nat /\ Len(delivered) \in Nat /\ Len(delivered) <= accepted
    /\ delivered = [i \in 1..Len(delivered) |-> i]

LEMMA InvInStep == IInv => InStep
<1> SUFFICES ASSUME IInv PROVE InStep
  OBVIOUS
<1>1. PICK a, ms, h, lo, k : Good(a, ms, h, lo, k)
  BY InvIsGood
<1>2. /\ TypeOK /\ Receiver(ms, h) /\ ms \in Nat /\ h \in Nat /\ built \in Nat /\ h <= built + 1
      /\ accepted \in Nat /\ built <= accepted /\ Len(delivered) \in Nat
  BY <1>1, GoodFacts, Types
<1>3. /\ Len(delivered) < ms /\ ms <= h
      /\ delivered = [i \in 1..Len(delivered) |-> i]
  BY <1>2 DEF Receiver
<1> QED
  BY <1>2, <1>3 DEF InStep

LEMMA StepIsService ==
    ASSUME InOrder, IInv, InStep, InStep', [Next]_vars
    PROVE  [Service!Next]_(Service!vars)
<1>1. CASE DoTransmitPdcpPdu
  <2>1. accepted < MaxSdus /\ accepted' = accepted + 1 /\ UNCHANGED delivered
    BY <1>1 DEF DoTransmitPdcpPdu, receiver
  <2> QED
    BY <2>1 DEF Service!Next, Service!Accept
<1>2. CASE UNCHANGED accepted /\ UNCHANGED delivered
  BY <1>2 DEF Service!vars
<1>3. CASE UNCHANGED accepted /\ Len(delivered) <= Len(delivered)'
  <2>0. PICK d : d = Len(delivered)
    OBVIOUS
  <2>1. PICK n : n = Len(delivered)'
    OBVIOUS
  <2>2. /\ accepted \in Nat /\ d \in Nat /\ n \in Nat /\ n <= accepted /\ d <= n
        /\ delivered = [i \in 1..d |-> i] /\ delivered' = [i \in 1..n |-> i]
    <3>1. accepted \in Nat /\ d \in Nat /\ delivered = [i \in 1..d |-> i]
      BY <2>0 DEF InStep
    <3>2. n \in Nat /\ n <= accepted' /\ delivered' = [i \in 1..n |-> i]
      BY <2>1 DEF InStep
    <3>3. d <= n
      BY <1>3, <2>0, <2>1
    <3> QED
      BY <1>3, <3>1, <3>2, <3>3
  <2>3. CASE n = d
    BY <1>3, <2>2, <2>3 DEF Service!vars
  <2>4. CASE n # d
    <3>1. n \in 1..accepted /\ n > d
      BY <2>2, <2>4
    <3> QED
      BY <1>3, <2>0, <2>2, <3>1 DEF Service!Next, Service!Deliver
  <2> QED
    BY <2>3, <2>4
<1> QED
  BY <1>1, <1>2, <1>3, StepStands

(* Whatever is lost, repeated or reordered on the link of the data PDUs,   *)
(* the peer gives its PDCP the SDUs that DoTransmitPdcpPdu accepted, in    *)
(* their order and once each.                                              *)
THEOREM ServiceIsImplemented ==
    InOrder => (Spec => Service!Init /\ [][Service!Next]_(Service!vars))
<1> SUFFICES ASSUME InOrder PROVE Spec => Service!Init /\ [][Service!Next]_(Service!vars)
  OBVIOUS
<1>1. Spec => []IInv
  BY InvIsInvariant
<1>2. IInv => InStep
  BY InvInStep
<1>3. Init => Service!Init
  BY DEF Init, Service!Init
<1>4. IInv /\ InStep /\ InStep' /\ [Next]_vars => [Service!Next]_(Service!vars)
  BY StepIsService
<1> QED
  BY <1>1, <1>2, <1>3, <1>4, PTL DEF Spec
=============================================================================
