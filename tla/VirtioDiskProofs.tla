-------------------------- MODULE VirtioDiskProofs --------------------------
(***************************************************************************)
(* Proofs about VirtioDisk, for any set of threads, any number of          *)
(* descriptors and any wrap-around of the indices that is a multiple of    *)
(* it.                                                                     *)
(***************************************************************************)
EXTENDS VirtioDisk, FiniteSetTheorems, TLAPS

Index == 0 .. IDX - 1

(* What a ring holds between the index m of its reader and the index n of  *)
(* its writer.                                                             *)
Dist(m, n) == IF n >= m THEN n - m ELSE n + IDX - m
At(ring, m, k) == ring[(m + k) % NUM]
Contents(ring, m, n) == {At(ring, m, k) : k \in 0 .. Dist(m, n) - 1}
Distinct(ring, m, n) ==
    \A k, l \in 0 .. Dist(m, n) - 1 : At(ring, m, k) = At(ring, m, l) => k = l

-----------------------------------------------------------------------------
(* Remainders.                                                             *)
LEMMA ModRange ==
    ASSUME NEW m \in Nat \ {0}, NEW a \in Nat
    PROVE  a % m \in 0 .. m - 1
    OBVIOUS

LEMMA ModQuotient ==
    ASSUME NEW m \in Nat \ {0}, NEW a \in Nat
    PROVE  a = m * (a \div m) + (a % m) /\ a \div m \in Nat /\ a % m \in 0 .. m - 1
    OBVIOUS

LEMMA ModUnique ==
    ASSUME NEW m \in Nat \ {0}, NEW k \in Nat, NEW r \in 0 .. m - 1
    PROVE  (m * k + r) % m = r
    OBVIOUS

LEMMA ModShift ==
    ASSUME NEW m \in Nat \ {0}, NEW a \in Nat, NEW u \in Nat, u % m = 0
    PROVE  (a + u) % m = a % m
<1> DEFINE k == a \div m  l == u \div m  r == a % m
<1>1. a = m * k + r /\ u = m * l /\ k \in Nat /\ l \in Nat /\ r \in 0 .. m - 1
    BY ModQuotient
<1>2. k + l \in Nat /\ m * (k + l) = m * k + m * l
    BY <1>1
<1>3. a + u = m * (k + l) + r
    BY <1>1, <1>2
<1>4. (m * (k + l) + r) % m = r
    BY Zenon, <1>1, <1>2, ModUnique
<1>5. QED
    BY Zenon, <1>3, <1>4

(* An index that wraps, at a multiple of NUM, keeps its place in the ring. *)
LEMMA Wrap ==
    ASSUME NEW a \in Nat
    PROVE  (a + IDX) % NUM = a % NUM
<1>1. NUM \in Nat \ {0} /\ IDX \in Nat /\ IDX % NUM = 0
    BY Zenon, SizeAssumption
<1>2. QED
    BY Zenon, <1>1, ModShift

(* Numbers less than NUM apart have different places.                      *)
LEMMA Places ==
    ASSUME NEW a \in Nat, NEW b \in Nat, a < b, b < a + NUM
    PROVE  a % NUM # b % NUM
<1> DEFINE k == a \div NUM  l == b \div NUM  r == a % NUM
<1>n. NUM \in Nat \ {0}
    BY Zenon, SizeAssumption
<1>0. SUFFICES ASSUME a % NUM = b % NUM PROVE FALSE
    BY Zenon
<1>1. a = NUM * k + r /\ k \in Nat /\ r \in 0 .. NUM - 1
    BY Zenon, <1>n, ModQuotient
<1>2. b = NUM * l + r /\ l \in Nat
    BY Zenon, <1>n, <1>0, ModQuotient
<1> HIDE DEF k, l, r
<1>3. CASE l <= k
    <2>1. NUM * l <= NUM * k
        BY <1>n, <1>1, <1>2, <1>3
    <2>2. QED
        BY <2>1, <1>n, <1>1, <1>2
<1>4. CASE l >= k + 1
    <2>1. NUM * l >= NUM * (k + 1)
        BY <1>n, <1>1, <1>2, <1>4
    <2>2. NUM * (k + 1) = NUM * k + NUM
        BY <1>n, <1>1
    <2>3. QED
        BY <2>1, <2>2, <1>n, <1>1, <1>2
<1>5. QED
    BY <1>1, <1>2, <1>3, <1>4

-----------------------------------------------------------------------------
(* The indices of a ring.                                                  *)
LEMMA IncWraps ==
    ASSUME NEW i \in Index
    PROVE  Inc(i) = (IF i = IDX - 1 THEN 0 ELSE i + 1) /\ Inc(i) \in Index
    BY SizeAssumption DEF Inc, Index

LEMMA DistIsNat ==
    ASSUME NEW m \in Index, NEW n \in Index
    PROVE  Dist(m, n) \in Nat /\ Dist(m, n) < IDX /\ (Dist(m, n) = 0 <=> m = n)
    BY SizeAssumption DEF Dist, Index

LEMMA DistAdvance ==
    ASSUME NEW m \in Index, NEW n \in Index, Dist(m, n) < NUM - 1
    PROVE  Dist(m, Inc(n)) = Dist(m, n) + 1
<1>1. NUM <= IDX
    <2>1. NUM \in Nat \ {0} /\ IDX \in Nat \ {0} /\ IDX % NUM = 0
        BY Zenon, SizeAssumption
    <2>2. QED
        BY <2>1
<1>2. QED
    BY <1>1, IncWraps, SizeAssumption DEF Dist, Index

LEMMA DistTake ==
    ASSUME NEW m \in Index, NEW n \in Index, m # n
    PROVE  Dist(Inc(m), n) = Dist(m, n) - 1
    BY IncWraps, SizeAssumption DEF Dist, Index

(* The writer's place is the one after the contents.                       *)
LEMMA WriterPlace ==
    ASSUME NEW m \in Index, NEW n \in Index
    PROVE  n % NUM = (m + Dist(m, n)) % NUM
<1>0. m \in Nat /\ n \in Nat /\ IDX \in Nat
    BY SizeAssumption DEF Index
<1>1. CASE n >= m
    BY <1>0, <1>1 DEF Dist
<1>2. CASE ~(n >= m)
    <2>1. m + Dist(m, n) = n + IDX
        BY <1>0, <1>2 DEF Dist
    <2>2. QED
        BY Zenon, <1>0, <2>1, Wrap
<1>3. QED
    BY Zenon, <1>1, <1>2

(* The other entries stay where they are when the reader moves on.         *)
LEMMA ReaderPlace ==
    ASSUME NEW m \in Index, NEW k \in Nat
    PROVE  (Inc(m) + k) % NUM = (m + (k + 1)) % NUM
<1>0. m \in Nat /\ IDX \in Nat \ {0}
    BY SizeAssumption DEF Index
<1>1. CASE m = IDX - 1
    <2>1. Inc(m) + k = k /\ m + (k + 1) = k + IDX
        BY <1>0, <1>1, IncWraps
    <2>2. QED
        BY Zenon, <2>1, Wrap
<1>2. CASE m # IDX - 1
    <2>1. Inc(m) + k = m + (k + 1)
        BY <1>0, <1>2, IncWraps
    <2>2. QED
        BY Zenon, <2>1
<1>3. QED
    BY Zenon, <1>1, <1>2

LEMMA PlaceInRing ==
    ASSUME NEW m \in Index, NEW k \in Nat
    PROVE  m + k \in Nat /\ (m + k) % NUM \in Desc /\ m % NUM \in Desc
<1>1. m \in Nat /\ m + k \in Nat /\ NUM \in Nat \ {0}
    BY SizeAssumption DEF Index
<1>2. QED
    BY Zenon, <1>1, ModRange DEF Desc

(* The writer fills in the place of its index, which holds no entry.       *)
LEMMA RingWrite ==
    ASSUME NEW ring \in [Desc -> Desc], NEW m \in Index, NEW n \in Index, Dist(m, n) < NUM
    PROVE  \A x \in Desc :
              LET new == [ring EXCEPT ![n % NUM] = x]
              IN  /\ new \in [Desc -> Desc] /\ new[n % NUM] = x
                  /\ Contents(new, m, n) = Contents(ring, m, n)
                  /\ Distinct(ring, m, n) => Distinct(new, m, n)
<1> TAKE x \in Desc
<1> DEFINE new == [ring EXCEPT ![n % NUM] = x]  d == Dist(m, n)
<1>1. d \in Nat /\ n % NUM = (m + d) % NUM /\ n % NUM \in Desc
    BY Zenon, DistIsNat, WriterPlace, PlaceInRing
<1>2. ASSUME NEW k \in 0 .. d - 1 PROVE At(new, m, k) = At(ring, m, k)
    <2>0. m \in Nat /\ NUM \in Nat
        BY SizeAssumption DEF Index
    <2>1. m + k \in Nat /\ m + d \in Nat /\ m + k < m + d /\ m + d < (m + k) + NUM /\ k \in Nat
        BY <1>1, <2>0
    <2>2. (m + k) % NUM # (m + d) % NUM
        BY Zenon, <2>1, Places
    <2>3. (m + k) % NUM \in Desc
        BY Zenon, <2>1, PlaceInRing
    <2>4. QED
        BY Zenon, <1>1, <2>2, <2>3 DEF At
<1>3. new \in [Desc -> Desc] /\ new[n % NUM] = x
    BY Zenon, <1>1
<1> HIDE DEF new, d
<1>4. Contents(new, m, n) = Contents(ring, m, n)
    BY Zenon, <1>2 DEF Contents, d
<1>5. Distinct(ring, m, n) => Distinct(new, m, n)
    BY Zenon, <1>2 DEF Distinct, d
<1>6. QED
    BY Zenon, <1>3, <1>4, <1>5 DEF new

(* The writer advances its index: what it filled in becomes visible.       *)
LEMMA RingAdvance ==
    ASSUME NEW ring \in [Desc -> Desc], NEW m \in Index, NEW n \in Index,
           Dist(m, n) < NUM - 1, Distinct(ring, m, n), ring[n % NUM] \notin Contents(ring, m, n)
    PROVE  /\ Contents(ring, m, Inc(n)) = Contents(ring, m, n) \cup {ring[n % NUM]}
           /\ Distinct(ring, m, Inc(n))
           /\ Dist(m, Inc(n)) < NUM
<1> DEFINE d == Dist(m, n)
<1>1. d \in Nat /\ Dist(m, Inc(n)) = d + 1 /\ ring[n % NUM] = At(ring, m, d)
    BY Zenon, DistIsNat, DistAdvance, WriterPlace DEF At
<1>2. 0 .. (d + 1) - 1 = (0 .. d - 1) \cup {d} /\ d + 1 < NUM
    BY <1>1, SizeAssumption
<1>3. Contents(ring, m, n) = {At(ring, m, k) : k \in 0 .. d - 1}
    BY Zenon DEF Contents
<1>4. Contents(ring, m, Inc(n)) = {At(ring, m, k) : k \in (0 .. d - 1) \cup {d}}
    BY Zenon, <1>1, <1>2 DEF Contents
<1>5. \A k, l \in 0 .. d - 1 : At(ring, m, k) = At(ring, m, l) => k = l
    BY Zenon DEF Distinct
<1> HIDE DEF d
<1>6. \A k, l \in (0 .. d - 1) \cup {d} : At(ring, m, k) = At(ring, m, l) => k = l
    BY Zenon, <1>1, <1>3, <1>5
<1>7. Distinct(ring, m, Inc(n))
    BY Zenon, <1>1, <1>2, <1>6 DEF Distinct
<1>8. Contents(ring, m, Inc(n)) = Contents(ring, m, n) \cup {ring[n % NUM]}
    BY Zenon, <1>1, <1>3, <1>4
<1>9. QED
    BY Zenon, <1>1, <1>2, <1>7, <1>8

(* The reader takes the first entry.                                       *)
LEMMA RingTake ==
    ASSUME NEW ring \in [Desc -> Desc], NEW m \in Index, NEW n \in Index,
           m # n, Dist(m, n) < NUM, Distinct(ring, m, n)
    PROVE  LET new == [ring EXCEPT ![m % NUM] = 0]
           IN  /\ new \in [Desc -> Desc]
               /\ ring[m % NUM] \in Contents(ring, m, n)
               /\ Contents(new, Inc(m), n) = Contents(ring, m, n) \ {ring[m % NUM]}
               /\ Distinct(new, Inc(m), n)
               /\ Dist(Inc(m), n) < NUM
               /\ new[n % NUM] = ring[n % NUM]
<1> DEFINE new == [ring EXCEPT ![m % NUM] = 0]  d == Dist(m, n)
<1>0. NUM \in Nat \ {0} /\ m \in Nat /\ 0 \in Desc
    BY SizeAssumption DEF Desc, Index
<1>1. d \in Nat /\ d # 0 /\ Dist(Inc(m), n) = d - 1 /\ d < NUM
    BY Zenon, DistIsNat, DistTake
<1>2. 0 \in 0 .. d - 1 /\ m + 0 = m /\ d - 1 < NUM
    BY <1>0, <1>1
<1>a. \A k \in 0 .. (d - 1) - 1 : k \in Nat /\ k + 1 \in 0 .. d - 1 /\ k + 1 # 0
    BY <1>1
<1>b. \A k \in 0 .. d - 1 : k # 0 => \E l \in 0 .. (d - 1) - 1 : k = l + 1
    <2>1. ASSUME NEW k \in 0 .. d - 1, k # 0 PROVE k - 1 \in 0 .. (d - 1) - 1 /\ k = (k - 1) + 1
        BY <2>1, <1>1
    <2>2. QED
        BY Zenon, <2>1
<1>c. \A k, l \in 0 .. (d - 1) - 1 : k + 1 = l + 1 => k = l
    BY <1>1
<1>3. ring[m % NUM] = At(ring, m, 0)
    BY Zenon, <1>2 DEF At
<1>4. ASSUME NEW k \in 0 .. (d - 1) - 1 PROVE At(new, Inc(m), k) = At(ring, m, k + 1)
    <2>1. m + (k + 1) \in Nat /\ m < m + (k + 1) /\ m + (k + 1) < m + NUM /\ k \in Nat /\ k + 1 \in Nat
        BY <1>0, <1>1
    <2>2. m % NUM # (m + (k + 1)) % NUM
        BY Zenon, <1>0, <2>1, Places
    <2>3. (m + (k + 1)) % NUM \in Desc
        BY Zenon, <2>1, PlaceInRing
    <2>4. (Inc(m) + k) % NUM = (m + (k + 1)) % NUM
        BY Zenon, <2>1, ReaderPlace
    <2>5. QED
        BY Zenon, <2>2, <2>3, <2>4 DEF At
<1>5. new \in [Desc -> Desc]
    BY Zenon, <1>0
<1>d. new[n % NUM] = ring[n % NUM]
    <2>1. m + d \in Nat /\ m < m + d /\ m + d < m + NUM
        BY <1>0, <1>1
    <2>2. m % NUM # (m + d) % NUM
        BY Zenon, <1>0, <2>1, Places
    <2>3. n % NUM = (m + d) % NUM /\ n % NUM \in Desc
        BY Zenon, WriterPlace, PlaceInRing, <1>1
    <2>4. QED
        BY Zenon, <2>2, <2>3
<1> HIDE DEF new
<1>6. /\ Contents(ring, m, n) = {At(ring, m, k) : k \in 0 .. d - 1}
      /\ \A k, l \in 0 .. d - 1 : At(ring, m, k) = At(ring, m, l) => k = l
    BY Zenon DEF Contents, Distinct
<1>7. Contents(new, Inc(m), n) = {At(new, Inc(m), k) : k \in 0 .. (d - 1) - 1}
    BY Zenon, <1>1 DEF Contents
<1> HIDE DEF d
<1>8. Distinct(new, Inc(m), n)
    <2>1. ASSUME NEW k \in 0 .. (d - 1) - 1, NEW l \in 0 .. (d - 1) - 1, At(new, Inc(m), k) = At(new, Inc(m), l)
          PROVE  k = l
        <3>1. At(ring, m, k + 1) = At(ring, m, l + 1) /\ k + 1 \in 0 .. d - 1 /\ l + 1 \in 0 .. d - 1
            BY Zenon, <2>1, <1>a, <1>4
        <3>2. k + 1 = l + 1
            BY Zenon, <3>1, <1>6
        <3>3. QED
            BY Zenon, <3>2, <1>c
    <2>2. QED
        BY Zenon, <1>1, <2>1 DEF Distinct
<1>9. ASSUME NEW x PROVE x \in Contents(new, Inc(m), n) <=> x \in Contents(ring, m, n) /\ x # At(ring, m, 0)
    <2>1. ASSUME x \in Contents(new, Inc(m), n) PROVE x \in Contents(ring, m, n) /\ x # At(ring, m, 0)
        <3>1. PICK k \in 0 .. (d - 1) - 1 : x = At(new, Inc(m), k)
            BY Zenon, <2>1, <1>7
        <3>2. x = At(ring, m, k + 1) /\ k + 1 \in 0 .. d - 1 /\ k + 1 # 0
            BY Zenon, <3>1, <1>4, <1>a
        <3>3. QED
            BY Zenon, <3>2, <1>2, <1>6
    <2>2. ASSUME x \in Contents(ring, m, n), x # At(ring, m, 0) PROVE x \in Contents(new, Inc(m), n)
        <3>1. PICK k \in 0 .. d - 1 : x = At(ring, m, k)
            BY Zenon, <2>2, <1>6
        <3>2. k # 0
            BY Zenon, <2>2, <3>1
        <3>3. PICK l \in 0 .. (d - 1) - 1 : k = l + 1
            BY Zenon, <3>1, <3>2, <1>b
        <3>4. x = At(new, Inc(m), l)
            BY Zenon, <3>1, <3>3, <1>4
        <3>5. QED
            BY Zenon, <3>4, <1>7
    <2>3. QED
        BY Zenon, <2>1, <2>2
<1>10. Contents(new, Inc(m), n) = Contents(ring, m, n) \ {ring[m % NUM]}
    <2> HIDE <1>4
    <2> QED
        BY SMT, <1>3, <1>9
<1>11. ring[m % NUM] \in Contents(ring, m, n)
    BY Zenon, <1>2, <1>3, <1>6
<1>12. QED
    BY Zenon, <1>1, <1>2, <1>5, <1>d, <1>8, <1>10, <1>11 DEF new

(* Distinct entries are too few to fill the ring when two descriptors are  *)
(* not among them.                                                         *)
LEMMA RingBound ==
    ASSUME NEW ring \in [Desc -> Desc], NEW m \in Index, NEW n \in Index, Distinct(ring, m, n),
           NEW x \in Desc, NEW y \in Desc, x # y,
           x \notin Contents(ring, m, n), y \notin Contents(ring, m, n)
    PROVE  Dist(m, n) < NUM - 1
<1> DEFINE d == Dist(m, n)  f == [k \in 0 .. d - 1 |-> At(ring, m, k)]  T == (Desc \ {x}) \ {y}
<1>1. d \in Nat /\ NUM \in Nat \ {0}
    BY Zenon, DistIsNat, SizeAssumption
<1>2. IsFiniteSet(Desc) /\ Cardinality(Desc) = NUM
    BY <1>1, FS_Interval DEF Desc
<1>3. IsFiniteSet(Desc \ {x}) /\ Cardinality(Desc \ {x}) = NUM - 1 /\ y \in Desc \ {x}
    BY Zenon, <1>2, FS_RemoveElement
<1>4. IsFiniteSet(T) /\ Cardinality(T) = NUM - 1 - 1
    BY Zenon, <1>3, FS_RemoveElement
<1>5. ASSUME NEW k \in 0 .. d - 1 PROVE At(ring, m, k) \in T
    <2>0. k \in Nat
        BY <1>1
    <2>1. At(ring, m, k) \in Desc
        BY Zenon, <2>0, PlaceInRing DEF At
    <2>2. At(ring, m, k) \in Contents(ring, m, n)
        BY Zenon DEF Contents
    <2>3. QED
        BY Zenon, <2>1, <2>2
<1>6. f \in [0 .. d - 1 -> T] /\ \A k, l \in 0 .. d - 1 : f[k] = f[l] => k = l
    BY Zenon, <1>5 DEF Distinct
<1> HIDE DEF f, T
<1>7. f \in Injection(0 .. d - 1, T)
    BY Zenon, <1>6 DEF Injection, IsInjective
<1>8. Cardinality(0 .. d - 1) <= Cardinality(T)
    BY Zenon, <1>4, <1>7, FS_Injection
<1>9. Cardinality(0 .. d - 1) = d
    BY <1>1, FS_Interval
<1>10. QED
    BY <1>1, <1>4, <1>8, <1>9

-----------------------------------------------------------------------------
(* alloc_desc() finds a descriptor that is free.                           *)
LEMMA LowestFree ==
    ASSUME NEW S, free \subseteq Desc, free \ S # {}
    PROVE  Lowest(S) \in free \ S
<1> DEFINE R == OpToRel(<, Nat)  T == free \ S
<1>1. T \subseteq Nat
    <2>1. Desc \subseteq Nat
        BY SizeAssumption DEF Desc
    <2>2. QED
        BY Zenon, <2>1
<1>2. IsWellFoundedOn(R, Nat)
    BY Zenon, NatLessThanWellFounded
<1>3. R = {ss \in Nat \X Nat : ss[1] < ss[2]}
    BY Zenon DEF OpToRel
<1> HIDE DEF R, T
<1>4. T # {}
    BY Zenon DEF T
<1>5. PICK i \in T : \A j \in T : ~(<<j, i>> \in R)
    BY Zenon, <1>1, <1>2, <1>4, WFMin
<1>6. ASSUME NEW j \in T PROVE i <= j
    <2>1. i \in Nat /\ j \in Nat
        BY Zenon, <1>1
    <2>2. ~(j < i)
        <3>1. ~(<<j, i>> \in R) /\ <<j, i>> \in Nat \X Nat /\ <<j, i>>[1] = j /\ <<j, i>>[2] = i
            BY Zenon, <1>5, <2>1
        <3>2. QED
            BY Zenon, <1>3, <3>1
    <2>3. QED
        BY <2>1, <2>2
<1>7. QED
    BY Zenon, <1>6 DEF Lowest, T

-----------------------------------------------------------------------------
(* The inductive invariant.                                                *)
Posted == Contents(avail, taken, availIdx)
Completed == Contents(used, usedIdx, usedEnd)

(* Who has descriptors, what a thread that was in Fill has prepared, and   *)
(* that b->disk is cleared after the device has written the status.        *)
ThreadOK(p) ==
    /\ Busy(p) <=> pc[p] \in {"submit", "sleep_done", "check"}
    /\ pc[p] = "submit" =>
          onDisk[p] = 1 /\ status[head[p]] = 255 /\ avail[availIdx % NUM] = head[p]
    /\ Busy(p) /\ onDisk[p] = 0 => status[head[p]] = 0
ThreadInv == \A p \in Proc : ThreadOK(p)

LockInv == \A p \in Proc : pc[p] = "submit" <=> lock = p

(* The chains are disjoint and partition the descriptors that are in use.  *)
ChainInv ==
    /\ \A p \in Proc : Busy(p) =>
          /\ info[head[p]] = p
          /\ Chain(head[p]) \subseteq Desc \ free
          /\ next[head[p]] # head[p]
          /\ \A q \in Proc \ {p} : Busy(q) => Chain(head[p]) \cap Chain(head[q]) = {}
    /\ \A i \in Desc \ free : \E p \in Proc : Busy(p) /\ i \in Chain(head[p])

(* i is the chain of a thread that waits, with status s.                   *)
Waiting(i, s) ==
    /\ i \in Desc /\ info[i] \in Proc /\ head[info[i]] = i /\ status[i] = s
    /\ onDisk[info[i]] = 1 /\ pc[info[i]] \in {"sleep_done", "check"}

(* A request that is posted, worked on or completed belongs to a thread    *)
(* that waits for it, and is in one place.                                 *)
RingInv ==
    /\ Dist(taken, availIdx) < NUM /\ Distinct(avail, taken, availIdx)
    /\ Dist(usedIdx, usedEnd) < NUM /\ Distinct(used, usedIdx, usedEnd)
    /\ \A i \in Posted : Waiting(i, 255) /\ i \notin working
    /\ \A i \in working : Waiting(i, 255)
    /\ \A i \in Completed : Waiting(i, 0)

DiskInv ==
    /\ TypeOK /\ ThreadInv /\ LockInv /\ ChainInv /\ RingInv
    /\ NoLostCompletion /\ NoLostDescriptors

-----------------------------------------------------------------------------
(* Fill takes three free descriptors.                                      *)
Takes(p, a, b, c) ==
    /\ a # b /\ a # c /\ b # c
    /\ free' = free \ {a, b, c}
    /\ next' = [next EXCEPT ![a] = b, ![b] = c, ![c] = NoDesc]
    /\ status' = [status EXCEPT ![a] = 255]
    /\ info' = [info EXCEPT ![a] = p]
    /\ avail' = [avail EXCEPT ![availIdx % NUM] = a]
    /\ head' = [head EXCEPT ![p] = a]

LEMMA FillTakes ==
    ASSUME TypeOK, NEW p \in Proc, Fill(p)
    PROVE  \E a, b, c \in free : Takes(p, a, b, c)
<1> DEFINE a == Lowest({})  b == Lowest({a})  c == Lowest({a, b})
<1>1. free \subseteq Desc /\ Cardinality(free) >= 3
    BY Zenon DEF TypeOK, Fill
<1>2. IsFiniteSet(Desc)
    BY FS_Interval, SizeAssumption DEF Desc
<1>3. IsFiniteSet(free) /\ Cardinality(free) \in Nat
    BY Zenon, <1>1, <1>2, FS_Subset, FS_CardinalityType
<1>4. free \ {} # {}
    <2>1. free # {}
        BY <1>1, <1>3, FS_EmptySet
    <2>2. QED
        BY Zenon, <2>1
<1>5. a \in free
    BY Zenon, <1>1, <1>4, LowestFree
<1> HIDE DEF a
<1>6. IsFiniteSet(free \ {a}) /\ Cardinality(free \ {a}) = Cardinality(free) - 1
    BY Zenon, <1>3, <1>5, FS_RemoveElement
<1>7. free \ {a} # {}
    BY <1>1, <1>3, <1>6, FS_EmptySet
<1>8. b \in free \ {a}
    BY Zenon, <1>1, <1>7, LowestFree
<1> HIDE DEF b
<1>9. Cardinality((free \ {a}) \ {b}) = Cardinality(free \ {a}) - 1
    BY Zenon, <1>6, <1>8, FS_RemoveElement
<1>10. (free \ {a}) \ {b} # {}
    BY <1>1, <1>3, <1>6, <1>9, FS_EmptySet
<1>11. free \ {a, b} # {}
    BY Zenon, <1>10
<1>12. c \in free \ {a, b}
    BY Zenon, <1>1, <1>11, LowestFree
<1>13. /\ free' = free \ {a, b, c}
       /\ next' = [next EXCEPT ![a] = b, ![b] = c, ![c] = NoDesc]
       /\ status' = [status EXCEPT ![a] = 255]
       /\ info' = [info EXCEPT ![a] = p]
       /\ avail' = [avail EXCEPT ![availIdx % NUM] = a]
       /\ head' = [head EXCEPT ![p] = a]
    BY Zenon DEF Fill, a, b
<1> HIDE DEF c
<1>14. Takes(p, a, b, c)
    BY Zenon, <1>5, <1>8, <1>12, <1>13 DEF Takes
<1>15. QED
    BY Zenon, <1>5, <1>8, <1>12, <1>14

(* Every step keeps the types; the indices wrap.                           *)
LEMMA TypeStep ==
    ASSUME TypeOK, ThreadInv, ChainInv, RingInv, [Next]_vars
    PROVE  TypeOK'
<1>0. CASE UNCHANGED vars
    BY Zenon, <1>0 DEF vars, descVars, ringVars, TypeOK
<1>1. ASSUME NEW p \in Proc, NEW o \in {"read", "write"}, NEW v \in Value, Call(p, o, v) PROVE TypeOK'
    BY Zenon, <1>1 DEF Call, Go, descVars, ringVars, TypeOK
<1>2. ASSUME NEW p \in Proc, Fill(p) PROVE TypeOK'
    <2>1. PICK a \in free, b \in free, c \in free : Takes(p, a, b, c)
        BY Zenon, <1>2, FillTakes
    <2>2. a \in Desc /\ b \in Desc /\ c \in Desc /\ free' \subseteq Desc
        BY Zenon, <2>1 DEF TypeOK, Takes
    <2>3. /\ next' \in [Desc -> Desc \cup {NoDesc}]
          /\ status' \in [Desc -> {0, 255}] /\ info' \in [Desc -> Proc \cup {NoProc}]
        BY Zenon, <2>1, <2>2 DEF TypeOK, Takes
    <2>4. avail' \in [Desc -> Desc] /\ head' \in [Proc -> Desc \cup {NoDesc}]
        BY Zenon, <2>1, <2>2 DEF TypeOK, Takes
    <2>5. pc' \in [Proc -> {"idle", "alloc", "sleep_free", "submit", "sleep_done", "check"}]
        BY Zenon, <1>2 DEF TypeOK, Fill, Go
    <2>6. onDisk' \in [Proc -> 0 .. 1]
        BY <1>2 DEF TypeOK, Fill
    <2>7. /\ lock' = p
          /\ UNCHANGED <<disk, data, availIdx, used, usedEnd, usedIdx, taken, working, irq, op>>
        BY Zenon, <1>2 DEF Fill
    <2>8. QED
        BY Zenon, <2>2, <2>3, <2>4, <2>5, <2>6, <2>7 DEF TypeOK
<1>3. ASSUME NEW p \in Proc, AllocFails(p) PROVE TypeOK'
    BY Zenon, <1>3 DEF AllocFails, WakeFree, descVars, ringVars, TypeOK
<1>4. ASSUME NEW p \in Proc, Submit(p) PROVE TypeOK'
    <2>1. Inc(availIdx) \in 0 .. IDX - 1
        BY Zenon, IncWraps DEF TypeOK, Index
    <2>2. QED
        BY Zenon, <1>4, <2>1 DEF Submit, Go, descVars, TypeOK
<1>5. ASSUME NEW p \in Proc, SleepAgain(p) PROVE TypeOK'
    BY Zenon, <1>5 DEF SleepAgain, Go, descVars, ringVars, TypeOK
<1>6. ASSUME NEW p \in Proc, Finish(p) PROVE TypeOK'
    <2>0. pc[p] = "check" /\ Busy(p)
        BY Zenon, <1>6 DEF ThreadInv, ThreadOK, Finish
    <2>1. Chain(head[p]) \subseteq Desc
        BY Zenon, <2>0 DEF ChainInv
    <2>2. free' \subseteq Desc /\ next' \in [Desc -> Desc \cup {NoDesc}]
        BY Zenon, <1>6, <2>1 DEF TypeOK, Finish
    <2>3. info' \in [Desc -> Proc \cup {NoProc}] /\ head' \in [Proc -> Desc \cup {NoDesc}]
        BY Zenon, <1>6 DEF TypeOK, Finish
    <2>4. pc' \in [Proc -> {"idle", "alloc", "sleep_free", "submit", "sleep_done", "check"}]
        BY Zenon, <1>6 DEF TypeOK, Finish, WakeFree
    <2>5. op' \in [Proc -> {"read", "write"}]
        BY Zenon, <1>6 DEF TypeOK, Finish
    <2>6. UNCHANGED <<disk, data, status, ringVars, irq, lock, onDisk>>
        BY Zenon, <1>6 DEF Finish
    <2>7. QED
        BY Zenon, <2>2, <2>3, <2>4, <2>5, <2>6 DEF TypeOK, ringVars
<1>7. ASSUME NEW p \in Proc, Kill(p) PROVE TypeOK'
    BY Zenon, <1>7 DEF Kill, Go, descVars, ringVars, TypeOK
<1>8. CASE IntrAck
    BY <1>8 DEF IntrAck, descVars, ringVars, TypeOK
<1>9. CASE IntrEntry
    <2>1. usedIdx \in Index /\ usedEnd \in Index /\ used \in [Desc -> Desc]
        BY Zenon DEF TypeOK, Index
    <2>2. Inc(usedIdx) \in 0 .. IDX - 1 /\ used' \in [Desc -> Desc]
        BY Zenon, <1>9, <2>1, IncWraps, RingTake DEF Index, RingInv, IntrEntry
    <2>3. PICK b \in {info[used[usedIdx % NUM]]} :
                   /\ onDisk' = [onDisk EXCEPT ![b] = 0]
                   /\ pc' = [q \in Proc |-> IF q = b /\ pc[q] = "sleep_done" THEN "check" ELSE pc[q]]
        BY Zenon, <1>9 DEF IntrEntry
    <2>4. onDisk' \in [Proc -> 0 .. 1]
        <3>1. 0 \in 0 .. 1
            OBVIOUS
        <3>2. QED
            BY Zenon, <2>3, <3>1 DEF TypeOK
    <2>5. pc' \in [Proc -> {"idle", "alloc", "sleep_free", "submit", "sleep_done", "check"}]
        BY Zenon, <2>3 DEF TypeOK
    <2>6. usedIdx' = Inc(usedIdx) /\ UNCHANGED <<disk, data, descVars, status, avail, availIdx, usedEnd,
                                                 taken, working, irq, lock, op, head>>
        BY Zenon, <1>9 DEF IntrEntry
    <2>7. QED
        BY Zenon, <2>2, <2>4, <2>5, <2>6 DEF TypeOK, descVars
<1>10. CASE IntrReturn
    BY Zenon, <1>10 DEF IntrReturn, descVars, ringVars, TypeOK
<1>11. CASE DeviceTake
    <2>1. taken \in Index /\ availIdx \in Index /\ avail \in [Desc -> Desc]
        BY Zenon DEF TypeOK, Index
    <2>2. /\ Inc(taken) \in 0 .. IDX - 1 /\ avail' \in [Desc -> Desc]
          /\ avail[taken % NUM] \in Posted
        BY Zenon, <1>11, <2>1, IncWraps, RingTake DEF Index, RingInv, DeviceTake, Posted
    <2>3. avail[taken % NUM] \in Desc
        BY Zenon, <2>2 DEF RingInv, Waiting
    <2>a. working' = working \cup {avail[taken % NUM]} /\ taken' = Inc(taken) /\ working \subseteq Desc
        BY Zenon, <1>11 DEF DeviceTake, TypeOK
    <2>4. working' \subseteq Desc /\ taken' \in 0 .. IDX - 1
        BY Zenon, <2>a, <2>2, <2>3
    <2>5. UNCHANGED <<disk, data, descVars, status, availIdx, used, usedEnd, usedIdx, irq, lock, pc, op, head, onDisk>>
        BY Zenon, <1>11 DEF DeviceTake
    <2>6. QED
        BY Zenon, <2>2, <2>4, <2>5 DEF descVars, TypeOK
<1>12. ASSUME NEW i \in Desc, DeviceFinish(i) PROVE TypeOK'
    <2>1. usedEnd \in Index /\ used \in [Desc -> Desc]
        BY Zenon DEF TypeOK, Index
    <2>2. Inc(usedEnd) \in 0 .. IDX - 1 /\ used' \in [Desc -> Desc]
        BY Zenon, <1>12, <2>1, IncWraps DEF Index, DeviceFinish
    <2>3. info[i] \in Proc
        BY Zenon, <1>12 DEF DeviceFinish, RingInv, Waiting
    <2>4. data' \in [Proc -> Value] /\ disk' \in [Proc -> Value]
        <3>1. \/ data' = [data EXCEPT ![info[i]] = disk[info[i]]] /\ disk' = disk
              \/ disk' = [disk EXCEPT ![info[i]] = data[info[i]]] /\ data' = data
            BY Zenon, <1>12 DEF DeviceFinish
        <3>2. disk \in [Proc -> Value] /\ data \in [Proc -> Value] /\ disk[info[i]] \in Value /\ data[info[i]] \in Value
            BY Zenon, <2>3 DEF TypeOK
        <3>3. QED
            BY Zenon, <3>1, <3>2
    <2>5. status' \in [Desc -> {0, 255}] /\ working' \subseteq Desc
        BY Zenon, <1>12 DEF DeviceFinish, TypeOK
    <2>6. irq' \in 0 .. 1
        BY <1>12 DEF DeviceFinish
    <2>7. usedEnd' = Inc(usedEnd) /\ UNCHANGED <<descVars, avail, availIdx, usedIdx, taken, lock, pc, op, head, onDisk>>
        BY Zenon, <1>12 DEF DeviceFinish
    <2>8. QED
        BY Zenon, <2>2, <2>4, <2>5, <2>6, <2>7 DEF descVars, TypeOK
<1>13. QED
    BY Zenon, <1>0, <1>1, <1>2, <1>3, <1>4, <1>5, <1>6, <1>7, <1>8, <1>9, <1>10, <1>11, <1>12
       DEF Next, Rw, Handler, Device

(* vdisk_lock is held from Fill to Submit.                                 *)
LEMMA LockStep ==
    ASSUME TypeOK, LockInv, [Next]_vars
    PROVE  LockInv'
<1>0. CASE UNCHANGED vars
    BY Zenon, <1>0 DEF vars, LockInv
<1>1. ASSUME NEW p \in Proc, NEW o \in {"read", "write"}, NEW v \in Value, Call(p, o, v) PROVE LockInv'
    BY Zenon, <1>1 DEF Call, Go, TypeOK, LockInv
<1>2. ASSUME NEW p \in Proc, Fill(p) PROVE LockInv'
    <2>1. lock = NoProc /\ lock' = p /\ pc' = [pc EXCEPT ![p] = "submit"] /\ pc \in [Proc -> {"idle", "alloc", "sleep_free", "submit", "sleep_done", "check"}]
        BY Zenon, <1>2 DEF Fill, Go, TypeOK
    <2>2. QED
        BY Zenon, <2>1, ProcAssumption DEF LockInv
<1>3. ASSUME NEW p \in Proc, AllocFails(p) PROVE LockInv'
    BY Zenon, <1>3 DEF AllocFails, WakeFree, TypeOK, LockInv
<1>4. ASSUME NEW p \in Proc, Submit(p) PROVE LockInv'
    BY Zenon, <1>4, ProcAssumption DEF Submit, Go, TypeOK, LockInv
<1>5. ASSUME NEW p \in Proc, SleepAgain(p) PROVE LockInv'
    BY Zenon, <1>5 DEF SleepAgain, Go, TypeOK, LockInv
<1>6. ASSUME NEW p \in Proc, Finish(p) PROVE LockInv'
    BY Zenon, <1>6 DEF Finish, WakeFree, TypeOK, LockInv
<1>7. ASSUME NEW p \in Proc, Kill(p) PROVE LockInv'
    <2>1. PICK l \in {"check", "alloc"} : pc' = [pc EXCEPT ![p] = l]
        BY Zenon, <1>7 DEF Kill, Go
    <2>2. pc[p] # "submit" /\ lock' = lock
        BY Zenon, <1>7 DEF Kill
    <2>3. \A q \in Proc : pc'[q] = "submit" <=> pc[q] = "submit"
        BY Zenon, <2>1, <2>2 DEF TypeOK
    <2>4. QED
        BY Zenon, <2>2, <2>3 DEF LockInv
<1>8. CASE IntrAck
    BY Zenon, <1>8, ProcAssumption DEF IntrAck, LockInv
<1>9. CASE IntrEntry
    BY Zenon, <1>9 DEF IntrEntry, LockInv
<1>10. CASE IntrReturn
    BY Zenon, <1>10, ProcAssumption DEF IntrReturn, LockInv
<1>11. CASE DeviceTake
    BY Zenon, <1>11 DEF DeviceTake, LockInv
<1>12. ASSUME NEW i \in Desc, DeviceFinish(i) PROVE LockInv'
    BY Zenon, <1>12 DEF DeviceFinish, LockInv
<1>13. QED
    BY Zenon, <1>0, <1>1, <1>2, <1>3, <1>4, <1>5, <1>6, <1>7, <1>8, <1>9, <1>10, <1>11, <1>12
       DEF Next, Rw, Handler, Device

(* The steps that neither take nor free descriptors.                       *)
LEMMA NoDescriptors ==
    ASSUME [Next]_vars
    PROVE  \/ UNCHANGED <<descVars, head>>
           \/ \E p \in Proc : Fill(p) \/ Finish(p)
<1>0. CASE UNCHANGED vars
    BY Zenon, <1>0 DEF vars, descVars
<1>1. ASSUME NEW p \in Proc, NEW o \in {"read", "write"}, NEW v \in Value, Call(p, o, v)
      PROVE  UNCHANGED <<descVars, head>>
    BY Zenon, <1>1 DEF Call, descVars
<1>2. ASSUME NEW p \in Proc, AllocFails(p) \/ Submit(p) \/ SleepAgain(p) \/ Kill(p)
      PROVE  UNCHANGED <<descVars, head>>
    BY Zenon, <1>2 DEF AllocFails, Submit, SleepAgain, Kill, descVars
<1>3. ASSUME IntrAck \/ IntrEntry \/ IntrReturn \/ DeviceTake PROVE UNCHANGED <<descVars, head>>
    BY Zenon, <1>3 DEF IntrAck, IntrEntry, IntrReturn, DeviceTake, descVars
<1>4. ASSUME NEW i \in Desc, DeviceFinish(i) PROVE UNCHANGED <<descVars, head>>
    BY Zenon, <1>4 DEF DeviceFinish, descVars
<1>5. QED
    BY Zenon, <1>0, <1>1, <1>2, <1>3, <1>4 DEF Next, Rw, Handler, Device

LEMMA BusyHead ==
    ASSUME TypeOK, NEW p \in Proc, Busy(p)
    PROVE  head[p] \in Desc
    BY Zenon DEF TypeOK, Busy

LEMMA BusyChain ==
    ASSUME TypeOK, ChainInv, NEW p \in Proc, Busy(p)
    PROVE  /\ head[p] \in Desc /\ info[head[p]] = p /\ head[p] \notin free
           /\ next[head[p]] \in Desc /\ next[head[p]] # head[p]
<1>1. info[head[p]] = p /\ Chain(head[p]) \subseteq Desc \ free /\ next[head[p]] # head[p]
    BY Zenon DEF ChainInv
<1>2. head[p] \in Chain(head[p]) /\ next[head[p]] \in Chain(head[p])
    BY Zenon DEF Chain
<1>3. QED
    BY Zenon, <1>1, <1>2

(* What Fill() of p does, with descriptor a at the head of the chain, to   *)
(* the entry of the avail ring and to each thread and descriptor.          *)
Took(p, a) ==
    /\ a \in Desc
    /\ avail' = [avail EXCEPT ![availIdx % NUM] = a]
    /\ head'[p] = a
    /\ status'[a] = 255
    /\ \A q \in Proc : q # p => head'[q] = head[q]
    /\ \A i \in Desc : i # a => status'[i] = status[i]
    /\ \A i \in Desc : i # a => info'[i] = info[i]

LEMMA FillData ==
    ASSUME TypeOK, NEW p \in Proc, Fill(p)
    PROVE  \E a \in free : Took(p, a)
<1>0. PICK a \in free, b \in free, c \in free : Takes(p, a, b, c)
    BY Zenon, FillTakes
<1>1. a \in Desc /\ avail' = [avail EXCEPT ![availIdx % NUM] = a]
    BY Zenon, <1>0 DEF TypeOK, Takes
<1>2. status'[a] = 255 /\ \A i \in Desc : i # a => status'[i] = status[i]
    <2>1. status \in [Desc -> {0, 255}]
        BY Zenon DEF TypeOK
    <2>2. status' = [status EXCEPT ![a] = 255]
        BY Zenon, <1>0 DEF Takes
    <2>3. QED
        BY <1>1, <2>1, <2>2
<1>3. \A i \in Desc : i # a => info'[i] = info[i]
    <2>1. info \in [Desc -> Proc \cup {NoProc}]
        BY Zenon DEF TypeOK
    <2>2. info' = [info EXCEPT ![a] = p]
        BY Zenon, <1>0 DEF Takes
    <2>3. QED
        BY Zenon, <2>1, <2>2
<1>4. head'[p] = a /\ \A q \in Proc : q # p => head'[q] = head[q]
    <2>1. head \in [Proc -> Desc \cup {NoDesc}]
        BY Zenon DEF TypeOK
    <2>2. head' = [head EXCEPT ![p] = a]
        BY Zenon, <1>0 DEF Takes
    <2>3. QED
        BY Zenon, <2>1, <2>2
<1>5. Took(p, a)
    BY Zenon, <1>1, <1>2, <1>3, <1>4 DEF Took
<1>6. QED
    BY Zenon, <1>5

(* Chains are built from free descriptors and given back whole.            *)
LEMMA ChainStep ==
    ASSUME TypeOK, ThreadInv, ChainInv, [Next]_vars
    PROVE  ChainInv'
<1>1. CASE UNCHANGED <<descVars, head>>
    BY Zenon, <1>1 DEF descVars, ChainInv, Chain, Busy
<1>2. ASSUME NEW p \in Proc, Fill(p) PROVE ChainInv'
    <2>1. PICK a \in free, b \in free, c \in free : Takes(p, a, b, c)
        BY Zenon, <1>2, FillTakes
    <2>2. a \in Desc /\ b \in Desc /\ c \in Desc /\ a # b /\ a # c /\ b # c
        BY Zenon, <2>1 DEF TypeOK, Takes
    <2>3. ~Busy(p)
        BY Zenon, <1>2 DEF ThreadInv, ThreadOK, Fill
    <2>4. /\ next'[a] = b /\ next'[b] = c
          /\ \A i \in Desc \ {a, b, c} : next'[i] = next[i]
        <3>1. next \in [Desc -> Desc \cup {NoDesc}]
            BY Zenon DEF TypeOK
        <3>2. next' = [next EXCEPT ![a] = b, ![b] = c, ![c] = NoDesc]
            BY Zenon, <2>1 DEF Takes
        <3>3. QED
            BY Zenon, <2>2, <3>1, <3>2
    <2>5. info'[a] = p /\ \A i \in Desc \ {a} : info'[i] = info[i]
        <3>1. info \in [Desc -> Proc \cup {NoProc}]
            BY Zenon DEF TypeOK
        <3>2. info' = [info EXCEPT ![a] = p]
            BY Zenon, <2>1 DEF Takes
        <3>3. QED
            BY Zenon, <2>2, <3>1, <3>2
    <2>6. head'[p] = a /\ \A q \in Proc \ {p} : head'[q] = head[q]
        BY Zenon, <2>1 DEF Takes, TypeOK
    <2>7. free' = free \ {a, b, c}
        BY Zenon, <2>1 DEF Takes
    <2>8. Chain(head[p])' = {a, b, c}
        BY Zenon, <2>4, <2>6 DEF Chain
    <2>9. ASSUME NEW q \in Proc \ {p}, Busy(q)'
          PROVE  /\ Busy(q) /\ Chain(head[q])' = Chain(head[q]) /\ Chain(head[q]) \subseteq Desc \ free
                 /\ info'[head'[q]] = q /\ next'[head'[q]] # head'[q]
        <3>1. Busy(q) /\ head'[q] = head[q]
            BY Zenon, <2>6, <2>9 DEF Busy
        <3>2. /\ info[head[q]] = q /\ Chain(head[q]) \subseteq Desc \ free
              /\ next[head[q]] # head[q]
            BY Zenon, <3>1 DEF ChainInv
        <3>3. /\ head[q] \in Desc \ {a, b, c} /\ next[head[q]] \in Desc \ {a, b, c}
              /\ next[next[head[q]]] \in Desc \ {a, b, c}
            BY Zenon, <2>1, <3>2 DEF Chain
        <3>4. next'[head[q]] = next[head[q]] /\ next'[next[head[q]]] = next[next[head[q]]]
            BY Zenon, <2>4, <3>3
        <3>5. Chain(head[q])' = Chain(head[q])
            BY Zenon, <3>1, <3>4 DEF Chain
        <3>6. info'[head[q]] = q
            BY Zenon, <2>5, <3>2, <3>3
        <3>7. QED
            BY Zenon, <3>1, <3>2, <3>4, <3>5, <3>6
    <2>10. {a, b, c} \subseteq free
        BY Zenon, <2>1
    <2>a. ASSUME NEW q \in Proc, q # p, Busy(q)' PROVE Chain(head[q])' \subseteq Desc \ free
        <3>1. q \in Proc \ {p}
            BY Zenon, <2>a
        <3>2. Chain(head[q])' = Chain(head[q]) /\ Chain(head[q]) \subseteq Desc \ free
            BY Zenon, <2>9, <2>a, <3>1
        <3>3. QED
            BY Zenon, <3>2
    <2>11. ASSUME NEW q \in Proc, Busy(q)'
           PROVE  /\ info'[head'[q]] = q /\ Chain(head[q])' \subseteq Desc \ free'
                  /\ next'[head'[q]] # head'[q]
                  /\ \A r \in Proc \ {q} : Busy(r)' => Chain(head[q])' \cap Chain(head[r])' = {}
        <3>1. CASE q = p
            <4>1. info'[head'[p]] = p /\ next'[head'[p]] # head'[p]
                BY Zenon, <2>2, <2>4, <2>5, <2>6
            <4>2. Chain(head[p])' \subseteq Desc \ free'
                BY Zenon, <2>2, <2>7, <2>8
            <4>3. ASSUME NEW r \in Proc \ {p}, Busy(r)' PROVE Chain(head[p])' \cap Chain(head[r])' = {}
                <5>1. Chain(head[r])' \subseteq Desc \ free
                    BY Zenon, <2>9, <4>3
                <5>2. QED
                    BY Zenon, <2>8, <2>10, <5>1
            <4>4. QED
                BY Zenon, <3>1, <4>1, <4>2, <4>3
        <3>2. CASE q # p
            <4>1. ASSUME NEW r \in Proc \ {q}, Busy(r)' PROVE Chain(head[q])' \cap Chain(head[r])' = {}
                <5>1. CASE r = p
                    <6>1. Chain(head[q])' \subseteq Desc \ free
                        BY Zenon, <2>a, <2>11, <3>2
                    <6>2. Chain(head[r])' = {a, b, c}
                        BY Zenon, <2>8, <5>1
                    <6>3. QED
                        BY Zenon, <2>10, <6>1, <6>2
                <5>2. CASE r # p
                    BY Zenon, <5>2, <3>2, <4>1, <2>11, <2>9 DEF ChainInv
                <5>3. QED
                    BY Zenon, <5>1, <5>2
            <4>2. QED
                BY Zenon, <3>2, <4>1, <2>7, <2>9, <2>11
        <3>3. QED
            BY Zenon, <3>1, <3>2
    <2>12. ASSUME NEW i \in Desc \ free' PROVE \E q \in Proc : Busy(q)' /\ i \in Chain(head[q])'
        <3>1. CASE i \in free
            <4>1. i \in Chain(head[p])'
                BY Zenon, <3>1, <2>7, <2>8, <2>12
            <4>2. Busy(p)'
                <5>1. head'[p] # NoDesc
                    BY <2>2, <2>6, SizeAssumption DEF Desc, NoDesc
                <5>2. QED
                    BY Zenon, <5>1 DEF Busy
            <4>3. QED
                BY Zenon, <4>1, <4>2
        <3>2. CASE i \notin free
            <4>1. PICK q \in Proc : Busy(q) /\ i \in Chain(head[q])
                BY Zenon, <3>2, <2>12 DEF ChainInv
            <4>2. q # p
                BY Zenon, <2>3, <4>1
            <4>3. Busy(q)'
                BY Zenon, <2>6, <4>1, <4>2 DEF Busy
            <4>4. Chain(head[q])' = Chain(head[q])
                BY Zenon, <2>9, <4>2, <4>3
            <4>5. QED
                BY Zenon, <4>1, <4>3, <4>4
        <3>3. QED
            BY Zenon, <3>1, <3>2
    <2>13. QED
        BY Zenon, <2>11, <2>12 DEF ChainInv
<1>3. ASSUME NEW p \in Proc, Finish(p) PROVE ChainInv'
    <2>1. PICK C : C = Chain(head[p])
        BY Zenon
    <2>2. pc[p] = "check" /\ Busy(p)
        BY Zenon, <1>3 DEF ThreadInv, ThreadOK, Finish
    <2>3. head[p] \in C /\ C \subseteq Desc \ free
        BY Zenon, <2>1, <2>2 DEF ChainInv, Chain
    <2>4. head'[p] = NoDesc /\ \A q \in Proc \ {p} : head'[q] = head[q]
        BY Zenon, <1>3 DEF Finish, TypeOK
    <2>a. next' = [i \in Desc |-> IF i \in C THEN NoDesc ELSE next[i]]
        BY Zenon, <1>3, <2>1 DEF Finish
    <2>b. info' = [info EXCEPT ![head[p]] = NoProc]
        BY Zenon, <1>3 DEF Finish
    <2>5. \A i \in Desc \ C : next'[i] = next[i] /\ info'[i] = info[i]
        <3>1. info \in [Desc -> Proc \cup {NoProc}]
            BY Zenon DEF TypeOK
        <3>2. QED
            BY Zenon, <2>a, <2>b, <2>3, <3>1
    <2>6. free' = free \cup C
        BY Zenon, <1>3, <2>1 DEF Finish
    <2>7. ~Busy(p)'
        BY Zenon, <2>4 DEF Busy
    <2>8. ASSUME NEW q \in Proc \ {p}, Busy(q)
          PROVE  /\ Busy(q)' /\ Chain(head[q])' = Chain(head[q]) /\ Chain(head[q]) \subseteq Desc \ free'
                 /\ info'[head'[q]] = q /\ next'[head'[q]] # head'[q]
        <3>1. Busy(q)' /\ head'[q] = head[q]
            BY Zenon, <2>4, <2>8 DEF Busy
        <3>2. /\ info[head[q]] = q /\ Chain(head[q]) \subseteq Desc \ free
              /\ next[head[q]] # head[q] /\ Chain(head[q]) \cap C = {}
            BY Zenon, <2>1, <2>2, <2>8 DEF ChainInv
        <3>3. /\ head[q] \in Desc \ C /\ next[head[q]] \in Desc \ C
              /\ next[next[head[q]]] \in Desc \ C
            BY Zenon, <3>2 DEF Chain
        <3>4. next'[head[q]] = next[head[q]] /\ next'[next[head[q]]] = next[next[head[q]]]
            BY Zenon, <2>5, <3>3
        <3>5. Chain(head[q])' = Chain(head[q])
            BY Zenon, <3>1, <3>4 DEF Chain
        <3>6. info'[head[q]] = q
            BY Zenon, <2>5, <3>2, <3>3
        <3>7. Chain(head[q]) \subseteq Desc \ free'
            BY Zenon, <2>6, <3>2
        <3>8. QED
            BY Zenon, <3>1, <3>2, <3>4, <3>5, <3>6, <3>7
    <2>9. ASSUME NEW q \in Proc, Busy(q)' PROVE q # p /\ Busy(q)
        BY Zenon, <2>4, <2>7, <2>9 DEF Busy
    <2>10. ASSUME NEW q \in Proc, Busy(q)'
           PROVE  /\ info'[head'[q]] = q /\ Chain(head[q])' \subseteq Desc \ free'
                  /\ next'[head'[q]] # head'[q]
                  /\ \A r \in Proc \ {q} : Busy(r)' => Chain(head[q])' \cap Chain(head[r])' = {}
        <3>1. q # p /\ Busy(q)
            BY Zenon, <2>9, <2>10
        <3>2. ASSUME NEW r \in Proc \ {q}, Busy(r)' PROVE Chain(head[q])' \cap Chain(head[r])' = {}
            <4>1. r # p /\ Busy(r)
                BY Zenon, <2>9, <3>2
            <4>2. Chain(head[q])' = Chain(head[q]) /\ Chain(head[r])' = Chain(head[r])
                BY Zenon, <2>8, <3>1, <4>1
            <4>3. Chain(head[q]) \cap Chain(head[r]) = {}
                BY Zenon, <3>1, <4>1 DEF ChainInv
            <4>4. QED
                BY Zenon, <4>2, <4>3
        <3>3. QED
            BY Zenon, <2>8, <3>1, <3>2
    <2>11. ASSUME NEW i \in Desc \ free' PROVE \E q \in Proc : Busy(q)' /\ i \in Chain(head[q])'
        <3>1. i \in Desc \ free /\ i \notin C
            BY Zenon, <2>6, <2>11
        <3>2. PICK q \in Proc : Busy(q) /\ i \in Chain(head[q])
            BY Zenon, <3>1 DEF ChainInv
        <3>3. q # p
            BY Zenon, <2>1, <3>1, <3>2
        <3>4. QED
            BY Zenon, <2>8, <3>2, <3>3
    <2>12. QED
        BY Zenon, <2>10, <2>11 DEF ChainInv
<1>4. QED
    BY Zenon, <1>1, <1>2, <1>3, NoDescriptors

(* The steps that move no request: threads come, sleep and wake up.        *)
Outside == {"idle", "alloc", "sleep_free"}
Within == {"sleep_done", "check"}
Quiet ==
    /\ UNCHANGED <<descVars, status, ringVars, head, onDisk>>
    /\ \A q \in Proc : \/ pc'[q] = pc[q]
                       \/ pc[q] \in Outside /\ pc'[q] \in Outside
                       \/ pc[q] \in Within /\ pc'[q] \in Within

LEMMA QuietSteps ==
    ASSUME TypeOK, [Next]_vars
    PROVE  \/ Quiet
           \/ \E p \in Proc : Fill(p) \/ Submit(p) \/ Finish(p)
           \/ IntrEntry \/ DeviceTake \/ \E i \in Desc : DeviceFinish(i)
<1>a. pc \in [Proc -> {"idle", "alloc", "sleep_free", "submit", "sleep_done", "check"}]
    BY Zenon DEF TypeOK
<1>0. CASE UNCHANGED vars
    BY Zenon, <1>0 DEF vars, Quiet
<1>1. ASSUME NEW p \in Proc, NEW o \in {"read", "write"}, NEW v \in Value, Call(p, o, v) PROVE Quiet
    <2>1. pc[p] = "idle" /\ pc' = [pc EXCEPT ![p] = "alloc"]
        BY Zenon, <1>1 DEF Call, Go
    <2>2. UNCHANGED <<descVars, status, ringVars, head, onDisk>>
        BY Zenon, <1>1 DEF Call
    <2>3. \A q \in Proc : pc'[q] = pc[q] \/ (pc[q] \in Outside /\ pc'[q] \in Outside)
        BY Zenon, <1>a, <2>1 DEF Outside
    <2>4. QED
        BY Zenon, <2>2, <2>3 DEF Quiet
<1>2. ASSUME NEW p \in Proc, AllocFails(p) PROVE Quiet
    <2>1. UNCHANGED <<descVars, status, ringVars, head, onDisk>>
        BY Zenon, <1>2 DEF AllocFails
    <2>2. \A q \in Proc : pc'[q] = pc[q] \/ (pc[q] \in Outside /\ pc'[q] \in Outside)
        BY Zenon, <1>2 DEF AllocFails, WakeFree, Outside
    <2>3. QED
        BY Zenon, <2>1, <2>2 DEF Quiet
<1>3. ASSUME NEW p \in Proc, SleepAgain(p) PROVE Quiet
    <2>1. pc[p] = "check" /\ pc' = [pc EXCEPT ![p] = "sleep_done"]
        BY Zenon, <1>3 DEF SleepAgain, Go
    <2>2. UNCHANGED <<descVars, status, ringVars, head, onDisk>>
        BY Zenon, <1>3 DEF SleepAgain
    <2>3. \A q \in Proc : pc'[q] = pc[q] \/ (pc[q] \in Within /\ pc'[q] \in Within)
        BY Zenon, <1>a, <2>1 DEF Within
    <2>4. QED
        BY Zenon, <2>2, <2>3 DEF Quiet
<1>4. ASSUME NEW p \in Proc, Kill(p) PROVE Quiet
    <2>1. UNCHANGED <<descVars, status, ringVars, head, onDisk>>
        BY Zenon, <1>4 DEF Kill
    <2>2. CASE pc[p] = "sleep_done" /\ pc' = [pc EXCEPT ![p] = "check"]
        <3>1. \A q \in Proc : pc'[q] = pc[q] \/ (pc[q] \in Within /\ pc'[q] \in Within)
            BY Zenon, <1>a, <2>2 DEF Within
        <3>2. QED
            BY Zenon, <2>1, <3>1 DEF Quiet
    <2>3. CASE pc[p] = "sleep_free" /\ pc' = [pc EXCEPT ![p] = "alloc"]
        <3>1. \A q \in Proc : pc'[q] = pc[q] \/ (pc[q] \in Outside /\ pc'[q] \in Outside)
            BY Zenon, <1>a, <2>3 DEF Outside
        <3>2. QED
            BY Zenon, <2>1, <3>1 DEF Quiet
    <2>4. QED
        BY Zenon, <1>4, <2>2, <2>3 DEF Kill, Go
<1>5. ASSUME IntrAck \/ IntrReturn PROVE Quiet
    BY Zenon, <1>5 DEF IntrAck, IntrReturn, Quiet
<1>6. QED
    BY Zenon, <1>0, <1>1, <1>2, <1>3, <1>4, <1>5 DEF Next, Rw, Handler, Device

(* What Fill and Submit do to the threads.                                 *)
LEMMA FillEffect ==
    ASSUME TypeOK, LockInv, NEW p \in Proc, Fill(p)
    PROVE  /\ pc[p] = "alloc" /\ pc'[p] = "submit" /\ onDisk'[p] = 1 /\ availIdx' = availIdx
           /\ \A q \in Proc : q # p => pc'[q] = pc[q] /\ onDisk'[q] = onDisk[q] /\ pc[q] # "submit"
<1>1. /\ lock = NoProc /\ pc[p] = "alloc" /\ pc' = [pc EXCEPT ![p] = "submit"]
      /\ onDisk' = [onDisk EXCEPT ![p] = 1] /\ availIdx' = availIdx
    BY Zenon DEF Fill, Go
<1>2. \A q \in Proc : pc[q] # "submit"
    BY Zenon, <1>1, ProcAssumption DEF LockInv
<1>3. pc'[p] = "submit" /\ \A q \in Proc : q # p => pc'[q] = pc[q]
    BY Zenon, <1>1 DEF TypeOK
<1>4. onDisk'[p] = 1 /\ \A q \in Proc : q # p => onDisk'[q] = onDisk[q]
    BY Zenon, <1>1 DEF TypeOK
<1>5. QED
    BY Zenon, <1>1, <1>2, <1>3, <1>4

LEMMA SubmitEffect ==
    ASSUME TypeOK, LockInv, NEW p \in Proc, Submit(p)
    PROVE  /\ pc[p] = "submit" /\ pc'[p] = "sleep_done"
           /\ \A q \in Proc : q # p => pc'[q] = pc[q] /\ pc[q] # "submit"
<1>1. pc[p] = "submit" /\ pc' = [pc EXCEPT ![p] = "sleep_done"]
    BY Zenon DEF Submit, Go
<1>2. \A q \in Proc : q # p => pc[q] # "submit"
    BY Zenon, <1>1 DEF LockInv
<1>3. pc'[p] = "sleep_done" /\ \A q \in Proc : q # p => pc'[q] = pc[q]
    BY Zenon, <1>1 DEF TypeOK
<1>4. QED
    BY Zenon, <1>1, <1>2, <1>3

LEMMA FinishEffect ==
    ASSUME TypeOK, NEW p \in Proc, Finish(p)
    PROVE  /\ pc[p] = "check" /\ onDisk[p] = 0 /\ pc'[p] = "idle" /\ head'[p] = NoDesc
           /\ \A q \in Proc : q # p =>
                 head'[q] = head[q] /\ (pc'[q] = pc[q] \/ (pc[q] = "sleep_free" /\ pc'[q] = "alloc"))
<1>1. /\ pc[p] = "check" /\ onDisk[p] = 0 /\ head' = [head EXCEPT ![p] = NoDesc]
      /\ pc' = [q \in Proc |-> IF q = p THEN "idle" ELSE WakeFree(q)]
    BY Zenon DEF Finish
<1>2. head'[p] = NoDesc /\ \A q \in Proc : q # p => head'[q] = head[q]
    BY Zenon, <1>1 DEF TypeOK
<1>3. pc'[p] = "idle" /\ \A q \in Proc : q # p => (pc'[q] = pc[q] \/ (pc[q] = "sleep_free" /\ pc'[q] = "alloc"))
    BY Zenon, <1>1 DEF WakeFree
<1>4. QED
    BY Zenon, <1>1, <1>2, <1>3

(* The handler clears b->disk of the thread whose request is first in the  *)
(* used ring.                                                              *)
LEMMA IntrEffect ==
    ASSUME TypeOK, RingInv, IntrEntry
    PROVE  \E b \in Proc :
               /\ used[usedIdx % NUM] \in Completed /\ head[b] = used[usedIdx % NUM] /\ head[b] \in Desc
               /\ info[head[b]] = b /\ status[head[b]] = 0
               /\ pc[b] \in Within /\ pc'[b] = "check" /\ onDisk'[b] = 0
               /\ \A q \in Proc : q # b => pc'[q] = pc[q] /\ onDisk'[q] = onDisk[q]
<1>1. PICK i : i = used[usedIdx % NUM]
    BY Zenon
<1>2. i \in Completed
    <2>1. usedIdx \in Index /\ usedEnd \in Index /\ used \in [Desc -> Desc] /\ usedIdx # usedEnd
        BY Zenon DEF TypeOK, Index, IntrEntry
    <2>2. Dist(usedIdx, usedEnd) < NUM /\ Distinct(used, usedIdx, usedEnd)
        BY Zenon DEF RingInv
    <2>3. QED
        BY Zenon, <1>1, <2>1, <2>2, RingTake DEF Completed
<1>3. PICK b : b = info[i]
    BY Zenon
<1>4. b \in Proc /\ head[b] = i /\ i \in Desc /\ status[i] = 0 /\ pc[b] \in Within
    BY Zenon, <1>2, <1>3 DEF RingInv, Waiting, Within
<1>5. /\ onDisk' = [onDisk EXCEPT ![b] = 0]
      /\ pc' = [q \in Proc |-> IF q = b /\ pc[q] = "sleep_done" THEN "check" ELSE pc[q]]
    BY Zenon, <1>1, <1>3 DEF IntrEntry
<1>6. onDisk'[b] = 0 /\ \A q \in Proc : q # b => onDisk'[q] = onDisk[q]
    <2>1. onDisk \in [Proc -> 0 .. 1]
        BY Zenon DEF TypeOK
    <2>2. QED
        BY Zenon, <1>4, <1>5, <2>1
<1>7. pc'[b] = "check" /\ \A q \in Proc : q # b => pc'[q] = pc[q]
    BY Zenon, <1>4, <1>5 DEF Within
<1>8. /\ used[usedIdx % NUM] \in Completed /\ head[b] = used[usedIdx % NUM] /\ head[b] \in Desc
      /\ info[head[b]] = b /\ status[head[b]] = 0
    BY Zenon, <1>1, <1>2, <1>3, <1>4
<1>9. QED
    BY Zenon, <1>4, <1>6, <1>7, <1>8

(* A thread that a step does not concern.                                  *)
LEMMA SameThread ==
    ASSUME NEW q \in Proc, ThreadOK(q), head'[q] = head[q], pc'[q] = pc[q], onDisk'[q] = onDisk[q],
           Busy(q) => status'[head[q]] = status[head[q]],
           pc[q] = "submit" => avail'[availIdx' % NUM] = avail[availIdx % NUM]
    PROVE  ThreadOK(q)'
<1>1. Busy(q)' <=> Busy(q)
    BY Zenon DEF Busy
<1>2. QED
    BY Zenon, <1>1 DEF ThreadOK

(* The thread in Fill prepares its request; the status tells what the      *)
(* device has done.                                                        *)
LEMMA ThreadStep ==
    ASSUME TypeOK, ThreadInv, LockInv, ChainInv, RingInv, [Next]_vars
    PROVE  ThreadInv'
<1>t. \A q \in Proc : ThreadOK(q)
    BY Zenon DEF ThreadInv
<1>1. CASE Quiet
    <2>1. UNCHANGED <<head, status, avail, availIdx, onDisk>>
        BY Zenon, <1>1 DEF Quiet, ringVars
    <2>2. ASSUME NEW q \in Proc PROVE ThreadOK(q)'
        <3>1. (pc'[q] = "submit" <=> pc[q] = "submit")
              /\ (pc'[q] \in {"submit", "sleep_done", "check"} <=> pc[q] \in {"submit", "sleep_done", "check"})
            BY Zenon, <1>1 DEF Quiet, Outside, Within
        <3>2. Busy(q)' <=> Busy(q)
            BY Zenon, <2>1 DEF Busy
        <3>3. QED
            BY Zenon, <1>t, <2>1, <3>1, <3>2 DEF ThreadOK
    <2>3. QED
        BY Zenon, <2>2 DEF ThreadInv
<1>2. ASSUME NEW p \in Proc, Fill(p) PROVE ThreadInv'
    <2>1. PICK a \in free : Took(p, a)
        BY Zenon, <1>2, FillData
    <2>2. a \in Desc
        BY Zenon, <2>1 DEF Took
    <2>3. head'[p] = a /\ \A q \in Proc : q # p => head'[q] = head[q]
        BY Zenon, <2>1 DEF Took
    <2>4. status'[a] = 255 /\ \A i \in Desc : i # a => status'[i] = status[i]
        BY Zenon, <2>1 DEF Took
    <2>5. avail'[availIdx % NUM] = a
        <3>0. availIdx \in Index /\ avail \in [Desc -> Desc]
            BY Zenon DEF TypeOK, Index
        <3>1. availIdx \in Index /\ avail \in [Desc -> Desc] /\ avail' = [avail EXCEPT ![availIdx % NUM] = a]
            BY Zenon, <2>1, <3>0 DEF Took
        <3>2. availIdx % NUM \in Desc
            <4>1. 0 \in Nat
                BY Zenon
            <4>2. QED
                BY Zenon, <3>1, <4>1, PlaceInRing
        <3>3. QED
            BY Zenon, <3>1, <3>2
    <2>6. /\ pc'[p] = "submit" /\ onDisk'[p] = 1 /\ availIdx' = availIdx
          /\ \A q \in Proc : q # p => pc'[q] = pc[q] /\ onDisk'[q] = onDisk[q] /\ pc[q] # "submit"
        BY Zenon, <1>2, FillEffect
    <2>7. a # NoDesc /\ 1 # 0
        BY <2>2, SizeAssumption DEF Desc, NoDesc
    <2>8. ThreadOK(p)'
        <3>1. Busy(p)'
            BY Zenon, <2>3, <2>7 DEF Busy
        <3>2. status'[head'[p]] = 255 /\ avail'[availIdx' % NUM] = head'[p]
            BY Zenon, <2>3, <2>4, <2>5, <2>6
        <3>3. QED
            BY Zenon, <3>1, <3>2, <2>6, <2>7 DEF ThreadOK
    <2>9. ASSUME NEW q \in Proc, q # p PROVE ThreadOK(q)'
        <3>1. ASSUME Busy(q) PROVE status'[head[q]] = status[head[q]]
            <4>1. head[q] \in Desc /\ head[q] \notin free
                BY Zenon, <3>1 DEF ChainInv, Chain
            <4>2. head[q] # a
                BY Zenon, <2>1, <4>1
            <4>3. QED
                BY Zenon, <2>4, <4>1, <4>2
        <3>2. head'[q] = head[q] /\ pc'[q] = pc[q] /\ onDisk'[q] = onDisk[q] /\ pc[q] # "submit"
            BY Zenon, <2>3, <2>6, <2>9
        <3>3. QED
            BY Zenon, <1>t, <3>1, <3>2, SameThread
    <2>10. QED
        BY Zenon, <2>8, <2>9 DEF ThreadInv
<1>3. ASSUME NEW p \in Proc, Submit(p) PROVE ThreadInv'
    <2>1. UNCHANGED <<head, status, onDisk>>
        BY Zenon, <1>3 DEF Submit
    <2>2. /\ pc[p] = "submit" /\ pc'[p] = "sleep_done"
          /\ \A q \in Proc : q # p => pc'[q] = pc[q] /\ pc[q] # "submit"
        BY Zenon, <1>3, SubmitEffect
    <2>3. Busy(p)' <=> Busy(p)
        BY Zenon, <2>1 DEF Busy
    <2>4. ThreadOK(p)'
        BY Zenon, <1>t, <2>1, <2>2, <2>3 DEF ThreadOK
    <2>5. ASSUME NEW q \in Proc, q # p PROVE ThreadOK(q)'
        BY Zenon, <1>t, <2>1, <2>2, <2>5, SameThread
    <2>6. QED
        BY Zenon, <2>4, <2>5 DEF ThreadInv
<1>4. ASSUME NEW p \in Proc, Finish(p) PROVE ThreadInv'
    <2>1. UNCHANGED <<status, avail, availIdx, onDisk>>
        BY Zenon, <1>4 DEF Finish, ringVars
    <2>2. /\ pc'[p] = "idle" /\ head'[p] = NoDesc
          /\ \A q \in Proc : q # p =>
                head'[q] = head[q] /\ (pc'[q] = pc[q] \/ (pc[q] = "sleep_free" /\ pc'[q] = "alloc"))
        BY Zenon, <1>4, FinishEffect
    <2>3. ThreadOK(p)'
        BY Zenon, <2>2 DEF ThreadOK, Busy
    <2>4. ASSUME NEW q \in Proc, q # p PROVE ThreadOK(q)'
        <3>1. CASE pc'[q] = pc[q]
            BY Zenon, <1>t, <2>1, <2>2, <2>4, <3>1, SameThread
        <3>2. CASE pc[q] = "sleep_free" /\ pc'[q] = "alloc"
            <4>1. ~Busy(q)
                BY Zenon, <1>t, <3>2 DEF ThreadOK
            <4>2. ~Busy(q)'
                BY Zenon, <4>1, <2>2, <2>4 DEF Busy
            <4>3. QED
                BY Zenon, <3>2, <4>2 DEF ThreadOK
        <3>3. QED
            BY Zenon, <2>2, <2>4, <3>1, <3>2
    <2>5. QED
        BY Zenon, <2>3, <2>4 DEF ThreadInv
<1>5. CASE IntrEntry
    <2>1. PICK b \in Proc :
               /\ head[b] \in Desc /\ status[head[b]] = 0
               /\ pc[b] \in Within /\ pc'[b] = "check" /\ onDisk'[b] = 0
               /\ \A q \in Proc : q # b => pc'[q] = pc[q] /\ onDisk'[q] = onDisk[q]
        BY Zenon, <1>5, IntrEffect
    <2>2. UNCHANGED <<head, status, avail, availIdx>>
        BY Zenon, <1>5 DEF IntrEntry
    <2>3. ThreadOK(b)'
        <3>1. Busy(b)' <=> Busy(b)
            BY Zenon, <2>2 DEF Busy
        <3>2. Busy(b)
            BY Zenon, <1>t, <2>1 DEF ThreadOK, Within
        <3>3. QED
            BY Zenon, <2>1, <2>2, <3>1, <3>2 DEF ThreadOK
    <2>4. ASSUME NEW q \in Proc, q # b PROVE ThreadOK(q)'
        BY Zenon, <1>t, <2>1, <2>2, <2>4, SameThread
    <2>5. QED
        BY Zenon, <2>3, <2>4 DEF ThreadInv
<1>6. CASE DeviceTake
    <2>1. UNCHANGED <<head, status, onDisk, pc, availIdx>>
        BY Zenon, <1>6 DEF DeviceTake
    <2>2. avail'[availIdx % NUM] = avail[availIdx % NUM]
        <3>1. taken \in Index /\ availIdx \in Index /\ avail \in [Desc -> Desc]
            BY Zenon DEF TypeOK, Index
        <3>2. taken # availIdx /\ avail' = [avail EXCEPT ![taken % NUM] = 0]
            BY Zenon, <1>6 DEF DeviceTake
        <3>3. Dist(taken, availIdx) < NUM /\ Distinct(avail, taken, availIdx)
            BY Zenon DEF RingInv
        <3>4. [avail EXCEPT ![taken % NUM] = 0][availIdx % NUM] = avail[availIdx % NUM]
            BY <3>1, <3>2, <3>3, RingTake
        <3>5. QED
            BY Zenon, <3>2, <3>4
    <2>3. ASSUME NEW q \in Proc PROVE ThreadOK(q)'
        BY Zenon, <1>t, <2>1, <2>2, SameThread
    <2>4. QED
        BY Zenon, <2>3 DEF ThreadInv
<1>7. ASSUME NEW i \in Desc, DeviceFinish(i) PROVE ThreadInv'
    <2>1. UNCHANGED <<head, onDisk, pc, avail, availIdx>>
        BY Zenon, <1>7 DEF DeviceFinish
    <2>2. Waiting(i, 255)
        BY Zenon, <1>7 DEF DeviceFinish, RingInv
    <2>3. status'[i] = 0 /\ \A j \in Desc : j # i => status'[j] = status[j]
        BY Zenon, <1>7 DEF DeviceFinish, TypeOK
    <2>4. ASSUME NEW q \in Proc PROVE ThreadOK(q)'
        <3>1. CASE Busy(q) /\ head[q] = i
            <4>1. info[i] = q
                BY Zenon, <3>1 DEF ChainInv
            <4>2. pc[q] \in Within
                BY Zenon, <2>2, <4>1 DEF Waiting, Within
            <4>3. Busy(q)' <=> Busy(q)
                BY Zenon, <2>1 DEF Busy
            <4>4. QED
                BY Zenon, <2>1, <2>3, <3>1, <4>2, <4>3 DEF ThreadOK, Within
        <3>2. CASE ~(Busy(q) /\ head[q] = i)
            <4>1. Busy(q) => status'[head[q]] = status[head[q]]
                BY Zenon, <2>3, <3>2, BusyHead
            <4>2. QED
                BY Zenon, <1>t, <2>1, <4>1, SameThread
        <3>3. QED
            BY Zenon, <3>1, <3>2
    <2>5. QED
        BY Zenon, <2>4 DEF ThreadInv
<1>8. QED
    BY Zenon, <1>1, <1>2, <1>3, <1>4, <1>5, <1>6, <1>7, QuietSteps

(* What keeps a request in its place.                                      *)
LEMMA StillWaiting ==
    ASSUME NEW i, NEW s, Waiting(i, s), info'[i] = info[i], status'[i] = status[i],
           head'[info[i]] = head[info[i]], onDisk'[info[i]] = onDisk[info[i]], pc'[info[i]] \in Within
    PROVE  Waiting(i, s)'
    BY Zenon DEF Waiting, Within

(* The thread of a request, and descriptors that are no requests.          *)
LEMMA WaitingThread ==
    ASSUME TypeOK, ChainInv, NEW i, NEW s, Waiting(i, s)
    PROVE  /\ i \in Desc /\ i \notin free /\ info[i] \in Proc /\ head[info[i]] = i /\ Busy(info[i])
           /\ pc[info[i]] \in Within /\ onDisk[info[i]] = 1 /\ status[i] = s
<1>1. /\ i \in Desc /\ info[i] \in Proc /\ head[info[i]] = i /\ status[i] = s
      /\ pc[info[i]] \in Within /\ onDisk[info[i]] = 1
    BY Zenon DEF Waiting, Within
<1>2. i # NoDesc
    BY <1>1, SizeAssumption DEF Desc, NoDesc
<1>3. Busy(info[i])
    BY Zenon, <1>1, <1>2 DEF Busy
<1>4. Chain(head[info[i]]) \subseteq Desc \ free
    BY Zenon, <1>1, <1>3 DEF ChainInv
<1>5. head[info[i]] \in Chain(head[info[i]])
    BY Zenon DEF Chain
<1>6. i \notin free
    BY Zenon, <1>1, <1>4, <1>5
<1>7. QED
    BY Zenon, <1>1, <1>3, <1>6

LEMMA NoRequestInside ==
    ASSUME TypeOK, ChainInv, NEW p \in Proc, Busy(p), NEW i, NEW s, Waiting(i, s)
    PROVE  /\ next[head[p]] # i /\ next[head[p]] \in Desc /\ next[head[p]] # head[p]
           /\ (info[i] # p => i # head[p])
<1>1. /\ info[i] \in Proc /\ head[info[i]] = i /\ Busy(info[i])
    BY Zenon, WaitingThread
<1>2. info[head[p]] = p /\ Chain(head[p]) \subseteq Desc \ free /\ next[head[p]] # head[p]
    BY Zenon DEF ChainInv
<1>3. next[head[p]] \in Chain(head[p]) /\ i \in Chain(head[info[i]])
    BY Zenon, <1>1 DEF Chain
<1>4. CASE info[i] = p
    BY Zenon, <1>1, <1>2, <1>3, <1>4
<1>5. CASE info[i] # p
    <2>1. Chain(head[p]) \cap Chain(head[info[i]]) = {}
        BY Zenon, <1>1, <1>5 DEF ChainInv
    <2>2. next[head[p]] # i
        BY Zenon, <1>3, <2>1
    <2>3. i # head[p]
        BY Zenon, <1>2, <1>5
    <2>4. QED
        BY Zenon, <1>2, <1>3, <2>2, <2>3
<1>6. QED
    BY Zenon, <1>4, <1>5

(* Requests move from the avail ring to the device and on to the used      *)
(* ring, and the thread waits until the handler has seen the completion.   *)
LEMMA RingStep ==
    ASSUME TypeOK, ThreadInv, LockInv, ChainInv, RingInv, [Next]_vars
    PROVE  RingInv'
<1>r. /\ Dist(taken, availIdx) < NUM /\ Distinct(avail, taken, availIdx)
      /\ Dist(usedIdx, usedEnd) < NUM /\ Distinct(used, usedIdx, usedEnd)
    BY Zenon DEF RingInv
<1>p. \A i \in Posted : Waiting(i, 255) /\ i \notin working
    BY Zenon DEF RingInv
<1>w. \A i \in working : Waiting(i, 255)
    BY Zenon DEF RingInv
<1>c. \A i \in Completed : Waiting(i, 0)
    BY Zenon DEF RingInv
<1>t. /\ avail \in [Desc -> Desc] /\ used \in [Desc -> Desc] /\ taken \in Index /\ availIdx \in Index
      /\ usedIdx \in Index /\ usedEnd \in Index
    BY Zenon DEF TypeOK, Index
<1>n. 255 # 0
    OBVIOUS
<1>1. CASE Quiet
    <2>1. UNCHANGED <<info, status, head, onDisk, avail, availIdx, used, usedEnd, usedIdx, taken, working>>
        BY Zenon, <1>1 DEF Quiet, descVars, ringVars
    <2>2. ASSUME NEW i, NEW s, Waiting(i, s) PROVE Waiting(i, s)'
        <3>1. pc[info[i]] \in Within /\ info[i] \in Proc
            BY Zenon, <2>2 DEF Waiting, Within
        <3>2. pc'[info[i]] \in Within
            BY Zenon, <1>1, <3>1 DEF Quiet, Outside, Within
        <3>3. QED
            BY Zenon, <2>1, <2>2, <3>2, StillWaiting
    <2>3. Posted' = Posted /\ Completed' = Completed
        BY Zenon, <2>1 DEF Posted, Completed
    <2>4. /\ \A i \in Posted' : Waiting(i, 255)' /\ i \notin working'
          /\ \A i \in working' : Waiting(i, 255)'
          /\ \A i \in Completed' : Waiting(i, 0)'
        BY Zenon, <1>p, <1>w, <1>c, <2>1, <2>2, <2>3
    <2>5. QED
        BY Zenon, <1>r, <2>1, <2>4 DEF RingInv
<1>2. ASSUME NEW p \in Proc, Fill(p) PROVE RingInv'
    <2>1. PICK a \in free : Took(p, a)
        BY Zenon, <1>2, FillData
    <2>2. a \in Desc /\ avail' = [avail EXCEPT ![availIdx % NUM] = a]
        BY Zenon, <2>1 DEF Took
    <2>3. \A q \in Proc : q # p => head'[q] = head[q]
        BY Zenon, <2>1 DEF Took
    <2>4. /\ \A i \in Desc : i # a => status'[i] = status[i]
          /\ \A i \in Desc : i # a => info'[i] = info[i]
        BY Zenon, <2>1 DEF Took
    <2>5. /\ pc[p] = "alloc" /\ availIdx' = availIdx
          /\ \A q \in Proc : q # p => pc'[q] = pc[q] /\ onDisk'[q] = onDisk[q]
        BY Zenon, <1>2, FillEffect
    <2>6. ASSUME NEW i, NEW s, Waiting(i, s) PROVE Waiting(i, s)'
        <3>1. i \in Desc /\ i \notin free /\ info[i] \in Proc /\ pc[info[i]] \in Within
            BY Zenon, <2>6, WaitingThread
        <3>2. info[i] # p
            BY Zenon, <2>5, <3>1 DEF Within
        <3>3. i # a
            BY Zenon, <2>1, <3>1
        <3>4. info'[i] = info[i] /\ status'[i] = status[i]
            BY Zenon, <2>4, <3>1, <3>3
        <3>5. head'[info[i]] = head[info[i]] /\ onDisk'[info[i]] = onDisk[info[i]] /\ pc'[info[i]] \in Within
            BY Zenon, <2>3, <2>5, <3>1, <3>2
        <3>6. QED
            BY Zenon, <2>6, <3>4, <3>5, StillWaiting
    <2>7. UNCHANGED <<used, usedEnd, usedIdx, taken, working>>
        BY Zenon, <1>2 DEF Fill
    <2>8. /\ Contents([avail EXCEPT ![availIdx % NUM] = a], taken, availIdx) = Contents(avail, taken, availIdx)
          /\ Distinct([avail EXCEPT ![availIdx % NUM] = a], taken, availIdx)
        <3>1. \A x \in Desc :
                 LET new == [avail EXCEPT ![availIdx % NUM] = x]
                 IN  /\ new \in [Desc -> Desc] /\ new[availIdx % NUM] = x
                     /\ Contents(new, taken, availIdx) = Contents(avail, taken, availIdx)
                     /\ Distinct(avail, taken, availIdx) => Distinct(new, taken, availIdx)
            BY Zenon, <1>r, <1>t, RingWrite
        <3>2. QED
            BY Zenon, <1>r, <2>2, <3>1
    <2>9. Posted' = Posted /\ Completed' = Completed /\ Distinct(avail', taken', availIdx')
        BY Zenon, <2>2, <2>5, <2>7, <2>8 DEF Posted, Completed
    <2>10. QED
        <3>1. Dist(taken', availIdx') < NUM /\ Dist(usedIdx', usedEnd') < NUM /\ Distinct(used', usedIdx', usedEnd')
            BY Zenon, <1>r, <2>5, <2>7
        <3>2. \A i \in Posted' : Waiting(i, 255)' /\ i \notin working'
            BY Zenon, <1>p, <2>6, <2>7, <2>9
        <3>3. /\ \A i \in working' : Waiting(i, 255)'
              /\ \A i \in Completed' : Waiting(i, 0)'
            BY Zenon, <1>w, <1>c, <2>6, <2>7, <2>9
        <3>4. QED
            BY Zenon, <2>9, <3>1, <3>2, <3>3 DEF RingInv
<1>3. ASSUME NEW p \in Proc, Submit(p) PROVE RingInv'
    <2>1. UNCHANGED <<head, status, onDisk, info, avail, used, usedEnd, usedIdx, taken, working>>
        BY Zenon, <1>3 DEF Submit, descVars
    <2>2. /\ pc[p] = "submit" /\ pc'[p] = "sleep_done" /\ \A q \in Proc : q # p => pc'[q] = pc[q]
        BY Zenon, <1>3, SubmitEffect
    <2>3. PICK h : h = head[p]
        BY Zenon
    <2>a. Busy(p) /\ onDisk[p] = 1 /\ status[h] = 255 /\ avail[availIdx % NUM] = h
        BY Zenon, <2>2, <2>3 DEF ThreadInv, ThreadOK
    <2>4. h \in Desc /\ info[h] = p
        <3>1. head[p] \in Desc /\ info[head[p]] = p
            BY Zenon, <2>a, BusyChain
        <3>2. QED
            BY Zenon, <2>3, <3>1
    <2>5. ASSUME NEW i, NEW s, Waiting(i, s) PROVE Waiting(i, s)' /\ i # h /\ i # next[h]
        <3>1. info[i] \in Proc /\ pc[info[i]] \in Within
            BY Zenon, <2>5, WaitingThread
        <3>2. info[i] # p
            BY Zenon, <2>2, <3>1 DEF Within
        <3>3. Waiting(i, s)'
            BY Zenon, <2>1, <2>2, <2>5, <3>1, <3>2, StillWaiting
        <3>4. i # head[p] /\ i # next[head[p]]
            <4>1. Busy(p)
                BY Zenon, <2>a
            <4>2. QED
                BY Zenon, <2>5, <3>2, <4>1, NoRequestInside
        <3>5. QED
            BY Zenon, <2>3, <3>3, <3>4
    <2>6. next[h] \in Desc /\ next[h] # h
        <3>1. next[head[p]] \in Desc /\ next[head[p]] # head[p]
            BY Zenon, <2>a, BusyChain
        <3>2. QED
            BY Zenon, <2>3, <3>1
    <2>7. h \notin Posted /\ next[h] \notin Posted /\ h \notin working
        BY Zenon, <1>p, <1>w, <2>5
    <2>8. Dist(taken, availIdx) < NUM - 1
        BY Zenon, <1>r, <1>t, <2>4, <2>6, <2>7, RingBound DEF Posted
    <2>9. /\ Contents(avail, taken, Inc(availIdx)) = Contents(avail, taken, availIdx) \cup {h}
          /\ Distinct(avail, taken, Inc(availIdx)) /\ Dist(taken, Inc(availIdx)) < NUM
        <3>1. avail[availIdx % NUM] \notin Contents(avail, taken, availIdx)
            BY Zenon, <2>a, <2>7 DEF Posted
        <3>2. /\ Contents(avail, taken, Inc(availIdx))
                  = Contents(avail, taken, availIdx) \cup {avail[availIdx % NUM]}
              /\ Distinct(avail, taken, Inc(availIdx)) /\ Dist(taken, Inc(availIdx)) < NUM
            BY Zenon, <1>r, <1>t, <2>8, <3>1, RingAdvance
        <3>3. QED
            BY Zenon, <2>a, <3>2
    <2>10. availIdx' = Inc(availIdx)
        BY Zenon, <1>3 DEF Submit
    <2>11. /\ Posted' = Posted \cup {h} /\ Completed' = Completed
           /\ Distinct(avail', taken', availIdx') /\ Dist(taken', availIdx') < NUM
        BY Zenon, <2>1, <2>9, <2>10 DEF Posted, Completed
    <2>12. Waiting(h, 255)'
        BY Zenon, <2>1, <2>2, <2>3, <2>a, <2>4 DEF Waiting
    <2>13. QED
        <3>1. Dist(usedIdx', usedEnd') < NUM /\ Distinct(used', usedIdx', usedEnd')
            BY Zenon, <1>r, <2>1
        <3>2. \A i \in Posted' : Waiting(i, 255)' /\ i \notin working'
            <4>1. \A i \in Posted : Waiting(i, 255)' /\ i \notin working'
                BY Zenon, <1>p, <2>1, <2>5
            <4>2. h \notin working'
                BY Zenon, <2>1, <2>7
            <4>3. QED
                BY Zenon, <2>11, <2>12, <4>1, <4>2
        <3>3. /\ \A i \in working' : Waiting(i, 255)'
              /\ \A i \in Completed' : Waiting(i, 0)'
            BY Zenon, <1>w, <1>c, <2>1, <2>5, <2>11
        <3>4. QED
            BY Zenon, <2>11, <3>1, <3>2, <3>3 DEF RingInv
<1>4. ASSUME NEW p \in Proc, Finish(p) PROVE RingInv'
    <2>1. UNCHANGED <<status, onDisk, avail, availIdx, used, usedEnd, usedIdx, taken, working>>
        BY Zenon, <1>4 DEF Finish, ringVars
    <2>2. /\ pc[p] = "check" /\ onDisk[p] = 0
          /\ \A q \in Proc : q # p =>
                head'[q] = head[q] /\ (pc'[q] = pc[q] \/ (pc[q] = "sleep_free" /\ pc'[q] = "alloc"))
        BY Zenon, <1>4, FinishEffect
    <2>3. Busy(p)
        BY Zenon, <2>2 DEF ThreadInv, ThreadOK
    <2>4. \A i \in Desc : i # head[p] => info'[i] = info[i]
        <3>1. info' = [info EXCEPT ![head[p]] = NoProc] /\ info \in [Desc -> Proc \cup {NoProc}]
            BY Zenon, <1>4 DEF Finish, TypeOK
        <3>2. QED
            BY Zenon, <3>1
    <2>5. ASSUME NEW i, NEW s, Waiting(i, s) PROVE Waiting(i, s)'
        <3>1. i \in Desc /\ info[i] \in Proc /\ pc[info[i]] \in Within /\ onDisk[info[i]] = 1
            BY Zenon, <2>5, WaitingThread
        <3>2. info[i] # p
            <4>1. 0 # 1
                OBVIOUS
            <4>2. QED
                BY Zenon, <2>2, <3>1, <4>1
        <3>3. i # head[p]
            BY Zenon, <2>3, <2>5, <3>2, NoRequestInside
        <3>4. head'[info[i]] = head[info[i]] /\ pc'[info[i]] = pc[info[i]]
            BY Zenon, <2>2, <3>1, <3>2 DEF Within
        <3>5. QED
            BY Zenon, <2>1, <2>4, <2>5, <3>1, <3>3, <3>4, StillWaiting
    <2>6. Posted' = Posted /\ Completed' = Completed
        BY Zenon, <2>1 DEF Posted, Completed
    <2>7. QED
        <3>0. \A j \in Posted' : Waiting(j, 255)' /\ j \notin working'
            <4>1. ASSUME NEW j \in Posted PROVE Waiting(j, 255)' /\ j \notin working'
                BY Zenon, <1>p, <2>1, <2>5, <2>6, <4>1
            <4>2. QED
                BY Zenon, <4>1, <2>6
        <3>1. \A j \in working' : Waiting(j, 255)'
            BY Zenon, <1>w, <2>1, <2>5, <2>6
        <3>2. \A j \in Completed' : Waiting(j, 0)'
            BY Zenon, <1>c, <2>5, <2>6
        <3>3. Dist(taken', availIdx') < NUM /\ Distinct(avail', taken', availIdx')
            BY Zenon, <1>r, <2>1
        <3>4. Dist(usedIdx', usedEnd') < NUM /\ Distinct(used', usedIdx', usedEnd')
            BY Zenon, <1>r, <2>1
        <3>5. QED
            BY Zenon, <3>0, <3>1, <3>2, <3>3, <3>4 DEF RingInv
<1>5. CASE IntrEntry
    <2>1. PICK b \in Proc :
               /\ used[usedIdx % NUM] \in Completed /\ head[b] = used[usedIdx % NUM] /\ head[b] \in Desc
               /\ status[head[b]] = 0
               /\ \A q \in Proc : q # b => pc'[q] = pc[q] /\ onDisk'[q] = onDisk[q]
        BY Zenon, <1>5, IntrEffect
    <2>2. UNCHANGED <<head, status, info, avail, availIdx, usedEnd, taken, working>>
        BY Zenon, <1>5 DEF IntrEntry, descVars
    <2>3. PICK h : h = head[b]
        BY Zenon
    <2>4. ASSUME NEW i, NEW s, Waiting(i, s), i # h PROVE Waiting(i, s)'
        <3>1. info[i] \in Proc /\ head[info[i]] = i /\ pc[info[i]] \in Within
            BY Zenon, <2>4, WaitingThread
        <3>2. info[i] # b
            BY Zenon, <2>3, <2>4, <3>1
        <3>3. QED
            BY Zenon, <2>1, <2>2, <2>4, <3>1, <3>2, StillWaiting
    <2>5. \A i : Waiting(i, 255) => i # h
        BY Zenon, <1>n, <2>1, <2>3 DEF Waiting
    <2>6. usedIdx # usedEnd /\ used' = [used EXCEPT ![usedIdx % NUM] = 0] /\ usedIdx' = Inc(usedIdx)
        BY Zenon, <1>5 DEF IntrEntry
    <2>7. /\ Contents([used EXCEPT ![usedIdx % NUM] = 0], Inc(usedIdx), usedEnd)
                = Contents(used, usedIdx, usedEnd) \ {used[usedIdx % NUM]}
          /\ Distinct([used EXCEPT ![usedIdx % NUM] = 0], Inc(usedIdx), usedEnd)
          /\ Dist(Inc(usedIdx), usedEnd) < NUM
        BY Zenon, <1>r, <1>t, <2>6, RingTake
    <2>8. /\ Completed' = Completed \ {h} /\ Posted' = Posted
          /\ Distinct(used', usedIdx', usedEnd') /\ Dist(usedIdx', usedEnd') < NUM
        BY Zenon, <2>1, <2>2, <2>3, <2>6, <2>7 DEF Posted, Completed
    <2>9. QED
        <3>0. \A j \in Posted' : Waiting(j, 255)' /\ j \notin working'
            <4>1. ASSUME NEW j \in Posted PROVE Waiting(j, 255)' /\ j \notin working'
                BY Zenon, <1>p, <2>2, <2>4, <2>5, <2>8, <4>1
            <4>2. QED
                BY Zenon, <4>1, <2>8
        <3>1. \A j \in working' : Waiting(j, 255)'
            BY Zenon, <1>w, <2>2, <2>4, <2>5, <2>8
        <3>2. \A j \in Completed' : Waiting(j, 0)'
            BY Zenon, <1>c, <2>4, <2>5, <2>8
        <3>3. Dist(taken', availIdx') < NUM /\ Distinct(avail', taken', availIdx')
            BY Zenon, <1>r, <2>2
        <3>5. QED
            BY Zenon, <3>0, <3>1, <3>2, <3>3, <2>8 DEF RingInv
<1>6. CASE DeviceTake
    <2>1. UNCHANGED <<head, status, info, onDisk, pc, availIdx, used, usedEnd, usedIdx>>
        BY Zenon, <1>6 DEF DeviceTake, descVars
    <2>2. PICK h : h = avail[taken % NUM]
        BY Zenon
    <2>3. /\ taken # availIdx /\ working' = working \cup {h}
          /\ avail' = [avail EXCEPT ![taken % NUM] = 0] /\ taken' = Inc(taken)
        BY Zenon, <1>6, <2>2 DEF DeviceTake
    <2>4. ASSUME NEW i, NEW s, Waiting(i, s) PROVE Waiting(i, s)'
        BY Zenon, <2>1, <2>4 DEF Waiting
    <2>5. /\ Contents([avail EXCEPT ![taken % NUM] = 0], Inc(taken), availIdx)
                = Contents(avail, taken, availIdx) \ {avail[taken % NUM]}
          /\ Distinct([avail EXCEPT ![taken % NUM] = 0], Inc(taken), availIdx)
          /\ Dist(Inc(taken), availIdx) < NUM
          /\ avail[taken % NUM] \in Contents(avail, taken, availIdx)
        BY Zenon, <1>r, <1>t, <2>3, RingTake
    <2>6. /\ Posted' = Posted \ {h} /\ h \in Posted /\ Completed' = Completed
          /\ Distinct(avail', taken', availIdx') /\ Dist(taken', availIdx') < NUM
        BY Zenon, <2>1, <2>2, <2>3, <2>5 DEF Posted, Completed
    <2>7. QED
        <3>1. /\ Dist(usedIdx', usedEnd') < NUM /\ Distinct(used', usedIdx', usedEnd')
              /\ \A i \in Completed' : Waiting(i, 0)'
            BY Zenon, <1>r, <1>c, <2>1, <2>4, <2>6
        <3>2. \A i \in Posted' : Waiting(i, 255)' /\ i \notin working'
            BY Zenon, <1>p, <2>3, <2>4, <2>6
        <3>3. \A i \in working' : Waiting(i, 255)'
            <4>1. Waiting(h, 255)'
                BY Zenon, <1>p, <2>4, <2>6
            <4>2. \A i \in working : Waiting(i, 255)'
                BY Zenon, <1>w, <2>4
            <4>3. QED
                BY Zenon, <2>3, <4>1, <4>2
        <3>4. QED
            BY Zenon, <2>6, <3>1, <3>2, <3>3 DEF RingInv
<1>7. ASSUME NEW i \in Desc, DeviceFinish(i) PROVE RingInv'
    <2>1. UNCHANGED <<head, onDisk, info, pc, avail, availIdx, usedIdx, taken>>
        BY Zenon, <1>7 DEF DeviceFinish, descVars
    <2>2. /\ i \in working /\ working' = working \ {i} /\ usedEnd' = Inc(usedEnd)
          /\ used' = [used EXCEPT ![usedEnd % NUM] = i]
        BY Zenon, <1>7 DEF DeviceFinish
    <2>3. status'[i] = 0 /\ \A j \in Desc : j # i => status'[j] = status[j]
        <3>1. status \in [Desc -> {0, 255}] /\ status' = [status EXCEPT ![i] = 0]
            BY Zenon, <1>7 DEF DeviceFinish, TypeOK
        <3>2. QED
            BY <3>1
    <2>4. Waiting(i, 255)
        BY Zenon, <1>w, <2>2
    <2>5. PICK p \in Proc : p = info[i] /\ Busy(p) /\ head[p] = i
        <3>1. info[i] \in Proc /\ head[info[i]] = i
            BY Zenon, <2>4 DEF Waiting
        <3>2. i # NoDesc
            BY SizeAssumption DEF Desc, NoDesc
        <3>3. QED
            BY Zenon, <3>1, <3>2 DEF Busy
    <2>6. ASSUME NEW j, NEW s, Waiting(j, s) PROVE j # next[i] /\ (j # i => Waiting(j, s)')
        <3>1. j # next[i]
            BY Zenon, <2>5, <2>6, NoRequestInside
        <3>2. ASSUME j # i PROVE Waiting(j, s)'
            <4>1. j \in Desc /\ pc[info[j]] \in Within
                BY Zenon, <2>6, WaitingThread
            <4>2. QED
                BY Zenon, <2>1, <2>3, <2>6, <3>2, <4>1, StillWaiting
        <3>3. QED
            BY Zenon, <3>1, <3>2
    <2>7. i \notin Completed /\ next[i] \notin Completed /\ i \notin Posted
        <3>1. ~Waiting(i, 0)
            BY Zenon, <1>n, <2>4 DEF Waiting
        <3>2. QED
            BY Zenon, <1>p, <1>c, <2>2, <2>6, <3>1
    <2>8. next[i] \in Desc /\ next[i] # i
        BY Zenon, <2>5, BusyChain
    <2>9. Dist(usedIdx, usedEnd) < NUM - 1
        BY Zenon, <1>r, <1>t, <2>7, <2>8, RingBound DEF Completed
    <2>10. PICK u : u = [used EXCEPT ![usedEnd % NUM] = i]
        BY Zenon
    <2>11. /\ u \in [Desc -> Desc] /\ u[usedEnd % NUM] = i /\ Distinct(u, usedIdx, usedEnd)
           /\ Contents(u, usedIdx, usedEnd) = Completed
        <3>1. \A x \in Desc :
                 LET new == [used EXCEPT ![usedEnd % NUM] = x]
                 IN  /\ new \in [Desc -> Desc] /\ new[usedEnd % NUM] = x
                     /\ Contents(new, usedIdx, usedEnd) = Contents(used, usedIdx, usedEnd)
                     /\ Distinct(used, usedIdx, usedEnd) => Distinct(new, usedIdx, usedEnd)
            BY Zenon, <1>r, <1>t, RingWrite
        <3>2. QED
            BY Zenon, <1>r, <2>2, <2>10, <3>1 DEF Completed
    <2>12. /\ Contents(u, usedIdx, Inc(usedEnd)) = Contents(u, usedIdx, usedEnd) \cup {i}
           /\ Distinct(u, usedIdx, Inc(usedEnd)) /\ Dist(usedIdx, Inc(usedEnd)) < NUM
        BY Zenon, <1>t, <2>7, <2>9, <2>11, RingAdvance
    <2>13. /\ Completed' = Completed \cup {i} /\ Posted' = Posted
           /\ Distinct(used', usedIdx', usedEnd') /\ Dist(usedIdx', usedEnd') < NUM
        BY Zenon, <2>1, <2>2, <2>10, <2>11, <2>12 DEF Posted, Completed
    <2>14. Waiting(i, 0)'
        BY Zenon, <2>1, <2>3, <2>4 DEF Waiting
    <2>15. QED
        <3>0. \A j \in Posted' : Waiting(j, 255)' /\ j \notin working'
            <4>1. ASSUME NEW j \in Posted PROVE Waiting(j, 255)' /\ j \notin working'
                BY Zenon, <1>p, <2>2, <2>6, <2>7, <2>13, <4>1
            <4>2. QED
                BY Zenon, <4>1, <2>13
        <3>1. \A j \in working' : Waiting(j, 255)'
            BY Zenon, <1>w, <2>2, <2>6, <2>7, <2>13
        <3>2. \A j \in Completed' : Waiting(j, 0)'
            BY Zenon, <1>c, <2>6, <2>7, <2>13, <2>14
        <3>3. Dist(taken', availIdx') < NUM /\ Distinct(avail', taken', availIdx')
            BY Zenon, <1>r, <2>1
        <3>5. QED
            BY Zenon, <3>0, <3>1, <3>2, <3>3, <2>13 DEF RingInv
<1>8. QED
    BY Zenon, <1>1, <1>2, <1>3, <1>4, <1>5, <1>6, <1>7, QuietSteps

(* The handler is asked for, or runs, as long as it has something to see.  *)
Asked == usedIdx # usedEnd => irq = 1 \/ lock = Intr

LEMMA AskedStep ==
    ASSUME LockInv, Asked, [Next]_vars
    PROVE  Asked'
<1>0. CASE UNCHANGED vars
    BY Zenon, <1>0 DEF vars, ringVars, Asked
<1>1. ASSUME NEW p \in Proc, NEW o \in {"read", "write"}, NEW v \in Value, Call(p, o, v) PROVE Asked'
    BY Zenon, <1>1 DEF Call, ringVars, Asked
<1>2. ASSUME NEW p \in Proc, Fill(p) PROVE Asked'
    BY Zenon, <1>2, ProcAssumption DEF Fill, Asked
<1>3. ASSUME NEW p \in Proc, AllocFails(p) PROVE Asked'
    BY Zenon, <1>3 DEF AllocFails, ringVars, Asked
<1>4. ASSUME NEW p \in Proc, Submit(p) PROVE Asked'
    <2>1. lock # Intr
        BY Zenon, <1>4, ProcAssumption DEF Submit, LockInv
    <2>2. QED
        BY Zenon, <1>4, <2>1 DEF Submit, Asked
<1>5. ASSUME NEW p \in Proc, SleepAgain(p) PROVE Asked'
    BY Zenon, <1>5 DEF SleepAgain, ringVars, Asked
<1>6. ASSUME NEW p \in Proc, Finish(p) PROVE Asked'
    BY Zenon, <1>6 DEF Finish, ringVars, Asked
<1>7. ASSUME NEW p \in Proc, Kill(p) PROVE Asked'
    BY Zenon, <1>7 DEF Kill, ringVars, Asked
<1>8. CASE IntrAck
    BY Zenon, <1>8 DEF IntrAck, Asked
<1>9. CASE IntrEntry
    BY Zenon, <1>9 DEF IntrEntry, Asked
<1>10. CASE IntrReturn
    BY Zenon, <1>10 DEF IntrReturn, ringVars, Asked
<1>11. CASE DeviceTake
    BY Zenon, <1>11 DEF DeviceTake, Asked
<1>12. ASSUME NEW i \in Desc, DeviceFinish(i) PROVE Asked'
    BY Zenon, <1>12 DEF DeviceFinish, Asked
<1>13. QED
    BY Zenon, <1>0, <1>1, <1>2, <1>3, <1>4, <1>5, <1>6, <1>7, <1>8, <1>9, <1>10, <1>11, <1>12
       DEF Next, Rw, Handler, Device

(* Nobody sleeps for a transfer whose completion the handler has seen.     *)
Noticed == \A q \in Proc : pc[q] = "sleep_done" => onDisk[q] = 1

LEMMA NoticedStep ==
    ASSUME TypeOK, ThreadInv, LockInv, RingInv, Noticed, [Next]_vars
    PROVE  Noticed'
<1>a. pc \in [Proc -> {"idle", "alloc", "sleep_free", "submit", "sleep_done", "check"}]
    BY Zenon DEF TypeOK
<1>0. CASE UNCHANGED vars
    BY Zenon, <1>0 DEF vars, Noticed
<1>1. ASSUME NEW p \in Proc, NEW o \in {"read", "write"}, NEW v \in Value, Call(p, o, v) PROVE Noticed'
    BY Zenon, <1>1, <1>a DEF Call, Go, Noticed
<1>2. ASSUME NEW p \in Proc, Fill(p) PROVE Noticed'
    <2>1. /\ pc'[p] = "submit"
          /\ \A q \in Proc : q # p => pc'[q] = pc[q] /\ onDisk'[q] = onDisk[q]
        BY Zenon, <1>2, FillEffect
    <2>2. QED
        BY Zenon, <2>1 DEF Noticed
<1>3. ASSUME NEW p \in Proc, AllocFails(p) PROVE Noticed'
    BY Zenon, <1>3 DEF AllocFails, WakeFree, Noticed
<1>4. ASSUME NEW p \in Proc, Submit(p) PROVE Noticed'
    <2>1. pc[p] = "submit" /\ \A q \in Proc : q # p => pc'[q] = pc[q]
        BY Zenon, <1>4, SubmitEffect
    <2>2. onDisk[p] = 1
        BY Zenon, <2>1 DEF ThreadInv, ThreadOK
    <2>3. onDisk' = onDisk
        BY Zenon, <1>4 DEF Submit
    <2>4. QED
        BY Zenon, <2>1, <2>2, <2>3 DEF Noticed
<1>5. ASSUME NEW p \in Proc, SleepAgain(p) PROVE Noticed'
    BY Zenon, <1>5, <1>a DEF SleepAgain, Go, Noticed
<1>6. ASSUME NEW p \in Proc, Finish(p) PROVE Noticed'
    BY Zenon, <1>6 DEF Finish, WakeFree, Noticed
<1>7. ASSUME NEW p \in Proc, Kill(p) PROVE Noticed'
    <2>1. PICK l \in {"check", "alloc"} : pc' = [pc EXCEPT ![p] = l]
        BY Zenon, <1>7 DEF Kill, Go
    <2>2. onDisk' = onDisk
        BY Zenon, <1>7 DEF Kill
    <2>3. \A q \in Proc : pc'[q] = "sleep_done" => pc[q] = "sleep_done"
        BY Zenon, <1>a, <2>1
    <2>4. QED
        BY Zenon, <2>2, <2>3 DEF Noticed
<1>8. CASE IntrAck
    BY Zenon, <1>8 DEF IntrAck, Noticed
<1>9. CASE IntrEntry
    <2>1. PICK b \in Proc :
             /\ pc'[b] = "check"
             /\ \A q \in Proc : q # b => pc'[q] = pc[q] /\ onDisk'[q] = onDisk[q]
        BY Zenon, <1>9, IntrEffect
    <2>2. QED
        BY Zenon, <2>1 DEF Noticed
<1>10. CASE IntrReturn
    BY Zenon, <1>10 DEF IntrReturn, Noticed
<1>11. CASE DeviceTake
    BY Zenon, <1>11 DEF DeviceTake, Noticed
<1>12. ASSUME NEW i \in Desc, DeviceFinish(i) PROVE Noticed'
    BY Zenon, <1>12 DEF DeviceFinish, Noticed
<1>13. QED
    BY Zenon, <1>0, <1>1, <1>2, <1>3, <1>4, <1>5, <1>6, <1>7, <1>8, <1>9, <1>10, <1>11, <1>12
       DEF Next, Rw, Handler, Device

LEMMA FreeShrinks ==
    ASSUME TypeOK, NEW p \in Proc, Fill(p), Cardinality(free) < 3
    PROVE  Cardinality(free') < 3
<1>1. free \subseteq Desc /\ free' \subseteq free
    BY Zenon DEF TypeOK, Fill
<1>2. IsFiniteSet(Desc)
    BY SizeAssumption, FS_Interval DEF Desc
<1>3. IsFiniteSet(free)
    BY Zenon, <1>1, <1>2, FS_Subset
<1>4. IsFiniteSet(free') /\ Cardinality(free') <= Cardinality(free)
    BY Zenon, <1>1, <1>3, FS_Subset
<1>5. Cardinality(free) \in Nat /\ Cardinality(free') \in Nat
    BY Zenon, <1>3, <1>4, FS_CardinalityType
<1>6. QED
    BY <1>4, <1>5

(* Whoever sleeps for descriptors is woken when they become enough.        *)
LEMMA DescriptorStep ==
    ASSUME TypeOK, LockInv, NoLostDescriptors, [Next]_vars
    PROVE  NoLostDescriptors'
<1>a. pc \in [Proc -> {"idle", "alloc", "sleep_free", "submit", "sleep_done", "check"}]
    BY Zenon DEF TypeOK
<1>0. CASE UNCHANGED vars
    BY Zenon, <1>0 DEF vars, descVars, NoLostDescriptors
<1>1. ASSUME NEW p \in Proc, NEW o \in {"read", "write"}, NEW v \in Value, Call(p, o, v)
      PROVE  NoLostDescriptors'
    BY Zenon, <1>1, <1>a DEF Call, Go, descVars, NoLostDescriptors
<1>2. ASSUME NEW p \in Proc, Fill(p) PROVE NoLostDescriptors'
    <2>1. pc'[p] = "submit" /\ \A q \in Proc : q # p => pc'[q] = pc[q]
        BY Zenon, <1>2, FillEffect
    <2>2. Cardinality(free) < 3 => Cardinality(free') < 3
        BY Zenon, <1>2, FreeShrinks
    <2>3. QED
        BY Zenon, <2>1, <2>2 DEF NoLostDescriptors
<1>3. ASSUME NEW p \in Proc, AllocFails(p) PROVE NoLostDescriptors'
    BY Zenon, <1>3 DEF AllocFails, descVars, NoLostDescriptors
<1>4. ASSUME NEW p \in Proc, Submit(p) PROVE NoLostDescriptors'
    BY Zenon, <1>4, <1>a DEF Submit, Go, descVars, NoLostDescriptors
<1>5. ASSUME NEW p \in Proc, SleepAgain(p) PROVE NoLostDescriptors'
    BY Zenon, <1>5, <1>a DEF SleepAgain, Go, descVars, NoLostDescriptors
<1>6. ASSUME NEW p \in Proc, Finish(p) PROVE NoLostDescriptors'
    BY Zenon, <1>6 DEF Finish, WakeFree, NoLostDescriptors
<1>7. ASSUME NEW p \in Proc, Kill(p) PROVE NoLostDescriptors'
    <2>1. PICK l \in {"check", "alloc"} : pc' = [pc EXCEPT ![p] = l]
        BY Zenon, <1>7 DEF Kill, Go
    <2>2. free' = free
        BY Zenon, <1>7 DEF Kill, descVars
    <2>3. \A q \in Proc : pc'[q] = "sleep_free" => pc[q] = "sleep_free"
        BY Zenon, <1>a, <2>1
    <2>4. QED
        BY Zenon, <2>2, <2>3 DEF NoLostDescriptors
<1>8. CASE IntrAck
    BY Zenon, <1>8 DEF IntrAck, descVars, NoLostDescriptors
<1>9. CASE IntrEntry
    <2>1. free' = free
        BY Zenon, <1>9 DEF IntrEntry, descVars
    <2>2. \A q \in Proc : pc'[q] = "sleep_free" => pc[q] = "sleep_free"
        BY Zenon, <1>9 DEF IntrEntry
    <2>3. QED
        BY Zenon, <2>1, <2>2 DEF NoLostDescriptors
<1>10. CASE IntrReturn
    BY Zenon, <1>10 DEF IntrReturn, descVars, NoLostDescriptors
<1>11. CASE DeviceTake
    BY Zenon, <1>11 DEF DeviceTake, descVars, NoLostDescriptors
<1>12. ASSUME NEW i \in Desc, DeviceFinish(i) PROVE NoLostDescriptors'
    BY Zenon, <1>12 DEF DeviceFinish, descVars, NoLostDescriptors
<1>13. QED
    BY Zenon, <1>0, <1>1, <1>2, <1>3, <1>4, <1>5, <1>6, <1>7, <1>8, <1>9, <1>10, <1>11, <1>12
       DEF Next, Rw, Handler, Device

LEMMA InitDisk == Init => DiskInv
<1> SUFFICES ASSUME Init PROVE DiskInv
    BY Zenon
<1>0. NUM \in Nat /\ 0 \in Desc /\ 0 \in 0 .. IDX - 1 /\ 0 \in 0 .. 1 /\ NUM > 0
    BY SizeAssumption DEF Desc
<1>1. TypeOK
    BY Zenon, <1>0, ValueAssumption DEF Init, TypeOK
<1>2. \A p \in Proc : pc[p] = "idle" /\ head[p] = NoDesc
    BY Zenon DEF Init
<1>3. ThreadInv
    BY Zenon, <1>2 DEF ThreadInv, ThreadOK, Busy
<1>4. LockInv
    BY Zenon, <1>2, ProcAssumption DEF Init, LockInv
<1>5. ChainInv
    BY Zenon, <1>2 DEF Init, ChainInv, Busy
<1>6. Dist(0, 0) = 0 /\ 0 .. 0 - 1 = {}
    BY DEF Dist
<1>7. RingInv
    <2>1. Posted = {} /\ Completed = {} /\ working = {}
        BY Zenon, <1>6 DEF Init, Posted, Completed, Contents
    <2>2. Distinct(avail, taken, availIdx) /\ Distinct(used, usedIdx, usedEnd)
        BY Zenon, <1>6 DEF Init, Distinct
    <2>3. Dist(taken, availIdx) < NUM /\ Dist(usedIdx, usedEnd) < NUM
        BY Zenon, <1>0, <1>6 DEF Init
    <2>4. QED
        BY Zenon, <2>1, <2>2, <2>3 DEF RingInv
<1>8. NoLostCompletion /\ NoLostDescriptors
    BY Zenon, <1>2 DEF Init, NoLostCompletion, NoLostDescriptors
<1>9. QED
    BY Zenon, <1>1, <1>3, <1>4, <1>5, <1>7, <1>8 DEF DiskInv

LEMMA DiskStep == DiskInv /\ [Next]_vars => DiskInv'
<1> SUFFICES ASSUME DiskInv, [Next]_vars PROVE DiskInv'
    BY Zenon
<1>1. TypeOK /\ ThreadInv /\ LockInv /\ ChainInv /\ RingInv /\ NoLostDescriptors
    BY Zenon DEF DiskInv
<1>2. Asked /\ Noticed
    BY Zenon DEF DiskInv, NoLostCompletion, Asked, Noticed
<1>3. TypeOK' /\ LockInv' /\ ChainInv'
    BY Zenon, <1>1, TypeStep, LockStep, ChainStep
<1>4. ThreadInv' /\ RingInv'
    BY Zenon, <1>1, ThreadStep, RingStep
<1>5. Asked' /\ Noticed' /\ NoLostDescriptors'
    BY Zenon, <1>1, <1>2, AskedStep, NoticedStep, DescriptorStep
<1>6. NoLostCompletion'
    BY Zenon, <1>5 DEF NoLostCompletion, Asked, Noticed
<1>7. QED
    BY Zenon, <1>3, <1>4, <1>5, <1>6 DEF DiskInv

LEMMA DiskAlways == Spec => []DiskInv
    BY InitDisk, DiskStep, PTL DEF Spec

-----------------------------------------------------------------------------
(* The indices of the rings stay below their wrap-around and the driver    *)
(* only handles descriptors of the table.                                  *)
THEOREM TypeCorrect == Spec => []TypeOK
<1>1. DiskInv => TypeOK
    BY Zenon DEF DiskInv
<1>2. QED
    BY <1>1, DiskAlways, PTL

LEMMA OwnedNow == DiskInv => DescriptorsOwned
<1> SUFFICES ASSUME DiskInv PROVE DescriptorsOwned
    BY Zenon
<1>1. TypeOK /\ ChainInv /\ RingInv
    BY Zenon DEF DiskInv
<1>2. \A i : \A s : Waiting(i, s) => info[i] # NoProc
    BY Zenon, ProcAssumption DEF Waiting
<1>3. \A i \in working : info[i] # NoProc
    BY Zenon, <1>1, <1>2 DEF RingInv
<1>4. ASSUME usedIdx # usedEnd PROVE info[used[usedIdx % NUM]] # NoProc
    <2>1. usedIdx \in Index /\ usedEnd \in Index /\ used \in [Desc -> Desc]
        BY Zenon, <1>1 DEF TypeOK, Index
    <2>2. Dist(usedIdx, usedEnd) < NUM /\ Distinct(used, usedIdx, usedEnd)
        BY Zenon, <1>1 DEF RingInv
    <2>3. used[usedIdx % NUM] \in Completed
        BY Zenon, <1>4, <2>1, <2>2, RingTake DEF Completed
    <2>4. QED
        BY Zenon, <1>1, <1>2, <2>3 DEF RingInv
<1>5. QED
    BY Zenon, <1>1, <1>3, <1>4 DEF ChainInv, DescriptorsOwned

(* free_desc() is never given a descriptor that is free, no two requests   *)
(* share one, none is lost, and the handler finds the buffer of every      *)
(* completion, for any number of threads and descriptors.                  *)
THEOREM DescriptorsSafe == Spec => []DescriptorsOwned
    BY OwnedNow, DiskAlways, PTL

(* A completion that the handler has not seen keeps the interrupt pending  *)
(* or the handler running, and no thread sleeps in virtio_disk_rw() after  *)
(* b->disk was cleared.                                                    *)
THEOREM CompletionsSeen == Spec => []NoLostCompletion
<1>1. DiskInv => NoLostCompletion
    BY Zenon DEF DiskInv
<1>2. QED
    BY <1>1, DiskAlways, PTL

(* No thread sleeps on disk.free[0] while three descriptors are free.      *)
THEOREM DescriptorsSeen == Spec => []NoLostDescriptors
<1>1. DiskInv => NoLostDescriptors
    BY Zenon DEF DiskInv
<1>2. QED
    BY <1>1, DiskAlways, PTL

-----------------------------------------------------------------------------
(* The request of one thread, as SyncDisk sees it.                         *)
ReqOf(q) == IF pc[q] = "idle" THEN "idle"
            ELSE IF Busy(q) /\ status[head[q]] = 0 THEN "done"
            ELSE op[q]

LEMMA ReqForm == Req = [q \in Proc |-> ReqOf(q)]
    BY Zenon DEF Req, ReqOf, Busy

LEMMA ReqNext == Req' = [q \in Proc |-> ReqOf(q)']
    BY Zenon DEF Req, ReqOf, Busy

LEMMA ReqSame ==
    ASSUME \A q \in Proc : ReqOf(q)' = ReqOf(q)
    PROVE  Req' = Req
    BY Zenon, ReqForm, ReqNext

LEMMA ReqChange ==
    ASSUME NEW p \in Proc, NEW v, ReqOf(p)' = v, \A q \in Proc : q # p => ReqOf(q)' = ReqOf(q)
    PROVE  Req' = [Req EXCEPT ![p] = v]
    BY Zenon, ReqForm, ReqNext

(* Nothing changes for a thread with the same request, op and status.      *)
LEMMA SameReq ==
    ASSUME NEW q \in Proc, pc'[q] = "idle" <=> pc[q] = "idle", op'[q] = op[q], head'[q] = head[q],
           Busy(q) => status'[head[q]] = status[head[q]]
    PROVE  ReqOf(q)' = ReqOf(q)
    BY Zenon DEF ReqOf, Busy

LEMMA OthersStutter ==
    ASSUME disk' = disk, data' = data, status' = status, head' = head, op' = op,
           \A q \in Proc : pc'[q] = "idle" <=> pc[q] = "idle"
    PROVE  UNCHANGED SD!vars
<1>1. \A q \in Proc : ReqOf(q)' = ReqOf(q)
    BY Zenon, SameReq
<1>2. Req' = Req
    BY Zenon, <1>1, ReqSame
<1>3. QED
    BY Zenon, <1>2 DEF SD!vars

LEMMA FillStutters ==
    ASSUME DiskInv, NEW p \in Proc, Fill(p)
    PROVE  UNCHANGED SD!vars
<1>0. TypeOK /\ ThreadInv /\ LockInv /\ ChainInv
    BY Zenon DEF DiskInv
<1>1. disk' = disk /\ data' = data /\ op' = op
    BY Zenon DEF Fill
<1>2. pc[p] = "alloc" /\ pc'[p] = "submit" /\ \A q \in Proc : q # p => pc'[q] = pc[q]
    BY Zenon, <1>0, FillEffect
<1>3. PICK a \in free : Took(p, a)
    BY Zenon, <1>0, FillData
<1>4. ReqOf(p)' = ReqOf(p)
    <2>1. ~Busy(p)
        BY Zenon, <1>0, <1>2 DEF ThreadInv, ThreadOK
    <2>2. status'[head'[p]] = 255
        BY Zenon, <1>3 DEF Took
    <2>3. 255 # 0
        OBVIOUS
    <2>4. QED
        BY Zenon, <1>1, <1>2, <2>1, <2>2, <2>3 DEF ReqOf
<1>5. ASSUME NEW q \in Proc, q # p PROVE ReqOf(q)' = ReqOf(q)
    <2>1. head'[q] = head[q] /\ pc'[q] = pc[q] /\ op'[q] = op[q]
        BY Zenon, <1>1, <1>2, <1>3, <1>5 DEF Took
    <2>2. ASSUME Busy(q) PROVE status'[head[q]] = status[head[q]]
        <3>1. head[q] \in Desc /\ head[q] \notin free
            BY Zenon, <1>0, <2>2, BusyChain
        <3>2. QED
            BY Zenon, <1>3, <3>1 DEF Took
    <2>3. QED
        BY Zenon, <2>1, <2>2, SameReq
<1>6. Req' = Req
    BY Zenon, <1>4, <1>5, ReqSame
<1>7. QED
    BY Zenon, <1>1, <1>6 DEF SD!vars

LEMMA CallRefines ==
    ASSUME DiskInv, NEW p \in Proc, NEW o \in {"read", "write"}, NEW v \in Value, Call(p, o, v)
    PROVE  SD!Call(p, o, v)
<1>0. TypeOK /\ ThreadInv
    BY Zenon DEF DiskInv
<1>1. /\ pc[p] = "idle" /\ pc' = [pc EXCEPT ![p] = "alloc"] /\ op' = [op EXCEPT ![p] = o]
      /\ data' = [data EXCEPT ![p] = v] /\ disk' = disk /\ head' = head /\ status' = status
    BY Zenon DEF Call, Go
<1>2. pc'[p] = "alloc" /\ \A q \in Proc : q # p => pc'[q] = pc[q]
    BY Zenon, <1>0, <1>1 DEF TypeOK
<1>3. op'[p] = o /\ \A q \in Proc : q # p => op'[q] = op[q]
    BY Zenon, <1>0, <1>1 DEF TypeOK
<1>4. ~Busy(p)
    BY Zenon, <1>0, <1>1 DEF ThreadInv, ThreadOK
<1>5. ReqOf(p) = "idle" /\ ReqOf(p)' = o
    BY Zenon, <1>1, <1>2, <1>3, <1>4 DEF ReqOf, Busy
<1>6. ASSUME NEW q \in Proc, q # p PROVE ReqOf(q)' = ReqOf(q)
    <2>1. /\ pc'[q] = "idle" <=> pc[q] = "idle"
          /\ op'[q] = op[q] /\ head'[q] = head[q] /\ status'[head[q]] = status[head[q]]
        BY Zenon, <1>1, <1>2, <1>3, <1>6
    <2>2. QED
        BY Zenon, <2>1, SameReq
<1>7. Req' = [Req EXCEPT ![p] = o]
    BY Zenon, <1>5, <1>6, ReqChange
<1>8. Req[p] = "idle"
    BY Zenon, <1>5, ReqForm
<1>9. QED
    BY Zenon, <1>1, <1>7, <1>8 DEF SD!Call

LEMMA FinishRefines ==
    ASSUME DiskInv, NEW p \in Proc, Finish(p)
    PROVE  SD!Return(p)
<1>0. TypeOK /\ ThreadInv
    BY Zenon DEF DiskInv
<1>1. op' = [op EXCEPT ![p] = "read"] /\ status' = status /\ disk' = disk /\ data' = data
    BY Zenon DEF Finish
<1>2. /\ pc[p] = "check" /\ onDisk[p] = 0 /\ pc'[p] = "idle"
      /\ \A q \in Proc : q # p =>
            head'[q] = head[q] /\ (pc'[q] = pc[q] \/ (pc[q] = "sleep_free" /\ pc'[q] = "alloc"))
    BY Zenon, <1>0, FinishEffect
<1>3. \A q \in Proc : q # p => op'[q] = op[q]
    <2>1. op \in [Proc -> {"read", "write"}]
        BY Zenon, <1>0 DEF TypeOK
    <2>2. QED
        BY Zenon, <1>1, <2>1
<1>4. Busy(p) /\ status[head[p]] = 0
    BY Zenon, <1>0, <1>2 DEF ThreadInv, ThreadOK
<1>5. ReqOf(p) = "done" /\ ReqOf(p)' = "idle"
    BY Zenon, <1>2, <1>4 DEF ReqOf
<1>6. ASSUME NEW q \in Proc, q # p PROVE ReqOf(q)' = ReqOf(q)
    <2>1. /\ pc'[q] = "idle" <=> pc[q] = "idle"
          /\ op'[q] = op[q] /\ head'[q] = head[q] /\ status'[head[q]] = status[head[q]]
        BY Zenon, <1>1, <1>2, <1>3, <1>6
    <2>2. QED
        BY Zenon, <2>1, SameReq
<1>7. Req' = [Req EXCEPT ![p] = "idle"]
    BY Zenon, <1>5, <1>6, ReqChange
<1>8. Req[p] = "done"
    BY Zenon, <1>5, ReqForm
<1>9. QED
    BY Zenon, <1>1, <1>7, <1>8 DEF SD!Return

LEMMA DeviceRefines ==
    ASSUME DiskInv, NEW i \in Desc, DeviceFinish(i)
    PROVE  \E p \in Proc : SD!Transfer(p)
<1>0. TypeOK /\ ThreadInv /\ ChainInv /\ RingInv
    BY Zenon DEF DiskInv
<1>1. PICK b : b = info[i]
    BY Zenon
<1>2. Waiting(i, 255)
    BY Zenon, <1>0 DEF DeviceFinish, RingInv
<1>3. b \in Proc /\ head[b] = i /\ status[i] = 255 /\ pc[b] \in {"sleep_done", "check"}
    BY Zenon, <1>1, <1>2 DEF Waiting
<1>4. Busy(b)
    <2>1. i # NoDesc
        BY SizeAssumption DEF Desc, NoDesc
    <2>2. QED
        BY Zenon, <1>3, <2>1 DEF Busy
<1>5. /\ \/ op[b] = "read" /\ data' = [data EXCEPT ![b] = disk[b]] /\ disk' = disk
         \/ op[b] = "write" /\ disk' = [disk EXCEPT ![b] = data[b]] /\ data' = data
      /\ status' = [status EXCEPT ![i] = 0] /\ pc' = pc /\ op' = op /\ head' = head
    BY Zenon, <1>1 DEF DeviceFinish
<1>6. status'[i] = 0 /\ \A j \in Desc : j # i => status'[j] = status[j]
    <2>1. status \in [Desc -> {0, 255}]
        BY Zenon, <1>0 DEF TypeOK
    <2>2. QED
        BY <1>5, <2>1
<1>7. ReqOf(b) = op[b] /\ ReqOf(b)' = "done"
    <2>1. 255 # 0
        OBVIOUS
    <2>2. ReqOf(b) = op[b]
        BY Zenon, <1>3, <2>1 DEF ReqOf
    <2>3. pc'[b] # "idle" /\ Busy(b)' /\ status'[head'[b]] = 0
        BY Zenon, <1>3, <1>4, <1>5, <1>6 DEF Busy
    <2>4. QED
        BY Zenon, <2>2, <2>3 DEF ReqOf
<1>8. ASSUME NEW q \in Proc, q # b PROVE ReqOf(q)' = ReqOf(q)
    <2>1. ASSUME Busy(q) PROVE status'[head[q]] = status[head[q]]
        <3>1. head[q] \in Desc /\ info[head[q]] = q
            BY Zenon, <1>0, <2>1, BusyChain
        <3>2. head[q] # i
            BY Zenon, <1>1, <1>8, <3>1
        <3>3. QED
            BY Zenon, <1>6, <3>1, <3>2
    <2>2. QED
        BY Zenon, <1>5, <2>1, SameReq
<1>9. Req' = [Req EXCEPT ![b] = "done"]
    <2>1. b \in Proc /\ ReqOf(b)' = "done"
        BY Zenon, <1>3, <1>7
    <2>2. QED
        BY Zenon, <1>8, <2>1, ReqChange
<1>10. Req[b] = op[b]
    BY Zenon, <1>3, <1>7, ReqForm
<1>11. SD!Transfer(b)
    BY Zenon, <1>5, <1>9, <1>10 DEF SD!Transfer
<1>12. QED
    BY Zenon, <1>3, <1>11

LEMMA InitRefines == Init => SD!Init
<1> SUFFICES ASSUME Init PROVE SD!Init
    BY Zenon
<1>1. \A q \in Proc : ReqOf(q) = "idle"
    BY Zenon DEF Init, ReqOf
<1>2. Req = [q \in Proc |-> "idle"]
    BY Zenon, <1>1, ReqForm
<1>3. QED
    BY Zenon, <1>2 DEF Init, SD!Init

(* virtio_disk_rw() transfers its block exactly once between its call and  *)
(* its return, for any number of threads, descriptors and completions in   *)
(* any order, however often the indices of the rings wrap around.          *)
THEOREM Refinement == Spec => RefinesSyncDisk
<1>1. DiskInv /\ [Next]_vars => [SD!Next]_(SD!vars)
    <2> SUFFICES ASSUME DiskInv, [Next]_vars PROVE [SD!Next]_(SD!vars)
        BY Zenon
    <2>t. TypeOK
        BY Zenon DEF DiskInv
    <2>a. pc \in [Proc -> {"idle", "alloc", "sleep_free", "submit", "sleep_done", "check"}]
        BY Zenon, <2>t DEF TypeOK
    <2>0. CASE UNCHANGED vars
        <3>1. UNCHANGED <<disk, data, status, head, op, pc>>
            BY Zenon, <2>0 DEF vars
        <3>2. QED
            BY Zenon, <3>1, OthersStutter
    <2>1. ASSUME NEW p \in Proc, NEW o \in {"read", "write"}, NEW v \in Value, Call(p, o, v) PROVE SD!Next
        BY Zenon, <2>1, CallRefines DEF SD!Next
    <2>2. ASSUME NEW p \in Proc, Fill(p) PROVE UNCHANGED SD!vars
        BY Zenon, <2>2, FillStutters
    <2>3. ASSUME NEW p \in Proc, AllocFails(p) \/ Submit(p) \/ SleepAgain(p) \/ Kill(p)
          PROVE  UNCHANGED SD!vars
        <3>1. UNCHANGED <<disk, data, status, head, op>>
            BY Zenon, <2>3 DEF AllocFails, Submit, SleepAgain, Kill
        <3>2. \A q \in Proc : pc'[q] = "idle" <=> pc[q] = "idle"
            <4>1. CASE AllocFails(p)
                BY Zenon, <2>a, <4>1 DEF AllocFails, WakeFree
            <4>2. CASE Submit(p)
                BY Zenon, <2>a, <4>2 DEF Submit, Go
            <4>3. CASE SleepAgain(p)
                BY Zenon, <2>a, <4>3 DEF SleepAgain, Go
            <4>4. CASE Kill(p)
                BY Zenon, <2>a, <4>4 DEF Kill, Go
            <4>5. QED
                BY Zenon, <2>3, <4>1, <4>2, <4>3, <4>4
        <3>3. QED
            BY Zenon, <3>1, <3>2, OthersStutter
    <2>4. ASSUME NEW p \in Proc, Finish(p) PROVE SD!Next
        BY Zenon, <2>4, FinishRefines DEF SD!Next
    <2>5. ASSUME IntrAck \/ IntrReturn \/ DeviceTake PROVE UNCHANGED SD!vars
        <3>1. UNCHANGED <<disk, data, status, head, op, pc>>
            BY Zenon, <2>5 DEF IntrAck, IntrReturn, DeviceTake
        <3>2. QED
            BY Zenon, <3>1, OthersStutter
    <2>6. CASE IntrEntry
        <3>1. UNCHANGED <<disk, data, status, head, op>>
            BY Zenon, <2>6 DEF IntrEntry
        <3>2. \A q \in Proc : pc'[q] = "idle" <=> pc[q] = "idle"
            BY Zenon, <2>6 DEF IntrEntry
        <3>3. QED
            BY Zenon, <3>1, <3>2, OthersStutter
    <2>7. ASSUME NEW i \in Desc, DeviceFinish(i) PROVE SD!Next
        BY Zenon, <2>7, DeviceRefines DEF SD!Next
    <2>8. QED
        BY Zenon, <2>0, <2>1, <2>2, <2>3, <2>4, <2>5, <2>6, <2>7 DEF Next, Rw, Handler, Device
<1>2. QED
    BY <1>1, InitRefines, DiskAlways, PTL DEF Spec, RefinesSyncDisk, SD!Spec
=============================================================================
