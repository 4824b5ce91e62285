------------------------ MODULE SgiMemoryPoolProofs -------------------------
(***************************************************************************)
(* No byte of the pool is in two places, for every number of threads and   *)
(* every size of the classes, the chunks and the heap.  The invariant says *)
(* of every single byte that at most one node of a list, one block of a    *)
(* thread or the chunk has it; an operation moves intervals of bytes from  *)
(* one of these to another, splits them or takes them from above heap.     *)
(* And none is lost: the bytes of the pool stay the same, except for those *)
(* that AllocChunk adds, which makes them as many as heap_size_ counts.    *)
(***************************************************************************)
EXTENDS SgiMemoryPool, SequenceTheorems, FiniteSetTheorems, TLAPS

-----------------------------------------------------------------------------
(* Rounding and aligning.                                                  *)

\* What % and \div compute for a positive divisor.
LEMMA DivMod ==
    ASSUME NEW a \in Nat, NEW m \in Nat \ {0}
    PROVE  /\ a \div m \in Nat
           /\ a % m \in Nat /\ a % m < m
           /\ a = m * (a \div m) + (a % m)
  OBVIOUS

\* Multiples of kAlign are aligned ...
LEMMA MultipleAligned ==
    ASSUME NEW q \in Nat
    PROVE  (q * kAlign) % kAlign = 0
  BY PoolAssumption

\* ... and nothing else is.
LEMMA AlignedMultiple ==
    ASSUME NEW a \in Nat, a % kAlign = 0
    PROVE  \E q \in Nat : a = q * kAlign
<1> DEFINE q == a \div kAlign
<1>1. q \in Nat /\ a = kAlign * q + (a % kAlign)
  BY DivMod, PoolAssumption
<1> HIDE DEF q
<1>2. a = q * kAlign
  BY <1>1, PoolAssumption
<1> QED
  BY <1>1, <1>2

\* Two multiples that are less than one unit apart.
LEMMA MultipleBound ==
    ASSUME NEW q \in Nat, NEW r \in Nat, q * kAlign < r * kAlign + kAlign
    PROVE  q * kAlign <= r * kAlign
  BY PoolAssumption

\* Sums, differences and multiples of aligned numbers are aligned.
LEMMA AddAligned ==
    ASSUME NEW a \in Nat, NEW b \in Nat, a % kAlign = 0, b % kAlign = 0
    PROVE  /\ (a + b) % kAlign = 0
           /\ b <= a => (a - b) % kAlign = 0
<1>1. PICK q \in Nat : a = q * kAlign
  BY AlignedMultiple
<1>2. PICK r \in Nat : b = r * kAlign
  BY AlignedMultiple
<1>3. a + b = (q + r) * kAlign /\ q + r \in Nat
  BY <1>1, <1>2, PoolAssumption
<1>4. (a + b) % kAlign = 0
  BY <1>3, MultipleAligned
<1>5. ASSUME b <= a PROVE (a - b) % kAlign = 0
  <2>1. a - b = (q - r) * kAlign
    BY <1>1, <1>2, PoolAssumption
  <2>2. q - r \in Nat
    BY <1>1, <1>2, <1>5, PoolAssumption
  <2> QED
    BY <2>1, <2>2, MultipleAligned
<1> QED
  BY <1>4, <1>5

\* A multiple of an aligned number is aligned.
LEMMA TimesAligned ==
    ASSUME NEW a \in Nat, NEW m \in Nat, a % kAlign = 0
    PROVE  (a * m) % kAlign = 0
<1>1. PICK q \in Nat : a = q * kAlign
  BY AlignedMultiple
<1>2. a * m = (q * m) * kAlign
  BY <1>1, PoolAssumption
<1>3. q * m \in Nat
  OBVIOUS
<1> QED
  BY <1>2, <1>3, MultipleAligned

\* RoundUp goes up to the next multiple of kAlign, less than one unit.
LEMMA RoundUpIs ==
    ASSUME NEW n \in Nat
    PROVE  /\ RoundUp(n) \in Nat /\ n <= RoundUp(n) /\ RoundUp(n) < n + kAlign
           /\ RoundUp(n) % kAlign = 0
<1> DEFINE a == n + kAlign - 1
<1>1. a \in Nat
  BY PoolAssumption
<1>2. /\ a \div kAlign \in Nat
      /\ a % kAlign \in Nat /\ a % kAlign < kAlign
      /\ a = kAlign * (a \div kAlign) + (a % kAlign)
  BY <1>1, DivMod, PoolAssumption
<1>3. kAlign * (a \div kAlign) = RoundUp(n)
  BY <1>2, PoolAssumption DEF RoundUp
<1>4. RoundUp(n) % kAlign = 0
  BY <1>2, MultipleAligned DEF RoundUp
<1> HIDE DEF a
<1>5. RoundUp(n) = a - (a % kAlign)
  BY <1>1, <1>2, <1>3, PoolAssumption
<1> QED
  BY <1>1, <1>2, <1>4, <1>5, PoolAssumption DEF a

\* It passes no multiple of kAlign, so it is monotonic and leaves multiples alone.
LEMMA RoundUpBound ==
    ASSUME NEW n \in Nat, NEW z \in Nat, n <= z, z % kAlign = 0
    PROVE  RoundUp(n) <= z
<1>1. PICK r \in Nat : z = r * kAlign
  BY AlignedMultiple
<1>2. RoundUp(n) \in Nat /\ RoundUp(n) < n + kAlign /\ RoundUp(n) % kAlign = 0
  BY RoundUpIs
<1>3. PICK q \in Nat : RoundUp(n) = q * kAlign
  BY <1>2, AlignedMultiple
<1>4. q * kAlign < r * kAlign + kAlign
  BY <1>1, <1>2, <1>3, PoolAssumption
<1> QED
  BY <1>1, <1>3, <1>4, MultipleBound

\* A small request has a size class.
LEMMA SmallClass ==
    ASSUME NEW n \in Nat \ {0}, Small(n)
    PROVE  RoundUp(n) \in Classes
<1>1. RoundUp(n) \in Nat /\ n <= RoundUp(n) /\ RoundUp(n) % kAlign = 0
  BY RoundUpIs
<1>2. RoundUp(n) <= kMaxBytes
  BY RoundUpBound, PoolAssumption DEF Small
<1> QED
  BY <1>1, <1>2, PoolAssumption DEF Classes

\* An aligned number is its own rounding.
LEMMA RoundUpAligned ==
    ASSUME NEW z \in Nat, z % kAlign = 0
    PROVE  RoundUp(z) = z
  BY RoundUpIs, RoundUpBound

\* An aligned address that is not nullptr is at least kAlign.
LEMMA NodeAbove ==
    ASSUME NEW a \in Nodes
    PROVE  a \in Nat /\ a >= kAlign
<1>1. a \in Nat /\ a # 0 /\ a % kAlign = 0
  BY DEF Nodes, Addresses
<1>2. PICK q \in Nat : a = q * kAlign
  BY <1>1, AlignedMultiple
<1>3. q >= 1
  BY <1>1, <1>2, PoolAssumption
<1> QED
  BY <1>1, <1>2, <1>3, PoolAssumption

\* The nodes AllocChunk cuts lie in the chunk, and there is at least one.
LEMMA NodeCountIs ==
    ASSUME NEW size \in Nat \ {0}, NEW s \in Nat, NEW e \in Nat, e - s >= size
    PROVE  LET m == NodeCount(size, s, e)
           IN  m \in Nat /\ m >= 1 /\ size * m \in Nat /\ size * m <= e - s /\ size <= size * m
<1> DEFINE d == (e - s) \div size
           m == NodeCount(size, s, e)
<1>1. e - s \in Nat
  OBVIOUS
<1>2. d \in Nat /\ (e - s) % size \in Nat /\ (e - s) % size < size
      /\ e - s = size * d + ((e - s) % size)
  BY <1>1, DivMod
<1>3. m = IF d < kObjs THEN d ELSE kObjs
  BY DEF NodeCount
<1> HIDE DEF d, m
<1>4. d >= 1
  <2>1. CASE d = 0
    BY <1>2, <2>1
  <2> QED
    BY <1>2, <2>1
<1>5. m \in Nat /\ m >= 1 /\ m <= d
  BY <1>2, <1>3, <1>4, PoolAssumption
<1>6. size * m <= size * d
  BY <1>2, <1>5
<1>7. size * m \in Nat /\ size * d \in Nat /\ size * d <= e - s
  BY <1>2, <1>5
<1>8. size <= size * m
  BY <1>5
<1> QED
  BY <1>1, <1>5, <1>6, <1>7, <1>8 DEF m

-----------------------------------------------------------------------------
(* Who has a byte.                                                         *)

\* Byte x is one of the len bytes from a on.
In(x, a, len) == a <= x /\ x < a + len

\* Byte x is in a node of the lists F.
Free(F, x) == \E k \in Classes : \E i \in DOMAIN F[k] : In(x, F[k][i], k)

\* No two nodes of the lists F share a byte.
NodesApart(F) ==
    \A x \in Nat : \A k, l \in Classes : \A i \in DOMAIN F[k], j \in DOMAIN F[l] :
        In(x, F[k][i], k) /\ In(x, F[l][j], l) => k = l /\ i = j

ListsOK(F) == F \in [Classes -> Seq(Nodes)] /\ NodesApart(F)

\* Byte x is in the block b, in one of the blocks of the threads.
Holds(b, x)   == b # NoBlock /\ In(x, b.addr, RoundUp(b.n))
Held(B, N, x) == \E c \in Clients : Holds(B[c], x) \/ Holds(N[c], x)

\* No two blocks share a byte.
HeldApart(B, N) ==
    \A x \in Nat : \A c, d \in Clients :
        /\ Holds(B[c], x) /\ Holds(B[d], x) => c = d
        /\ Holds(N[c], x) /\ Holds(N[d], x) => c = d
        /\ ~(Holds(B[c], x) /\ Holds(N[d], x))

\* Every byte comes from malloc and is in the chunk, in a list or in a block.
Separate(F, s, e, B, N, h) ==
    \A x \in Nat :
        /\ (s <= x /\ x < e) \/ Free(F, x) \/ Held(B, N, x) => kAlign <= x /\ x < h
        /\ (s <= x /\ x < e) => ~Free(F, x) /\ ~Held(B, N, x)
        /\ Free(F, x) => ~Held(B, N, x)

\* The inductive invariant.
Inv ==
    /\ TypeOK
    /\ NodesApart(free_list_)
    /\ HeldApart(block, fresh)
    /\ Separate(free_list_, start_free_, end_free_, block, fresh, heap)
    /\ \A c \in Clients : fresh[c] # NoBlock => block[c] # NoBlock

\* Putting an element in front of a sequence.
LEMMA Prepend ==
    ASSUME NEW S, NEW r \in S, NEW q \in Seq(S)
    PROVE  LET t == <<r>> \o q
           IN  /\ t \in Seq(S) /\ 1 \in DOMAIN t /\ t[1] = r
               /\ \A k \in DOMAIN q : k + 1 \in DOMAIN t /\ t[k + 1] = q[k]
               /\ \A k \in DOMAIN t : k = 1 \/ (k - 1 \in DOMAIN q /\ t[k] = q[k - 1])
<1> DEFINE t == <<r>> \o q
<1>1. t \in Seq(S) /\ Len(t) = Len(q) + 1 /\ Len(q) \in Nat
  OBVIOUS
<1>2. t[1] = r
  OBVIOUS
<1>3. \A k \in 1 .. Len(q) : t[k + 1] = q[k]
  OBVIOUS
<1>4. DOMAIN q = 1 .. Len(q) /\ DOMAIN t = 1 .. Len(q) + 1
  <2> HIDE DEF t
  <2> QED
    BY <1>1
<1> HIDE DEF t
<1>5. ASSUME NEW k \in DOMAIN t, k # 1
      PROVE  k - 1 \in DOMAIN q /\ t[k] = q[k - 1]
  <2>1. k - 1 \in 1 .. Len(q) /\ (k - 1) + 1 = k
    BY <1>1, <1>4, <1>5
  <2> QED
    BY <1>3, <1>4, <2>1
<1>6. \A k \in DOMAIN q : k + 1 \in DOMAIN t /\ t[k + 1] = q[k]
  BY <1>1, <1>3, <1>4
<1>7. 1 \in DOMAIN t
  BY <1>1, <1>4
<1> QED
  BY <1>1, <1>2, <1>5, <1>6, <1>7 DEF t

\* A node is put on the list of its class: its bytes become free.
LEMMA Pushed ==
    ASSUME NEW F, ListsOK(F), NEW c \in Classes, NEW a \in Nodes,
           \A x \in Nat : In(x, a, c) => ~Free(F, x),
           NEW G, G = [F EXCEPT ![c] = <<a>> \o @]
    PROVE  ListsOK(G) /\ \A x \in Nat : Free(G, x) => Free(F, x) \/ In(x, a, c)
<1> DEFINE t == <<a>> \o F[c]
<1>1. F \in [Classes -> Seq(Nodes)] /\ F[c] \in Seq(Nodes)
  BY DEF ListsOK
<1>2. /\ t \in Seq(Nodes) /\ t[1] = a
      /\ \A k \in DOMAIN t : k = 1 \/ (k - 1 \in DOMAIN F[c] /\ t[k] = F[c][k - 1])
  BY <1>1, Prepend
<1>3. G = [F EXCEPT ![c] = t]
  OBVIOUS
<1>4. DOMAIN t \subseteq Int
  <2> HIDE DEF t
  <2> QED
    BY <1>2
<1> HIDE DEF t
<1>5. /\ G \in [Classes -> Seq(Nodes)] /\ G[c] = t
      /\ \A k \in Classes : k # c => G[k] = F[k]
  BY <1>1, <1>2, <1>3
<1>6. ASSUME NEW x \in Nat, NEW k \in Classes, NEW i \in DOMAIN G[k], In(x, G[k][i], k)
      PROVE  \/ k = c /\ i = 1 /\ In(x, a, c)
             \/ k = c /\ i # 1 /\ i - 1 \in DOMAIN F[k] /\ In(x, F[k][i - 1], k)
             \/ k # c /\ i \in DOMAIN F[k] /\ In(x, F[k][i], k)
  BY <1>2, <1>5, <1>6
<1>7. \A x \in Nat : Free(G, x) => Free(F, x) \/ In(x, a, c)
  BY <1>6 DEF Free
<1>8. ASSUME NEW x \in Nat, NEW k \in Classes, NEW l \in Classes,
             NEW i \in DOMAIN G[k], NEW j \in DOMAIN G[l], In(x, G[k][i], k), In(x, G[l][j], l)
      PROVE  k = l /\ i = j
  <2>1. In(x, a, c) => \A m \in Classes : \A o \in DOMAIN F[m] : ~In(x, F[m][o], m)
    BY DEF Free
  <2>2. \A m \in Classes, p \in Classes : \A o \in DOMAIN F[m], q \in DOMAIN F[p] :
           In(x, F[m][o], m) /\ In(x, F[p][q], p) => m = p /\ o = q
    BY DEF ListsOK, NodesApart
  <2>3. /\ \/ k = c /\ i = 1 /\ In(x, a, c)
           \/ k = c /\ i # 1 /\ i - 1 \in DOMAIN F[k] /\ In(x, F[k][i - 1], k)
           \/ k # c /\ i \in DOMAIN F[k] /\ In(x, F[k][i], k)
        /\ \/ l = c /\ j = 1 /\ In(x, a, c)
           \/ l = c /\ j # 1 /\ j - 1 \in DOMAIN F[l] /\ In(x, F[l][j - 1], l)
           \/ l # c /\ j \in DOMAIN F[l] /\ In(x, F[l][j], l)
    BY <1>6, <1>8
  <2>4. k = l
    BY <2>1, <2>2, <2>3
  <2>5. k = c => i \in Int /\ j \in Int
    BY <1>4, <1>5, <2>4
  <2> QED
    BY <2>1, <2>2, <2>3, <2>4, <2>5
<1>9. NodesApart(G)
  BY <1>8 DEF NodesApart
<1> QED
  BY <1>5, <1>7, <1>9 DEF ListsOK

\* The lists F without the first node of class c.
WithoutHead(F, c) == [F EXCEPT ![c] = Tail(@)]

\* The first node of a list is taken: its bytes are not free any more.
LEMMA Popped ==
    ASSUME NEW F, ListsOK(F), NEW c \in Classes, F[c] # <<>>,
           NEW G, G = WithoutHead(F, c)
    PROVE  /\ ListsOK(G) /\ Head(F[c]) \in Nodes
           /\ \A x \in Nat : In(x, Head(F[c]), c) => Free(F, x) /\ ~Free(G, x)
           /\ \A x \in Nat : Free(G, x) => Free(F, x)
<1> DEFINE q == F[c]
           t == Tail(q)
           p == Head(q)
<1>1. F \in [Classes -> Seq(Nodes)] /\ q \in Seq(Nodes) /\ q # <<>>
  BY DEF ListsOK
<1>2. G = [F EXCEPT ![c] = t]
  BY DEF WithoutHead
<1>3. q = F[c]
  OBVIOUS
<1> HIDE DEF q
<1>4. /\ t \in Seq(Nodes) /\ p \in Nodes /\ p = q[1] /\ 1 \in DOMAIN q
      /\ \A k \in DOMAIN t : k \in Int /\ k >= 1 /\ k + 1 \in DOMAIN q /\ t[k] = q[k + 1]
  BY <1>1
<1> HIDE DEF t, p
<1>5. /\ G \in [Classes -> Seq(Nodes)] /\ G[c] = t
      /\ \A k \in Classes : k # c => G[k] = F[k]
  BY <1>1, <1>2, <1>4
<1>6. ASSUME NEW x \in Nat, NEW k \in Classes, NEW i \in DOMAIN G[k], In(x, G[k][i], k)
      PROVE  \/ k = c /\ i \in Int /\ i >= 1 /\ i + 1 \in DOMAIN F[k] /\ In(x, F[k][i + 1], k)
             \/ k # c /\ i \in DOMAIN F[k] /\ In(x, F[k][i], k)
  BY <1>3, <1>4, <1>5, <1>6
<1>7. \A x \in Nat : Free(G, x) => Free(F, x)
  BY <1>6 DEF Free
<1>8. ASSUME NEW x \in Nat, NEW k \in Classes, NEW l \in Classes,
             NEW i \in DOMAIN G[k], NEW j \in DOMAIN G[l], In(x, G[k][i], k), In(x, G[l][j], l)
      PROVE  k = l /\ i = j
  <2>1. \A m \in Classes, u \in Classes : \A o \in DOMAIN F[m], v \in DOMAIN F[u] :
           In(x, F[m][o], m) /\ In(x, F[u][v], u) => m = u /\ o = v
    BY DEF ListsOK, NodesApart
  <2>2. /\ \/ k = c /\ i \in Int /\ i >= 1 /\ i + 1 \in DOMAIN F[k] /\ In(x, F[k][i + 1], k)
           \/ k # c /\ i \in DOMAIN F[k] /\ In(x, F[k][i], k)
        /\ \/ l = c /\ j \in Int /\ j >= 1 /\ j + 1 \in DOMAIN F[l] /\ In(x, F[l][j + 1], l)
           \/ l # c /\ j \in DOMAIN F[l] /\ In(x, F[l][j], l)
    BY <1>6, <1>8
  <2> QED
    BY <2>1, <2>2
<1>9. ListsOK(G)
  BY <1>5, <1>8 DEF ListsOK, NodesApart
<1>10. ASSUME NEW x \in Nat, In(x, p, c) PROVE Free(F, x) /\ ~Free(G, x)
  <2>1. 1 \in DOMAIN F[c] /\ In(x, F[c][1], c)
    BY <1>3, <1>4, <1>10
  <2>2. Free(F, x)
    BY <2>1 DEF Free
  <2>3. ASSUME NEW k \in Classes, NEW i \in DOMAIN G[k], In(x, G[k][i], k) PROVE FALSE
    <3>1. \A m \in Classes : \A o \in DOMAIN F[m] : In(x, F[m][o], m) => m = c /\ o = 1
      BY <2>1 DEF ListsOK, NodesApart
    <3>2. \/ k = c /\ i \in Int /\ i >= 1 /\ i + 1 \in DOMAIN F[k] /\ In(x, F[k][i + 1], k)
          \/ k # c /\ i \in DOMAIN F[k] /\ In(x, F[k][i], k)
      BY <1>6, <2>3
    <3> QED
      BY <3>1, <3>2
  <2> QED
    BY <2>2, <2>3 DEF Free
<1> QED
  BY <1>4, <1>7, <1>9, <1>10 DEF p, q

\* Node i of a chunk ends before node j > i begins.
LEMMA SlotsApart ==
    ASSUME NEW size \in Nat, NEW i \in Nat, NEW j \in Nat, i < j
    PROVE  i * size + size <= j * size
<1> DEFINE d == j - i - 1
<1>1. d \in Nat /\ j = i + 1 + d
  OBVIOUS
<1> HIDE DEF d
<1>2. j * size = i * size + size + d * size
  BY <1>1
<1>3. d * size \in Nat /\ i * size \in Nat
  BY <1>1
<1> QED
  BY <1>2, <1>3

\* Refill puts all but the first of the nodes it cuts on the list.
LEMMA RefilledOK ==
    ASSUME NEW F, ListsOK(F), NEW size \in Classes, NEW s \in Nodes, NEW e \in Nat, e - s >= size,
           \A x \in Nat : s <= x /\ x < e => ~Free(F, x),
           NEW G, G = Refilled(F, size, s, e)
    PROVE  /\ ListsOK(G)
           /\ \A x \in Nat : Free(G, x) =>
                 Free(F, x) \/ (s + size <= x /\ x < s + size * NodeCount(size, s, e))
<1> DEFINE m == NodeCount(size, s, e)
           t == [i \in 1 .. m - 1 |-> s + i * size]
<1>1. size \in Nat \ {0} /\ size % kAlign = 0 /\ s \in Nat /\ s # 0 /\ s % kAlign = 0
  BY DEF Classes, Nodes, Addresses
<1>2. m \in Nat /\ m >= 1 /\ size * m \in Nat /\ size * m <= e - s
  BY <1>1, NodeCountIs
<1>3. FreelistIndex(size) = size
  BY <1>1, RoundUpAligned DEF FreelistIndex
<1>4. G = IF m = 1 THEN F ELSE [F EXCEPT ![size] = t]
  BY <1>3 DEF Refilled
<1> HIDE DEF m
<1>5. CASE m = 1
  BY <1>4, <1>5
<1>6. CASE m # 1
  <2>1. ASSUME NEW i \in 1 .. m - 1
        PROVE  i \in Nat /\ i * size \in Nat /\ s + i * size \in Nodes /\ t[i] = s + i * size
    <3>1. i \in Nat /\ i * size \in Nat
      BY <1>1, <1>2
    <3>2. (i * size) % kAlign = 0
      <4>1. i * size = size * i
        BY <1>1, <3>1
      <4> QED
        BY <1>1, <3>1, <4>1, TimesAligned
    <3>3. (s + i * size) % kAlign = 0
      <4> DEFINE z == i * size
      <4>1. z \in Nat /\ z % kAlign = 0
        BY <3>1, <3>2
      <4> HIDE DEF z
      <4>2. (s + z) % kAlign = 0
        BY <1>1, <4>1, AddAligned
      <4> QED
        BY <4>2 DEF z
    <3> QED
      BY <1>1, <3>1, <3>3 DEF Nodes, Addresses
  <2>2. t \in Seq(Nodes) /\ DOMAIN t = 1 .. m - 1
    <3>1. t \in [1 .. m - 1 -> Nodes] /\ m - 1 \in Nat
      BY <1>2, <2>1
    <3> HIDE DEF t
    <3> QED
      BY <3>1
  <2> HIDE DEF t
  <2>3. F \in [Classes -> Seq(Nodes)]
    BY DEF ListsOK
  <2>4. /\ G \in [Classes -> Seq(Nodes)] /\ G[size] = t
        /\ \A k \in Classes : k # size => G[k] = F[k]
    BY <1>4, <1>6, <2>2, <2>3
  <2>5. ASSUME NEW x \in Nat, NEW i \in 1 .. m - 1, In(x, t[i], size)
        PROVE  s + size <= x /\ x < s + size * m /\ x < e
    <3>1. i \in Nat /\ 1 <= i /\ i < m /\ i * size \in Nat /\ t[i] = s + i * size
      BY <1>2, <2>1
    <3>2. size <= i * size
      <4>1. CASE i = 1
        BY <1>1, <4>1
      <4>2. CASE 1 < i
        <5>1. 1 * size + size <= i * size
          BY <1>1, <3>1, <4>2, SlotsApart
        <5> QED
          BY <1>1, <3>1, <5>1
      <4> QED
        BY <3>1, <4>1, <4>2
    <3>3. i * size + size <= size * m
      <4>1. i * size + size <= m * size
        BY <1>1, <1>2, <3>1, SlotsApart
      <4>2. m * size = size * m
        BY <1>1, <1>2
      <4> QED
        BY <4>1, <4>2
    <3> DEFINE z == i * size
    <3> HIDE DEF z
    <3> QED
      BY <1>1, <1>2, <2>5, <3>1, <3>2, <3>3 DEF In, z
  <2>6. ASSUME NEW x \in Nat, NEW i \in 1 .. m - 1, NEW j \in 1 .. m - 1,
               In(x, t[i], size), In(x, t[j], size)
        PROVE  i = j
    <3>1. /\ i \in Nat /\ i * size \in Nat /\ t[i] = s + i * size
          /\ j \in Nat /\ j * size \in Nat /\ t[j] = s + j * size
      BY <2>1
    <3>2. i < j => i * size + size <= j * size
      BY <1>1, <3>1, SlotsApart
    <3>3. j < i => j * size + size <= i * size
      BY <1>1, <3>1, SlotsApart
    <3> DEFINE y == i * size
               z == j * size
    <3> HIDE DEF y, z
    <3> QED
      BY <1>1, <2>6, <3>1, <3>2, <3>3 DEF In, y, z
  <2>7. ASSUME NEW x \in Nat, Free(G, x)
        PROVE  Free(F, x) \/ (s + size <= x /\ x < s + size * m)
    <3>1. PICK k \in Classes : \E i \in DOMAIN G[k] : In(x, G[k][i], k)
      BY <2>7 DEF Free
    <3>2. CASE k = size
      BY <2>2, <2>4, <2>5, <3>1, <3>2
    <3>3. CASE k # size
      BY <2>4, <3>1, <3>3 DEF Free
    <3> QED
      BY <3>2, <3>3
  <2>8. ASSUME NEW x \in Nat, NEW k \in Classes, NEW l \in Classes,
               NEW i \in DOMAIN G[k], NEW j \in DOMAIN G[l], In(x, G[k][i], k), In(x, G[l][j], l)
        PROVE  k = l /\ i = j
    <3>1. \A o \in 1 .. m - 1 : In(x, t[o], size) =>
             \A u \in Classes : \A v \in DOMAIN F[u] : ~In(x, F[u][v], u)
      <4>1. ASSUME NEW o \in 1 .. m - 1, In(x, t[o], size) PROVE ~Free(F, x)
        <5>1. s + size <= x /\ x < e
          BY <2>5, <4>1
        <5>2. s <= x
          BY <1>1, <5>1
        <5> QED
          BY <5>1, <5>2
      <4> QED
        BY <4>1 DEF Free
    <3>2. \A u \in Classes, w \in Classes : \A o \in DOMAIN F[u], v \in DOMAIN F[w] :
             In(x, F[u][o], u) /\ In(x, F[w][v], w) => u = w /\ o = v
      BY DEF ListsOK, NodesApart
    <3>3. CASE k = size /\ l = size
      BY <2>2, <2>4, <2>6, <2>8, <3>3
    <3>4. CASE k = size /\ l # size
      BY <2>2, <2>4, <2>8, <3>1, <3>4
    <3>5. CASE k # size /\ l = size
      BY <2>2, <2>4, <2>8, <3>1, <3>5
    <3>6. CASE k # size /\ l # size
      BY <2>4, <2>8, <3>2, <3>6
    <3> QED
      BY <3>3, <3>4, <3>5, <3>6
  <2> QED
    BY <2>4, <2>7, <2>8 DEF ListsOK, NodesApart, m
<1> QED
  BY <1>5, <1>6

\* The rest of the chunk, if it is smaller than a node, can be donated.
LEMMA DonatedOK ==
    ASSUME Inv, NEW size \in Classes, end_free_ - start_free_ < size
    PROVE  /\ ListsOK(Donated)
           /\ \A x \in Nat : Free(Donated, x) =>
                 Free(free_list_, x) \/ (start_free_ <= x /\ x < end_free_)
<1> DEFINE d == end_free_ - start_free_
<1>1. /\ start_free_ \in Nat /\ start_free_ % kAlign = 0 /\ end_free_ \in Nat
      /\ end_free_ % kAlign = 0 /\ start_free_ <= end_free_ /\ ListsOK(free_list_)
  BY DEF Inv, TypeOK, Addresses, ListsOK
<1>2. CASE end_free_ = start_free_
  BY <1>1, <1>2 DEF Donated
<1>3. CASE end_free_ # start_free_
  <2>1. d \in Nat \ {0} /\ d % kAlign = 0
    BY <1>1, <1>3, AddAligned
  <2>2. d \in Classes
    <3>1. size \in Nat /\ size <= kMaxBytes
      BY PoolAssumption DEF Classes
    <3> QED
      BY <2>1, <3>1, PoolAssumption DEF Classes
  <2>3. FreelistIndex(d) = d
    BY <2>1, RoundUpAligned DEF FreelistIndex
  <2>4. Donated = [free_list_ EXCEPT ![d] = <<start_free_>> \o @]
    BY <1>3, <2>3 DEF Donated
  <2>5. start_free_ \in Nodes
    <3>1. kAlign <= start_free_
      BY <1>1, <1>3 DEF Inv, Separate
    <3> QED
      BY <1>1, <3>1, PoolAssumption DEF Nodes, Addresses
  <2>6. \A x \in Nat : In(x, start_free_, d) <=> start_free_ <= x /\ x < end_free_
    BY <1>1 DEF In
  <2> HIDE DEF d
  <2>7. \A x \in Nat : In(x, start_free_, d) => ~Free(free_list_, x)
    BY <2>6 DEF Inv, Separate
  <2>8. /\ ListsOK(Donated)
        /\ \A x \in Nat : Free(Donated, x) => Free(free_list_, x) \/ In(x, start_free_, d)
    BY <1>1, <2>2, <2>4, <2>5, <2>7, Pushed
  <2> QED
    BY <2>6, <2>8
<1> QED
  BY <1>2, <1>3

-----------------------------------------------------------------------------
(* The blocks of the threads.                                              *)

BlockTypes(B, N) ==
    B \in [Clients -> Blocks \cup {NoBlock}] /\ N \in [Clients -> Blocks \cup {NoBlock}]

\* What the invariant says of the blocks.
BlocksOK(B, N) ==
    /\ BlockTypes(B, N) /\ HeldApart(B, N)
    /\ \A d \in Clients : N[d] # NoBlock => B[d] # NoBlock

\* A thread gets a block of bytes that no block had.
LEMMA Given ==
    ASSUME BlocksOK(block, fresh), NEW c \in Clients, NEW a \in Nodes, NEW n \in Nat \ {0},
           block[c] = NoBlock \/ fresh[c] = NoBlock, Give(c, a, n),
           \A x \in Nat : In(x, a, RoundUp(n)) => ~Held(block, fresh, x)
    PROVE  /\ BlocksOK(block', fresh')
           /\ \A x \in Nat : Held(block', fresh', x) =>
                 Held(block, fresh, x) \/ In(x, a, RoundUp(n))
<1> DEFINE b == [addr |-> a, n |-> n]
<1>1. b \in Blocks
  BY DEF Blocks
<1>2. \A x : Holds(b, x) => In(x, a, RoundUp(n))
  BY DEF Holds
<1>3. BlockTypes(block, fresh) /\ HeldApart(block, fresh)
  BY DEF BlocksOK
<1>4. CASE block[c] = NoBlock
  <2>1. block' = [block EXCEPT ![c] = b] /\ fresh' = fresh
    BY <1>4 DEF Give
  <2> HIDE DEF b
  <2>2. block'[c] = b /\ \A d \in Clients : d # c => block'[d] = block[d]
    BY <1>3, <2>1 DEF BlockTypes
  <2>3. BlockTypes(block', fresh')
    BY <1>1, <1>3, <2>1 DEF BlockTypes
  <2>4. \A x \in Nat : \A d \in Clients : Holds(block'[d], x) =>
           (d = c /\ In(x, a, RoundUp(n))) \/ (d # c /\ Holds(block[d], x))
    BY <1>2, <2>2
  <2>5. \A x \in Nat : Held(block', fresh', x) => Held(block, fresh, x) \/ In(x, a, RoundUp(n))
    BY <2>1, <2>4 DEF Held
  <2>6. HeldApart(block', fresh')
    <3> SUFFICES ASSUME NEW x \in Nat, NEW d \in Clients, NEW e \in Clients
                 PROVE  /\ Holds(block'[d], x) /\ Holds(block'[e], x) => d = e
                        /\ Holds(fresh'[d], x) /\ Holds(fresh'[e], x) => d = e
                        /\ ~(Holds(block'[d], x) /\ Holds(fresh'[e], x))
      BY DEF HeldApart
    <3>1. In(x, a, RoundUp(n)) => \A g \in Clients : ~Holds(block[g], x) /\ ~Holds(fresh[g], x)
      BY DEF Held
    <3>2. /\ Holds(block[d], x) /\ Holds(block[e], x) => d = e
          /\ Holds(fresh[d], x) /\ Holds(fresh[e], x) => d = e
          /\ ~(Holds(block[d], x) /\ Holds(fresh[e], x))
      BY <1>3 DEF HeldApart
    <3> QED
      BY <2>1, <2>4, <3>1, <3>2
  <2>7. \A d \in Clients : fresh'[d] # NoBlock => block'[d] # NoBlock
    BY <1>4, <2>1, <2>2 DEF BlocksOK
  <2> QED
    BY <2>3, <2>5, <2>6, <2>7 DEF BlocksOK
<1>5. CASE block[c] # NoBlock
  <2>1. fresh' = [fresh EXCEPT ![c] = b] /\ block' = block
    BY <1>5 DEF Give
  <2> HIDE DEF b
  <2>2. fresh'[c] = b /\ \A d \in Clients : d # c => fresh'[d] = fresh[d]
    BY <1>3, <2>1 DEF BlockTypes
  <2>3. BlockTypes(block', fresh')
    BY <1>1, <1>3, <2>1 DEF BlockTypes
  <2>4. \A x \in Nat : \A d \in Clients : Holds(fresh'[d], x) =>
           (d = c /\ In(x, a, RoundUp(n))) \/ (d # c /\ Holds(fresh[d], x))
    BY <1>2, <2>2
  <2>5. \A x \in Nat : Held(block', fresh', x) => Held(block, fresh, x) \/ In(x, a, RoundUp(n))
    BY <2>1, <2>4 DEF Held
  <2>6. HeldApart(block', fresh')
    <3> SUFFICES ASSUME NEW x \in Nat, NEW d \in Clients, NEW e \in Clients
                 PROVE  /\ Holds(block'[d], x) /\ Holds(block'[e], x) => d = e
                        /\ Holds(fresh'[d], x) /\ Holds(fresh'[e], x) => d = e
                        /\ ~(Holds(block'[d], x) /\ Holds(fresh'[e], x))
      BY DEF HeldApart
    <3>1. In(x, a, RoundUp(n)) => \A g \in Clients : ~Holds(block[g], x) /\ ~Holds(fresh[g], x)
      BY DEF Held
    <3>2. /\ Holds(block[d], x) /\ Holds(block[e], x) => d = e
          /\ Holds(fresh[d], x) /\ Holds(fresh[e], x) => d = e
          /\ ~(Holds(block[d], x) /\ Holds(fresh[e], x))
      BY <1>3 DEF HeldApart
    <3> QED
      BY <2>1, <2>4, <3>1, <3>2
  <2>7. \A d \in Clients : fresh'[d] # NoBlock => block'[d] # NoBlock
    BY <1>5, <2>1, <2>2 DEF BlocksOK
  <2> QED
    BY <2>3, <2>5, <2>6, <2>7 DEF BlocksOK
<1> QED
  BY <1>4, <1>5

-----------------------------------------------------------------------------
(* The steps.                                                              *)

\* What is to be shown of the state after a step.
LEMMA StepKeeps ==
    ASSUME ListsOK(free_list_'), BlocksOK(block', fresh'),
           Separate(free_list_', start_free_', end_free_', block', fresh', heap'),
           start_free_' \in Addresses, end_free_' \in Addresses, start_free_' <= end_free_',
           heap_size_' \in Nat, heap' \in Nodes, status' \in {"running", "undefined"}
    PROVE  Inv'
<1>1. TypeOK'
  BY DEF TypeOK, ListsOK, BlocksOK, BlockTypes
<1>2. NodesApart(free_list_)' /\ HeldApart(block, fresh)'
  BY DEF ListsOK, BlocksOK
<1>3. Separate(free_list_, start_free_, end_free_, block, fresh, heap)'
  OBVIOUS
<1>4. (\A c \in Clients : fresh[c] # NoBlock => block[c] # NoBlock)'
  BY DEF BlocksOK
<1> QED
  BY <1>1, <1>2, <1>3, <1>4 DEF Inv

\* What the invariant says before it.
LEMMA InvGives ==
    ASSUME Inv
    PROVE  /\ ListsOK(free_list_) /\ BlocksOK(block, fresh)
           /\ start_free_ \in Addresses /\ end_free_ \in Addresses /\ start_free_ <= end_free_
           /\ start_free_ \in Nat /\ end_free_ \in Nat
           /\ heap_size_ \in Nat /\ heap \in Nodes /\ heap \in Nat /\ kAlign <= heap
           /\ status \in {"running", "undefined"}
<1>1. heap \in Nodes
  BY DEF Inv, TypeOK
<1>2. heap \in Nat /\ heap >= kAlign
  BY <1>1, NodeAbove
<1> QED
  BY <1>1, <1>2, PoolAssumption DEF Inv, TypeOK, ListsOK, BlocksOK, BlockTypes, Addresses

\* Who has a byte before it.
LEMMA InvByte ==
    ASSUME Inv, NEW x \in Nat
    PROVE  /\ (start_free_ <= x /\ x < end_free_) \/ Free(free_list_, x) \/ Held(block, fresh, x)
                 => kAlign <= x /\ x < heap
           /\ (start_free_ <= x /\ x < end_free_)
                 => ~Free(free_list_, x) /\ ~Held(block, fresh, x)
           /\ Free(free_list_, x) => ~Held(block, fresh, x)
  BY DEF Inv, Separate

\* The memory above heap that malloc returns.
LEMMA HeapGrows ==
    ASSUME Inv, NEW m \in Nat, m % kAlign = 0
    PROVE  heap + m \in Nodes /\ heap + m \in Nat
<1>1. heap \in Nat /\ heap # 0 /\ heap % kAlign = 0
  BY DEF Inv, TypeOK, Nodes, Addresses
<1>2. (heap + m) % kAlign = 0
  BY <1>1, AddAligned
<1> QED
  BY <1>1, <1>2 DEF Nodes, Addresses

\* A large block from malloc.
LEMMA AllocateLargeKeeps ==
    ASSUME Inv, NEW c \in Clients, NEW n \in Nat \ {0}, block[c] = NoBlock \/ fresh[c] = NoBlock,
           AllocateLarge(c, n)
    PROVE  Inv'
<1>1. RoundUp(n) \in Nat /\ RoundUp(n) % kAlign = 0
  BY RoundUpIs
<1>2. /\ heap' = heap + RoundUp(n) /\ Give(c, heap, n) /\ free_list_' = free_list_
      /\ start_free_' = start_free_ /\ end_free_' = end_free_ /\ heap_size_' = heap_size_
      /\ status' = status
  BY DEF AllocateLarge, chunk
<1>3. heap' \in Nodes /\ heap' \in Nat
  BY <1>1, <1>2, HeapGrows
<1>4. \A x \in Nat : In(x, heap, RoundUp(n)) => heap <= x /\ x < heap'
  BY <1>2 DEF In
<1>5. \A x \in Nat : In(x, heap, RoundUp(n)) => ~Held(block, fresh, x)
  BY <1>4, InvGives, InvByte
<1>6. /\ BlocksOK(block', fresh')
      /\ \A x \in Nat : Held(block', fresh', x) =>
            Held(block, fresh, x) \/ In(x, heap, RoundUp(n))
  BY <1>2, <1>5, InvGives, Given
<1>7. Separate(free_list_', start_free_', end_free_', block', fresh', heap')
  <2> SUFFICES ASSUME NEW x \in Nat
      PROVE /\ (start_free_ <= x /\ x < end_free_) \/ Free(free_list_, x) \/ Held(block', fresh', x)
                 => kAlign <= x /\ x < heap'
            /\ (start_free_ <= x /\ x < end_free_)
                 => ~Free(free_list_, x) /\ ~Held(block', fresh', x)
            /\ Free(free_list_, x) => ~Held(block', fresh', x)
    BY <1>2 DEF Separate
  <2> QED
    BY <1>1, <1>2, <1>3, <1>4, <1>6, InvGives, InvByte, PoolAssumption
<1> QED
  BY <1>2, <1>3, <1>6, <1>7, InvGives, StepKeeps

\* A node of the list of the right class.
LEMMA AllocateNodeKeeps ==
    ASSUME Inv, NEW c \in Clients, NEW n \in Nat \ {0}, block[c] = NoBlock \/ fresh[c] = NoBlock,
           AllocateNode(c, n)
    PROVE  Inv'
<1> DEFINE k == RoundUp(n)
           p == Head(free_list_[k])
<1>1. k \in Classes
  BY SmallClass DEF AllocateNode
<1>2. /\ free_list_[k] # <<>> /\ Give(c, p, n)
      /\ free_list_' = WithoutHead(free_list_, k)
      /\ start_free_' = start_free_ /\ end_free_' = end_free_ /\ heap_size_' = heap_size_
      /\ status' = status /\ heap' = heap
  BY DEF AllocateNode, FreelistIndex, WithoutHead, chunk
<1>3. /\ ListsOK(free_list_') /\ p \in Nodes
      /\ \A x \in Nat : In(x, p, k) => Free(free_list_, x) /\ ~Free(free_list_', x)
      /\ \A x \in Nat : Free(free_list_', x) => Free(free_list_, x)
  BY <1>1, <1>2, InvGives, Popped
<1>4. \A x \in Nat : In(x, p, k) => ~Held(block, fresh, x)
  BY <1>3, InvByte
<1> HIDE DEF p
<1>5. /\ BlocksOK(block', fresh')
      /\ \A x \in Nat : Held(block', fresh', x) => Held(block, fresh, x) \/ In(x, p, k)
  BY <1>2, <1>3, <1>4, InvGives, Given
<1>6. Separate(free_list_', start_free_', end_free_', block', fresh', heap')
  <2> SUFFICES ASSUME NEW x \in Nat
      PROVE /\ (start_free_ <= x /\ x < end_free_) \/ Free(free_list_', x) \/ Held(block', fresh', x)
                 => kAlign <= x /\ x < heap
            /\ (start_free_ <= x /\ x < end_free_)
                 => ~Free(free_list_', x) /\ ~Held(block', fresh', x)
            /\ Free(free_list_', x) => ~Held(block', fresh', x)
    BY <1>2 DEF Separate
  <2> QED
    BY <1>3, <1>5, InvByte
<1> QED
  BY <1>2, <1>3, <1>5, <1>6, InvGives, StepKeeps

\* Refill from any interval [s, e) that has room for a node and that neither the
\* lists F nor the threads have a byte of.
LEMMA RefillKeeps ==
    ASSUME Inv, NEW c \in Clients, NEW n \in Nat \ {0}, block[c] = NoBlock \/ fresh[c] = NoBlock,
           NEW size \in Classes, size = RoundUp(n),
           NEW F, ListsOK(F), NEW s \in Nodes, NEW e \in Addresses, e - s >= size,
           Give(c, s, n), free_list_' = Refilled(F, size, s, e),
           start_free_' = s + size * NodeCount(size, s, e), end_free_' = e,
           heap_size_' \in Nat, heap' \in Nodes, heap <= heap', status' = status,
           \A x \in Nat : s <= x /\ x < e =>
              ~Free(F, x) /\ ~Held(block, fresh, x) /\ kAlign <= x /\ x < heap',
           \A x \in Nat : Free(F, x) =>
              ~Held(block, fresh, x) /\ kAlign <= x /\ x < heap'
    PROVE  Inv'
<1> DEFINE m == NodeCount(size, s, e)
           z == size * m
<1>1. size \in Nat \ {0} /\ size % kAlign = 0 /\ s \in Nat /\ e \in Nat /\ s % kAlign = 0
  BY DEF Classes, Nodes, Addresses
<1>2. m \in Nat /\ z \in Nat /\ z <= e - s /\ size <= z
  BY <1>1, NodeCountIs
<1>3. /\ ListsOK(free_list_')
      /\ \A x \in Nat : Free(free_list_', x) => Free(F, x) \/ (s + size <= x /\ x < s + z)
  BY <1>1, RefilledOK
<1>4. s + z \in Addresses /\ s + z <= e
  <2>1. z % kAlign = 0
    BY <1>1, <1>2, TimesAligned
  <2> HIDE DEF z
  <2>2. (s + z) % kAlign = 0
    BY <1>1, <1>2, <2>1, AddAligned
  <2> QED
    BY <1>1, <1>2, <2>2 DEF Addresses
<1>5. start_free_' = s + z
  OBVIOUS
<1> HIDE DEF z
<1>6. \A x \in Nat : In(x, s, RoundUp(n)) => s <= x /\ x < s + size /\ x < e
  BY <1>1 DEF In
<1>7. /\ BlocksOK(block', fresh')
      /\ \A x \in Nat : Held(block', fresh', x) => Held(block, fresh, x) \/ In(x, s, RoundUp(n))
  BY <1>6, InvGives, Given
<1>8. Separate(free_list_', start_free_', end_free_', block', fresh', heap')
  <2> SUFFICES ASSUME NEW x \in Nat
      PROVE /\ (s + z <= x /\ x < e) \/ Free(free_list_', x) \/ Held(block', fresh', x)
                 => kAlign <= x /\ x < heap'
            /\ (s + z <= x /\ x < e)
                 => ~Free(free_list_', x) /\ ~Held(block', fresh', x)
            /\ Free(free_list_', x) => ~Held(block', fresh', x)
    BY <1>5 DEF Separate
  <2>1. Free(free_list_', x) => Free(F, x) \/ (s + size <= x /\ x < s + z)
    BY <1>3
  <2>2. Held(block', fresh', x) => Held(block, fresh, x) \/ (s <= x /\ x < s + size /\ x < e)
    BY <1>6, <1>7
  <2>3. Held(block, fresh, x) => kAlign <= x /\ x < heap'
    <3>1. Held(block, fresh, x) => kAlign <= x /\ x < heap
      BY InvByte
    <3>2. heap' \in Nat /\ heap \in Nat
      BY NodeAbove, InvGives
    <3> QED
      BY <3>1, <3>2
  <2>4. s + z <= x => s <= x /\ s + size <= x
    BY <1>1, <1>2
  <2>5. s + size <= x => s <= x
    BY <1>1
  <2>6. x < s + z => x < e
    BY <1>1, <1>2
  <2>7. /\ ~(x < s + size /\ s + size <= x) /\ ~(x < s + z /\ s + z <= x)
    BY <1>1, <1>2
  <2>8. /\ s <= x /\ x < e =>
             ~Free(F, x) /\ ~Held(block, fresh, x) /\ kAlign <= x /\ x < heap'
        /\ Free(F, x) => ~Held(block, fresh, x) /\ kAlign <= x /\ x < heap'
    OBVIOUS
  <2> QED
    BY <2>1, <2>2, <2>3, <2>4, <2>5, <2>6, <2>7, <2>8
<1> QED
  BY <1>3, <1>4, <1>5, <1>7, <1>8, InvGives, StepKeeps

\* Refill from the chunk.
LEMMA RefillFromChunkKeeps ==
    ASSUME Inv, NEW c \in Clients, NEW n \in Nat \ {0}, block[c] = NoBlock \/ fresh[c] = NoBlock,
           RefillFromChunk(c, n)
    PROVE  Inv'
<1>1. PICK size : size = RoundUp(n)
  OBVIOUS
<1>2. size \in Classes /\ size \in Nat /\ size >= 1
  BY <1>1, SmallClass DEF RefillFromChunk, NeedsRefill, Classes
<1>3. PICK s, e : s = start_free_ /\ e = end_free_
  OBVIOUS
<1>4. s \in Nat /\ e \in Nat /\ e \in Addresses /\ s \in Addresses /\ ListsOK(free_list_)
  BY <1>3, InvGives
<1>5. e - s >= size
  BY <1>1, <1>2, <1>3, <1>4 DEF RefillFromChunk, ChunkTooSmall
<1>6. s \in Nodes
  <2>1. kAlign <= s
    BY <1>2, <1>3, <1>4, <1>5, InvByte
  <2> QED
    BY <1>4, <2>1, PoolAssumption DEF Nodes
<1>7. /\ Give(c, s, n) /\ free_list_' = Refilled(free_list_, size, s, e)
      /\ start_free_' = s + size * NodeCount(size, s, e) /\ end_free_' = e
      /\ heap_size_' = heap_size_ /\ heap' = heap /\ status' = status
  BY <1>1, <1>3 DEF RefillFromChunk
<1>8. \A x \in Nat : /\ s <= x /\ x < e =>
                          ~Free(free_list_, x) /\ ~Held(block, fresh, x) /\ kAlign <= x /\ x < heap'
                     /\ Free(free_list_, x) =>
                          ~Held(block, fresh, x) /\ kAlign <= x /\ x < heap'
  BY <1>3, <1>7, InvByte
<1>9. heap_size_' \in Nat /\ heap' \in Nodes /\ heap <= heap'
  BY <1>7, InvGives
<1> QED
  BY <1>1, <1>2, <1>4, <1>5, <1>6, <1>7, <1>8, <1>9, RefillKeeps

\* What malloc is asked for is aligned and holds at least one node.
LEMMA BytesToGetIs ==
    ASSUME Inv, NEW size \in Classes
    PROVE  BytesToGet(size) \in Nat /\ BytesToGet(size) % kAlign = 0 /\ size <= BytesToGet(size)
<1> DEFINE h == heap_size_ \div HeapDivisor
           y == 2 * size * kObjs
<1>1. h \in Nat
  BY DivMod, InvGives, PoolAssumption
<1>2. HeapShare \in Nat /\ HeapShare % kAlign = 0
  BY <1>1, RoundUpIs DEF HeapShare
<1>3. size \in Nat /\ size >= 1 /\ size % kAlign = 0 /\ kObjs \in Nat /\ kObjs >= 2
  BY PoolAssumption DEF Classes
<1>4. y = size * (2 * kObjs) /\ 2 * kObjs \in Nat /\ 2 * kObjs >= 1
  BY <1>3
<1>5. y \in Nat /\ y % kAlign = 0
  BY <1>3, <1>4, TimesAligned
<1>6. size <= y
  <2>1. PICK m : m = 2 * kObjs
    OBVIOUS
  <2>2. m \in Nat /\ m >= 1 /\ y = size * m
    BY <1>4, <2>1
  <2> HIDE DEF y
  <2> QED
    BY <1>3, <2>2
<1>7. BytesToGet(size) = y + HeapShare
  BY DEF BytesToGet
<1> HIDE DEF y
<1> QED
  BY <1>2, <1>3, <1>5, <1>6, <1>7, AddAligned

\* Refill from a new chunk.
LEMMA RefillFromHeapKeeps ==
    ASSUME Inv, NEW c \in Clients, NEW n \in Nat \ {0}, block[c] = NoBlock \/ fresh[c] = NoBlock,
           RefillFromHeap(c, n)
    PROVE  Inv'
<1>1. PICK size : size = RoundUp(n)
  OBVIOUS
<1>2. size \in Classes /\ size \in Nat /\ size >= 1
  BY <1>1, SmallClass DEF RefillFromHeap, NeedsRefill, Classes
<1>3. PICK s, e, F : s = heap /\ e = heap + BytesToGet(size) /\ F = Donated
  OBVIOUS
<1>4. BytesToGet(size) \in Nat /\ BytesToGet(size) % kAlign = 0 /\ size <= BytesToGet(size)
  BY <1>2, BytesToGetIs
<1>5. s \in Nodes /\ s \in Nat /\ e \in Nodes /\ e \in Nat /\ e \in Addresses /\ e - s >= size
  <2>1. e \in Nodes /\ e \in Nat /\ s \in Nodes /\ s \in Nat
    BY <1>3, <1>4, HeapGrows, InvGives
  <2> QED
    BY <1>2, <1>3, <1>4, <2>1 DEF Nodes
<1>6. /\ Give(c, s, n) /\ free_list_' = Refilled(F, size, s, e)
      /\ start_free_' = s + size * NodeCount(size, s, e) /\ end_free_' = e
      /\ heap_size_' = heap_size_ + BytesToGet(size) /\ heap' = e /\ status' = status
  BY <1>1, <1>3 DEF RefillFromHeap
<1>7. /\ ListsOK(F)
      /\ \A x \in Nat : Free(F, x) =>
            Free(free_list_, x) \/ (start_free_ <= x /\ x < end_free_)
  BY <1>1, <1>2, <1>3, DonatedOK DEF RefillFromHeap, ChunkTooSmall
<1>8. heap_size_' \in Nat /\ heap' \in Nodes /\ heap <= heap'
  BY <1>2, <1>3, <1>4, <1>5, <1>6, InvGives
<1>9. ASSUME NEW x \in Nat
      PROVE  /\ s <= x /\ x < e =>
                  ~Free(F, x) /\ ~Held(block, fresh, x) /\ kAlign <= x /\ x < heap'
             /\ Free(F, x) => ~Held(block, fresh, x) /\ kAlign <= x /\ x < heap'
  <2>1. Free(F, x) => ~Held(block, fresh, x) /\ kAlign <= x /\ x < heap
    BY <1>7, InvByte
  <2>2. Held(block, fresh, x) => x < heap
    BY InvByte
  <2>3. kAlign \in Nat /\ kAlign <= heap
    BY InvGives, PoolAssumption
  <2> QED
    BY <1>2, <1>3, <1>5, <1>6, <2>1, <2>2, <2>3
<1> QED
  BY <1>1, <1>2, <1>5, <1>6, <1>7, <1>8, <1>9, RefillKeeps

\* Refill from a node of a larger class.
LEMMA RefillFromLargerKeeps ==
    ASSUME Inv, NEW c \in Clients, NEW n \in Nat \ {0}, block[c] = NoBlock \/ fresh[c] = NoBlock,
           RefillFromLarger(c, n)
    PROVE  Inv'
<1>1. PICK size : size = RoundUp(n)
  OBVIOUS
<1>2. size \in Classes /\ size \in Nat /\ size >= 1
  BY <1>1, SmallClass DEF RefillFromLarger, NeedsRefill, Classes
<1>3. PICK D : D = Donated
  OBVIOUS
<1>4. PICK k \in Larger(size) :
         /\ Give(c, Head(D[k]), n)
         /\ free_list_' = Refilled(WithoutHead(D, k), size, Head(D[k]), Head(D[k]) + k)
         /\ start_free_' = Head(D[k]) + size * NodeCount(size, Head(D[k]), Head(D[k]) + k)
         /\ end_free_' = Head(D[k]) + k
  BY <1>1, <1>3 DEF RefillFromLarger, WithoutHead
<1>5. heap_size_' = heap_size_ /\ heap' = heap /\ status' = status
  BY DEF RefillFromLarger
<1>6. k \in Classes /\ k \in Nat /\ k >= size /\ k % kAlign = 0 /\ D[k] # <<>>
  BY <1>3, <1>4 DEF Larger, Classes
<1>7. /\ ListsOK(D)
      /\ \A x \in Nat : Free(D, x) =>
            Free(free_list_, x) \/ (start_free_ <= x /\ x < end_free_)
  BY <1>1, <1>2, <1>3, DonatedOK DEF RefillFromLarger, ChunkTooSmall
<1>8. PICK F, s, e : F = WithoutHead(D, k) /\ s = Head(D[k]) /\ e = s + k
  OBVIOUS
<1>9. /\ ListsOK(F) /\ s \in Nodes
      /\ \A x \in Nat : In(x, s, k) => Free(D, x) /\ ~Free(F, x)
      /\ \A x \in Nat : Free(F, x) => Free(D, x)
  BY <1>6, <1>7, <1>8, Popped
<1>10. s \in Nat /\ e \in Addresses /\ e - s >= size
  <2>1. s \in Nat /\ s % kAlign = 0
    BY <1>9 DEF Nodes, Addresses
  <2>2. (s + k) % kAlign = 0
    BY <1>6, <2>1, AddAligned
  <2> QED
    BY <1>2, <1>6, <1>8, <2>1, <2>2 DEF Addresses
<1>11. ASSUME NEW x \in Nat
       PROVE  /\ s <= x /\ x < e =>
                   ~Free(F, x) /\ ~Held(block, fresh, x) /\ kAlign <= x /\ x < heap'
              /\ Free(F, x) => ~Held(block, fresh, x) /\ kAlign <= x /\ x < heap'
  <2>1. s <= x /\ x < e => In(x, s, k)
    BY <1>8 DEF In
  <2>2. Free(D, x) => ~Held(block, fresh, x) /\ kAlign <= x /\ x < heap
    BY <1>7, InvByte
  <2> QED
    BY <1>5, <1>9, <2>1, <2>2
<1>12. heap_size_' \in Nat /\ heap' \in Nodes /\ heap <= heap'
  BY <1>5, InvGives
<1>13. /\ Give(c, s, n) /\ free_list_' = Refilled(F, size, s, e)
       /\ start_free_' = s + size * NodeCount(size, s, e) /\ end_free_' = e
  BY <1>4, <1>8
<1> QED
  BY <1>1, <1>2, <1>5, <1>9, <1>10, <1>11, <1>12, <1>13, RefillKeeps

\* The lists after Deallocate have the bytes of the block that is returned.
LEMMA ReturnedOK ==
    ASSUME Inv, NEW c \in Clients, block[c] # NoBlock
    PROVE  /\ ListsOK(Returned(block[c]))
           /\ \A x \in Nat : Free(Returned(block[c]), x) =>
                 Free(free_list_, x) \/ Holds(block[c], x)
<1>1. PICK b : b = block[c]
  OBVIOUS
<1>2. b \in Blocks /\ b.addr \in Nodes /\ b.n \in Nat \ {0} /\ b # NoBlock
  BY <1>1 DEF Inv, TypeOK, Blocks
<1>3. CASE ~Small(b.n)
  BY <1>1, <1>3, InvGives DEF Returned
<1>4. CASE Small(b.n)
  <2>1. PICK k, a : k = RoundUp(b.n) /\ a = b.addr
    OBVIOUS
  <2>2. k \in Classes /\ a \in Nodes
    BY <1>2, <1>4, <2>1, SmallClass
  <2>3. Returned(b) = [free_list_ EXCEPT ![k] = <<a>> \o @]
    BY <1>4, <2>1 DEF Returned, ClassOf, FreelistIndex
  <2>4. \A x : In(x, a, k) <=> Holds(b, x)
    BY <1>2, <2>1 DEF Holds
  <2>5. \A x \in Nat : In(x, a, k) => ~Free(free_list_, x)
    BY <1>1, <2>4, InvByte DEF Held
  <2>6. /\ ListsOK(Returned(b))
        /\ \A x \in Nat : Free(Returned(b), x) => Free(free_list_, x) \/ In(x, a, k)
    BY <2>2, <2>3, <2>5, InvGives, Pushed
  <2> QED
    BY <1>1, <2>4, <2>6
<1> QED
  BY <1>3, <1>4

\* NoBlock has no byte.
LEMMA NothingHeld == \A x : ~Holds(NoBlock, x)
  BY DEF Holds

\* Returning a block.
LEMMA DeallocateKeeps ==
    ASSUME Inv, NEW c \in Clients, Deallocate(c)
    PROVE  Inv'
<1>1. /\ block[c] # NoBlock /\ fresh[c] = NoBlock /\ free_list_' = Returned(block[c])
      /\ block' = [block EXCEPT ![c] = NoBlock] /\ fresh' = fresh
      /\ start_free_' = start_free_ /\ end_free_' = end_free_ /\ heap_size_' = heap_size_
      /\ status' = status /\ heap' = heap
  BY DEF Deallocate, chunk
<1>2. /\ ListsOK(free_list_')
      /\ \A x \in Nat : Free(free_list_', x) => Free(free_list_, x) \/ Holds(block[c], x)
  BY <1>1, ReturnedOK
<1>3. BlockTypes(block, fresh) /\ HeldApart(block, fresh)
  BY InvGives DEF BlocksOK
<1>4. block'[c] = NoBlock /\ \A d \in Clients : d # c => block'[d] = block[d]
  BY <1>1, <1>3 DEF BlockTypes
<1>5. \A x \in Nat : \A d \in Clients : Holds(block'[d], x) => d # c /\ Holds(block[d], x)
  BY <1>4, NothingHeld
<1>6. HeldApart(block', fresh')
  BY <1>1, <1>3, <1>5 DEF HeldApart
<1>7. BlockTypes(block', fresh')
  BY <1>1, <1>3 DEF BlockTypes
<1>8. BlocksOK(block', fresh')
  BY <1>1, <1>4, <1>6, <1>7, InvGives DEF BlocksOK
<1>9. \A x \in Nat : Held(block', fresh', x) => Held(block, fresh, x) /\ ~Holds(block[c], x)
  BY <1>1, <1>3, <1>5 DEF Held, HeldApart
<1>10. \A x \in Nat : Holds(block[c], x) => Held(block, fresh, x)
  BY DEF Held
<1>11. Separate(free_list_', start_free_', end_free_', block', fresh', heap')
  <2> SUFFICES ASSUME NEW x \in Nat
      PROVE /\ (start_free_ <= x /\ x < end_free_) \/ Free(free_list_', x) \/ Held(block', fresh', x)
                 => kAlign <= x /\ x < heap
            /\ (start_free_ <= x /\ x < end_free_)
                 => ~Free(free_list_', x) /\ ~Held(block', fresh', x)
            /\ Free(free_list_', x) => ~Held(block', fresh', x)
    BY <1>1 DEF Separate
  <2> QED
    BY <1>2, <1>9, <1>10, InvByte
<1> QED
  BY <1>1, <1>2, <1>8, <1>11, InvGives, StepKeeps

\* The second half of Reallocate returns the old block.
LEMMA ReallocateReturnsKeeps ==
    ASSUME Inv, NEW c \in Clients, ReallocateReturns(c)
    PROVE  Inv'
<1>1. /\ fresh[c] # NoBlock /\ free_list_' = Returned(block[c])
      /\ block' = [block EXCEPT ![c] = fresh[c]] /\ fresh' = [fresh EXCEPT ![c] = NoBlock]
      /\ start_free_' = start_free_ /\ end_free_' = end_free_ /\ heap_size_' = heap_size_
      /\ status' = status /\ heap' = heap
  BY DEF ReallocateReturns, chunk
<1>2. block[c] # NoBlock
  BY <1>1 DEF Inv
<1>3. /\ ListsOK(free_list_')
      /\ \A x \in Nat : Free(free_list_', x) => Free(free_list_, x) \/ Holds(block[c], x)
  BY <1>1, <1>2, ReturnedOK
<1>4. BlockTypes(block, fresh) /\ HeldApart(block, fresh)
  BY InvGives DEF BlocksOK
<1>5. /\ block'[c] = fresh[c] /\ \A d \in Clients : d # c => block'[d] = block[d]
      /\ fresh'[c] = NoBlock /\ \A d \in Clients : d # c => fresh'[d] = fresh[d]
  BY <1>1, <1>4 DEF BlockTypes
<1>6. \A x \in Nat : \A d \in Clients :
         /\ Holds(fresh'[d], x) => d # c /\ Holds(fresh[d], x)
         /\ Holds(block'[d], x) => \/ d = c /\ Holds(fresh[c], x)
                                   \/ d # c /\ Holds(block[d], x)
  BY <1>5, NothingHeld
<1>7. HeldApart(block', fresh')
  <2> SUFFICES ASSUME NEW x \in Nat, NEW d \in Clients, NEW e \in Clients
               PROVE  /\ Holds(block'[d], x) /\ Holds(block'[e], x) => d = e
                      /\ Holds(fresh'[d], x) /\ Holds(fresh'[e], x) => d = e
                      /\ ~(Holds(block'[d], x) /\ Holds(fresh'[e], x))
    BY DEF HeldApart
  <2> QED
    BY <1>4, <1>6 DEF HeldApart
<1>8. BlockTypes(block', fresh')
  BY <1>1, <1>4 DEF BlockTypes
<1>9. BlocksOK(block', fresh')
  BY <1>5, <1>7, <1>8, InvGives DEF BlocksOK
<1>10. \A x \in Nat : Held(block', fresh', x) => Held(block, fresh, x) /\ ~Holds(block[c], x)
  BY <1>4, <1>6 DEF Held, HeldApart
<1>11. \A x \in Nat : Holds(block[c], x) => Held(block, fresh, x)
  BY DEF Held
<1>12. Separate(free_list_', start_free_', end_free_', block', fresh', heap')
  <2> SUFFICES ASSUME NEW x \in Nat
      PROVE /\ (start_free_ <= x /\ x < end_free_) \/ Free(free_list_', x) \/ Held(block', fresh', x)
                 => kAlign <= x /\ x < heap
            /\ (start_free_ <= x /\ x < end_free_)
                 => ~Free(free_list_', x) /\ ~Held(block', fresh', x)
            /\ Free(free_list_', x) => ~Held(block', fresh', x)
    BY <1>1 DEF Separate
  <2> QED
    BY <1>3, <1>10, <1>11, InvByte
<1> QED
  BY <1>1, <1>3, <1>9, <1>12, InvGives, StepKeeps

\* A block that keeps its address and does not grow past its class.
LEMMA ResizedKeeps ==
    ASSUME Inv, NEW c \in Clients, NEW n \in Nat \ {0}, block[c] # NoBlock, fresh[c] = NoBlock,
           RoundUp(n) <= RoundUp(block[c].n), block' = [block EXCEPT ![c].n = n],
           UNCHANGED <<free_list_, chunk, heap, fresh, status>>
    PROVE  Inv'
<1> DEFINE b == [block[c] EXCEPT !.n = n]
<1>1. BlockTypes(block, fresh) /\ HeldApart(block, fresh) /\ block[c] \in Blocks
  BY InvGives DEF BlocksOK, BlockTypes
<1>2. b \in Blocks /\ b.addr = block[c].addr /\ b.n = n
  BY <1>1 DEF Blocks
<1>3. block' = [block EXCEPT ![c] = b]
  OBVIOUS
<1> HIDE DEF b
<1>4. block'[c] = b /\ \A d \in Clients : d # c => block'[d] = block[d]
  BY <1>1, <1>3 DEF BlockTypes
<1>5. /\ free_list_' = free_list_ /\ fresh' = fresh /\ heap' = heap /\ status' = status
      /\ start_free_' = start_free_ /\ end_free_' = end_free_ /\ heap_size_' = heap_size_
  BY DEF chunk
<1>6. \A x \in Nat : Holds(b, x) => Holds(block[c], x)
  <2>1. /\ block[c].addr \in Nat /\ RoundUp(n) \in Nat /\ RoundUp(block[c].n) \in Nat
    <3>1. block[c].addr \in Nodes /\ block[c].n \in Nat
      BY <1>1 DEF Blocks
    <3> QED
      BY <3>1, NodeAbove, RoundUpIs
  <2> QED
    BY <1>2, <2>1 DEF Holds, In
<1>7. \A x \in Nat : \A d \in Clients : Holds(block'[d], x) => Holds(block[d], x)
  BY <1>4, <1>6
<1>8. HeldApart(block', fresh')
  BY <1>1, <1>5, <1>7 DEF HeldApart
<1>9. BlockTypes(block', fresh')
  BY <1>1, <1>2, <1>3, <1>5 DEF BlockTypes
<1>10. BlocksOK(block', fresh')
  BY <1>4, <1>5, <1>8, <1>9, InvGives DEF BlocksOK
<1>11. \A x \in Nat : Held(block', fresh', x) => Held(block, fresh, x)
  BY <1>5, <1>7 DEF Held
<1>12. Separate(free_list_', start_free_', end_free_', block', fresh', heap')
  BY <1>5, <1>11, InvByte DEF Separate
<1> QED
  BY <1>5, <1>10, <1>12, InvGives, StepKeeps

\* realloc moves a large block to new memory.
LEMMA MovedKeeps ==
    ASSUME Inv, NEW c \in Clients, NEW n \in Nat \ {0}, block[c] # NoBlock, fresh[c] = NoBlock,
           heap' = heap + RoundUp(n), block' = [block EXCEPT ![c] = [addr |-> heap, n |-> n]],
           UNCHANGED <<free_list_, chunk, fresh, status>>
    PROVE  Inv'
<1> DEFINE b == [addr |-> heap, n |-> n]
<1>1. BlockTypes(block, fresh) /\ HeldApart(block, fresh)
  BY InvGives DEF BlocksOK
<1>2. b \in Blocks /\ \A x : Holds(b, x) => In(x, heap, RoundUp(n))
  BY InvGives DEF Blocks, Holds
<1> HIDE DEF b
<1>3. block' = [block EXCEPT ![c] = b]
  BY DEF b
<1>4. block'[c] = b /\ \A d \in Clients : d # c => block'[d] = block[d]
  BY <1>1, <1>3 DEF BlockTypes
<1>5. /\ free_list_' = free_list_ /\ fresh' = fresh /\ status' = status
      /\ start_free_' = start_free_ /\ end_free_' = end_free_ /\ heap_size_' = heap_size_
  BY DEF chunk
<1>6. RoundUp(n) \in Nat /\ heap' \in Nodes /\ heap' \in Nat
  BY RoundUpIs, HeapGrows
<1>7. \A x \in Nat : In(x, heap, RoundUp(n)) => kAlign <= x /\ heap <= x /\ x < heap'
  BY InvGives, PoolAssumption DEF In
<1>8. \A x \in Nat : \A d \in Clients : Holds(block'[d], x) =>
         \/ d = c /\ In(x, heap, RoundUp(n))
         \/ d # c /\ Holds(block[d], x)
  BY <1>2, <1>4
<1>9. \A x \in Nat : In(x, heap, RoundUp(n)) =>
         \A d \in Clients : ~Holds(block[d], x) /\ ~Holds(fresh[d], x)
  <2>1. \A x \in Nat : In(x, heap, RoundUp(n)) => ~Held(block, fresh, x)
    BY <1>7, InvGives, InvByte
  <2> QED
    BY <2>1 DEF Held
<1>10. HeldApart(block', fresh')
  <2> SUFFICES ASSUME NEW x \in Nat, NEW d \in Clients, NEW e \in Clients
               PROVE  /\ Holds(block'[d], x) /\ Holds(block'[e], x) => d = e
                      /\ Holds(fresh'[d], x) /\ Holds(fresh'[e], x) => d = e
                      /\ ~(Holds(block'[d], x) /\ Holds(fresh'[e], x))
    BY DEF HeldApart
  <2> QED
    BY <1>1, <1>5, <1>8, <1>9 DEF HeldApart
<1>11. BlockTypes(block', fresh')
  BY <1>1, <1>2, <1>3, <1>5 DEF BlockTypes
<1>12. BlocksOK(block', fresh')
  BY <1>4, <1>5, <1>10, <1>11, InvGives DEF BlocksOK
<1>13. \A x \in Nat : Held(block', fresh', x) => Held(block, fresh, x) \/ In(x, heap, RoundUp(n))
  BY <1>5, <1>8 DEF Held
<1>14. Separate(free_list_', start_free_', end_free_', block', fresh', heap')
  <2> SUFFICES ASSUME NEW x \in Nat
      PROVE /\ (start_free_ <= x /\ x < end_free_) \/ Free(free_list_, x) \/ Held(block', fresh', x)
                 => kAlign <= x /\ x < heap'
            /\ (start_free_ <= x /\ x < end_free_)
                 => ~Free(free_list_, x) /\ ~Held(block', fresh', x)
            /\ Free(free_list_, x) => ~Held(block', fresh', x)
    BY <1>5 DEF Separate
  <2>1. heap \in Nat /\ heap <= heap'
    BY <1>6, InvGives
  <2>2. In(x, heap, RoundUp(n)) => kAlign <= x /\ x < heap' /\ ~(x < heap)
    BY <1>7, <2>1
  <2>3. x < heap => x < heap'
    BY <1>6, <2>1
  <2> QED
    BY <1>13, <2>2, <2>3, InvByte
<1> QED
  BY <1>5, <1>6, <1>12, <1>14, InvGives, StepKeeps

\* Before the first request there are no bytes.
LEMMA InitInv == Init => Inv
<1> SUFFICES ASSUME Init PROVE Inv
  OBVIOUS
<1> USE DEF Init
<1>1. 0 % kAlign = 0 /\ kAlign % kAlign = 0
  <2>1. (0 * kAlign) % kAlign = 0 /\ (1 * kAlign) % kAlign = 0
    BY MultipleAligned
  <2> QED
    BY <2>1, PoolAssumption
<1>2. TypeOK
  BY <1>1, PoolAssumption DEF TypeOK, Addresses, Nodes
<1>3. \A x : ~Free(free_list_, x) /\ ~Held(block, fresh, x)
  BY NothingHeld DEF Free, Held
<1>4. NodesApart(free_list_)
  BY DEF NodesApart
<1>5. HeldApart(block, fresh)
  BY NothingHeld DEF HeldApart
<1>6. Separate(free_list_, start_free_, end_free_, block, fresh, heap)
  BY <1>3 DEF Separate
<1> QED
  BY <1>2, <1>4, <1>5, <1>6 DEF Inv

\* A state in which only status has changed.
LEMMA UnchangedKeeps ==
    ASSUME Inv, UNCHANGED <<free_list_, chunk, heap, block, fresh>>,
           status' \in {"running", "undefined"}
    PROVE  Inv'
<1>1. /\ free_list_' = free_list_ /\ fresh' = fresh /\ heap' = heap /\ block' = block
      /\ start_free_' = start_free_ /\ end_free_' = end_free_ /\ heap_size_' = heap_size_
  BY DEF chunk
<1>2. Separate(free_list_', start_free_', end_free_', block', fresh', heap')
  BY <1>1 DEF Inv
<1> QED
  BY <1>1, <1>2, InvGives, StepKeeps

\* Allocate, on each of its ways.
LEMMA AllocateKeeps ==
    ASSUME Inv, NEW c \in Clients, NEW n \in Nat \ {0}, block[c] = NoBlock \/ fresh[c] = NoBlock,
           AllocateStep(c, n)
    PROVE  Inv'
<1>1. CASE RefillFromNothing(c, n)
  BY <1>1, UnchangedKeeps DEF RefillFromNothing
<1> QED
  BY <1>1, AllocateLargeKeeps, AllocateNodeKeeps, RefillFromChunkKeeps, RefillFromHeapKeeps,
     RefillFromLargerKeeps DEF AllocateStep

\* Every step keeps the bytes apart.
LEMMA NextInv == Inv /\ [Next]_vars => Inv'
<1> SUFFICES ASSUME Inv, [Next]_vars PROVE Inv'
  OBVIOUS
<1>1. \A n \in Sizes : n \in Nat \ {0}
  BY PoolAssumption
<1>2. ASSUME NEW c \in Clients, NEW n \in Sizes, Allocate(c, n) PROVE Inv'
  BY <1>1, <1>2, AllocateKeeps DEF Allocate
<1>3. ASSUME NEW c \in Clients, NEW n \in Sizes, Reallocate(c, n) PROVE Inv'
  BY <1>1, <1>3, AllocateKeeps DEF Reallocate
<1>4. ASSUME NEW c \in Clients, NEW n \in Sizes, ReallocateInPlace(c, n) PROVE Inv'
  <2>1. RoundUp(n) <= RoundUp(block[c].n)
    <3>1. RoundUp(n) = RoundUp(block[c].n) /\ RoundUp(n) \in Nat
      BY <1>1, <1>4, RoundUpIs DEF ReallocateInPlace, SameClass
    <3> QED
      BY <3>1
  <2> QED
    BY <1>1, <1>4, <2>1, ResizedKeeps DEF ReallocateInPlace
<1>5. ASSUME NEW c \in Clients, NEW n \in Sizes, ReallocateLarge(c, n) PROVE Inv'
  <2>1. CASE heap' = heap + RoundUp(n) /\ block' = [block EXCEPT ![c] = [addr |-> heap, n |-> n]]
    BY <1>1, <1>5, <2>1, MovedKeeps DEF ReallocateLarge
  <2>2. CASE n <= block[c].n /\ block' = [block EXCEPT ![c].n = n] /\ heap' = heap
    <3>1. block[c].n \in Nat
      BY <1>5 DEF ReallocateLarge, Inv, TypeOK, Blocks
    <3>2. RoundUp(block[c].n) \in Nat /\ block[c].n <= RoundUp(block[c].n)
          /\ RoundUp(block[c].n) % kAlign = 0
      BY <3>1, RoundUpIs
    <3>3. n \in Nat /\ n <= RoundUp(block[c].n)
      BY <1>1, <2>2, <3>1, <3>2
    <3>4. RoundUp(n) <= RoundUp(block[c].n)
      BY <3>2, <3>3, RoundUpBound
    <3> QED
      BY <1>1, <1>5, <2>2, <3>4, ResizedKeeps DEF ReallocateLarge
  <2> QED
    BY <1>5, <2>1, <2>2 DEF ReallocateLarge
<1>6. CASE UNCHANGED vars
  <2>1. status' \in {"running", "undefined"}
    BY <1>6, InvGives DEF vars
  <2> QED
    BY <1>6, <2>1, UnchangedKeeps DEF vars
<1> QED
  BY <1>2, <1>3, <1>4, <1>5, <1>6, DeallocateKeeps, ReallocateReturnsKeeps
     DEF Next, ClientStep, Undefined

\* The bytes are apart in every state.
THEOREM PoolInvariant == Spec => []Inv
  BY InitInv, NextInv, PTL DEF Spec

\* Everything that is handed out, kept in a list or left in the chunk is aligned,
\* and the rest of a chunk always has a size class: RoundUp in AllocChunk's
\* bytes_to_get is what keeps it so.
THEOREM TypeCorrect == Spec => []TypeOK
<1>1. Inv => TypeOK
  BY DEF Inv
<1> QED
  BY <1>1, PoolInvariant, PTL

-----------------------------------------------------------------------------
(* From bytes to intervals.                                                *)

ChunkRegion == [at |-> <<"chunk">>, from |-> start_free_, len |-> end_free_ - start_free_]
FreeRegion(k, i) == [at |-> <<"free", <<k, i>>>>, from |-> free_list_[k][i], len |-> k]
BlockRegion(c) == [at |-> <<"block", c>>, from |-> block[c].addr, len |-> RoundUp(block[c].n)]
FreshRegion(c) == [at |-> <<"fresh", c>>, from |-> fresh[c].addr, len |-> RoundUp(fresh[c].n)]

\* The regions are the intervals of the chunk, the nodes and the blocks.
LEMMA RegionsAre ==
    ASSUME NEW r \in Regions
    PROVE  \/ r = ChunkRegion
           \/ \E k \in Classes : \E i \in DOMAIN free_list_[k] : r = FreeRegion(k, i)
           \/ \E c \in Clients : block[c] # NoBlock /\ r = BlockRegion(c)
           \/ \E c \in Clients : fresh[c] # NoBlock /\ r = FreshRegion(c)
<1> DEFINE R(ki) == [at |-> <<"free", ki>>, from |-> free_list_[ki[1]][ki[2]], len |-> ki[1]]
<1>1. \/ r = ChunkRegion
      \/ \E ki \in FreeNodes : r = R(ki)
      \/ \E c \in {c \in Clients : block[c] # NoBlock} : r = BlockRegion(c)
      \/ \E c \in {c \in Clients : fresh[c] # NoBlock} : r = FreshRegion(c)
  BY Zenon DEF Regions, ChunkRegion, BlockRegion, FreshRegion
<1>2. ASSUME NEW ki \in FreeNodes, r = R(ki)
      PROVE  \E k \in Classes : \E i \in DOMAIN free_list_[k] : r = FreeRegion(k, i)
  <2>1. PICK k \in Classes : ki \in {k} \X DOMAIN free_list_[k]
    BY DEF FreeNodes
  <2>2. PICK i \in DOMAIN free_list_[k] : ki = <<k, i>>
    BY <2>1
  <2>3. ki[1] = k /\ ki[2] = i
    BY <2>2
  <2>4. r = FreeRegion(k, i)
    BY <1>2, <2>2, <2>3 DEF FreeRegion
  <2> QED
    BY <2>4
<1> HIDE DEF R
<1> QED
  BY <1>1, <1>2

\* Their bounds.
LEMMA RegionTypes ==
    ASSUME Inv, NEW r \in Regions
    PROVE  r.from \in Nat /\ r.len \in Nat
<1>1. CASE r = ChunkRegion
  <2>1. r.from = start_free_ /\ r.len = end_free_ - start_free_
    BY <1>1 DEF ChunkRegion
  <2> QED
    BY <2>1, InvGives
<1>2. ASSUME NEW k \in Classes, NEW i \in DOMAIN free_list_[k], r = FreeRegion(k, i)
      PROVE  r.from \in Nat /\ r.len \in Nat
  <2>1. r.from = free_list_[k][i] /\ r.len = k
    BY <1>2 DEF FreeRegion
  <2>2. free_list_[k] \in Seq(Nodes)
    BY DEF Inv, TypeOK
  <2>3. free_list_[k][i] \in Nodes
    BY <2>2
  <2> QED
    BY <2>1, <2>3 DEF Nodes, Addresses, Classes
<1>3. ASSUME NEW b \in Blocks PROVE b.addr \in Nat /\ RoundUp(b.n) \in Nat
  <2>1. b.addr \in Nodes /\ b.n \in Nat
    BY DEF Blocks
  <2> QED
    BY <2>1, NodeAbove, RoundUpIs
<1>4. ASSUME NEW c \in Clients, block[c] # NoBlock, r = BlockRegion(c)
      PROVE  r.from \in Nat /\ r.len \in Nat
  <2>1. r.from = block[c].addr /\ r.len = RoundUp(block[c].n) /\ block[c] \in Blocks
    BY <1>4 DEF BlockRegion, Inv, TypeOK
  <2> QED
    BY <1>3, <2>1
<1>5. ASSUME NEW c \in Clients, fresh[c] # NoBlock, r = FreshRegion(c)
      PROVE  r.from \in Nat /\ r.len \in Nat
  <2>1. r.from = fresh[c].addr /\ r.len = RoundUp(fresh[c].n) /\ fresh[c] \in Blocks
    BY <1>5 DEF FreshRegion, Inv, TypeOK
  <2> QED
    BY <1>3, <2>1
<1> QED
  BY <1>1, <1>2, <1>4, <1>5, RegionsAre

\* A byte of a region, by the kind of the region.
LEMMA RegionByte ==
    ASSUME Inv, NEW r \in Regions, NEW x \in Nat, In(x, r.from, r.len)
    PROVE  \/ r = ChunkRegion /\ start_free_ <= x /\ x < end_free_
           \/ \E k \in Classes : \E i \in DOMAIN free_list_[k] :
                 r = FreeRegion(k, i) /\ In(x, free_list_[k][i], k)
           \/ \E c \in Clients : r = BlockRegion(c) /\ Holds(block[c], x)
           \/ \E c \in Clients : r = FreshRegion(c) /\ Holds(fresh[c], x)
<1>1. CASE r = ChunkRegion
  <2>1. r.from = start_free_ /\ r.len = end_free_ - start_free_
    BY <1>1 DEF ChunkRegion
  <2> QED
    BY <1>1, <2>1, InvGives DEF In
<1>2. ASSUME NEW k \in Classes, NEW i \in DOMAIN free_list_[k], r = FreeRegion(k, i)
      PROVE  In(x, free_list_[k][i], k)
  BY <1>2 DEF FreeRegion
<1>3. ASSUME NEW c \in Clients, block[c] # NoBlock, r = BlockRegion(c)
      PROVE  Holds(block[c], x)
  BY <1>3 DEF BlockRegion, Holds
<1>4. ASSUME NEW c \in Clients, fresh[c] # NoBlock, r = FreshRegion(c)
      PROVE  Holds(fresh[c], x)
  BY <1>4 DEF FreshRegion, Holds
<1> QED
  BY <1>1, <1>2, <1>3, <1>4, RegionsAre

\* A byte is in one region.
LEMMA OneRegion ==
    ASSUME Inv, NEW r \in Regions, NEW q \in Regions, NEW x \in Nat,
           In(x, r.from, r.len), In(x, q.from, q.len)
    PROVE  r = q
<1>1. CASE r = ChunkRegion /\ start_free_ <= x /\ x < end_free_
  BY <1>1, RegionByte, InvByte DEF Free, Held
<1>2. CASE \E k \in Classes : \E i \in DOMAIN free_list_[k] :
              r = FreeRegion(k, i) /\ In(x, free_list_[k][i], k)
  <2>1. PICK k \in Classes : \E i \in DOMAIN free_list_[k] :
              r = FreeRegion(k, i) /\ In(x, free_list_[k][i], k)
    BY <1>2
  <2>2. PICK i \in DOMAIN free_list_[k] : r = FreeRegion(k, i) /\ In(x, free_list_[k][i], k)
    BY <2>1
  <2>3. Free(free_list_, x)
    BY <2>2 DEF Free
  <2>4. ~(start_free_ <= x /\ x < end_free_) /\ ~Held(block, fresh, x)
    BY <2>3, InvByte
  <2>5. \E l \in Classes : \E j \in DOMAIN free_list_[l] :
           q = FreeRegion(l, j) /\ In(x, free_list_[l][j], l)
    BY <2>4, RegionByte DEF Held
  <2>6. \A l \in Classes : \A j \in DOMAIN free_list_[l] :
           In(x, free_list_[l][j], l) => l = k /\ j = i
    BY <2>2, InvGives DEF ListsOK, NodesApart
  <2> QED
    BY <2>2, <2>5, <2>6
<1>3. CASE \E c \in Clients : r = BlockRegion(c) /\ Holds(block[c], x)
  <2>1. PICK c \in Clients : r = BlockRegion(c) /\ Holds(block[c], x)
    BY <1>3
  <2>2. Held(block, fresh, x)
    BY <2>1 DEF Held
  <2>3. ~(start_free_ <= x /\ x < end_free_) /\ ~Free(free_list_, x)
    BY <2>2, InvByte
  <2>4. \A d \in Clients : ~Holds(fresh[d], x) /\ (Holds(block[d], x) => d = c)
    BY <2>1, InvGives DEF BlocksOK, HeldApart
  <2>5. \E d \in Clients : q = BlockRegion(d) /\ Holds(block[d], x)
    BY <2>3, <2>4, RegionByte DEF Free
  <2> QED
    BY <2>1, <2>4, <2>5
<1>4. CASE \E c \in Clients : r = FreshRegion(c) /\ Holds(fresh[c], x)
  <2>1. PICK c \in Clients : r = FreshRegion(c) /\ Holds(fresh[c], x)
    BY <1>4
  <2>2. Held(block, fresh, x)
    BY <2>1 DEF Held
  <2>3. ~(start_free_ <= x /\ x < end_free_) /\ ~Free(free_list_, x)
    BY <2>2, InvByte
  <2>4. \A d \in Clients : ~Holds(block[d], x) /\ (Holds(fresh[d], x) => d = c)
    BY <2>1, InvGives DEF BlocksOK, HeldApart
  <2>5. \E d \in Clients : q = FreshRegion(d) /\ Holds(fresh[d], x)
    BY <2>3, <2>4, RegionByte DEF Free
  <2> QED
    BY <2>1, <2>4, <2>5
<1> QED
  BY <1>1, <1>2, <1>3, <1>4, RegionByte

\* Every byte of a region comes from malloc.
LEMMA RegionInHeap ==
    ASSUME Inv, NEW r \in Regions, NEW x \in Nat, In(x, r.from, r.len)
    PROVE  kAlign <= x /\ x < heap
<1>1. (start_free_ <= x /\ x < end_free_) \/ Free(free_list_, x) \/ Held(block, fresh, x)
  BY RegionByte DEF Free, Held
<1> QED
  BY <1>1, InvByte

\* However threads interleave Allocate, Deallocate and the two halves of
\* Reallocate, and wherever AllocChunk finds memory, no byte is handed out twice.
THEOREM DisjointAlways == Spec => []Disjoint
<1>1. Inv => Disjoint
  <2> SUFFICES ASSUME Inv, NEW r \in Regions
               PROVE  /\ r.len > 0 => r.from >= kAlign /\ r.from + r.len <= heap
                      /\ \A q \in Regions :
                            q # r => \/ r.from + r.len <= q.from \/ q.from + q.len <= r.from
                                     \/ r.len * q.len = 0
    BY DEF Disjoint
  <2>1. r.from \in Nat /\ r.len \in Nat /\ heap \in Nat /\ kAlign \in Nat
    BY RegionTypes, InvGives, PoolAssumption
  <2>2. ASSUME r.len > 0 PROVE r.from >= kAlign /\ r.from + r.len <= heap
    <3>1. PICK x, y : x = r.from /\ y = r.from + r.len - 1
      OBVIOUS
    <3>2. x \in Nat /\ y \in Nat /\ In(x, r.from, r.len) /\ In(y, r.from, r.len)
      BY <2>1, <2>2, <3>1 DEF In
    <3>3. kAlign <= x /\ y < heap
      BY <3>2, RegionInHeap
    <3> QED
      BY <2>1, <3>1, <3>3
  <2>3. ASSUME NEW q \in Regions, q # r
        PROVE  \/ r.from + r.len <= q.from \/ q.from + q.len <= r.from
               \/ r.len * q.len = 0
    <3>1. q.from \in Nat /\ q.len \in Nat
      BY RegionTypes
    <3>2. CASE r.len = 0 \/ q.len = 0
      BY <2>1, <3>1, <3>2
    <3>3. CASE r.len > 0 /\ q.len > 0
      <4>1. PICK x : x = IF r.from > q.from THEN r.from ELSE q.from
        OBVIOUS
      <4>2. x \in Nat /\ ~(In(x, r.from, r.len) /\ In(x, q.from, q.len))
        BY <2>1, <2>3, <3>1, <4>1, OneRegion
      <4> QED
        BY <2>1, <3>1, <3>3, <4>1, <4>2 DEF In
    <3> QED
      BY <2>1, <3>1, <3>2, <3>3
  <2> QED
    BY <2>2, <2>3
<1> QED
  BY <1>1, PoolInvariant, PTL

-----------------------------------------------------------------------------
(* Nothing is lost.  The bytes of the chunk, the lists and the small blocks  *)
(* are the same before and after every step, except that AllocChunk adds    *)
(* those it gets from malloc.                                                *)

SmallHolds(b, x)   == Holds(b, x) /\ Small(b.n)
HeldSmall(B, N, x) == \E c \in Clients : SmallHolds(B[c], x) \/ SmallHolds(N[c], x)

Kept(F, s, e, B, N, x) == (s <= x /\ x < e) \/ Free(F, x) \/ HeldSmall(B, N, x)
KeptNow(x) == Kept(free_list_, start_free_, end_free_, block, fresh, x)

\* A block is not NoBlock.
LEMMA BlockIsSome ==
    ASSUME NEW b \in Blocks
    PROVE  b # NoBlock
<1>1. b \in [addr : Nat, n : Nat]
  BY DEF Blocks, Nodes, Addresses
<1> QED
  BY <1>1, PoolAssumption

\* A node that is put on a list joins the others.
LEMMA PushedAll ==
    ASSUME NEW F, ListsOK(F), NEW c \in Classes, NEW a \in Nodes,
           NEW G, G = [F EXCEPT ![c] = <<a>> \o @], NEW x \in Nat, Free(F, x) \/ In(x, a, c)
    PROVE  Free(G, x)
<1> DEFINE t == <<a>> \o F[c]
<1>1. F \in [Classes -> Seq(Nodes)] /\ F[c] \in Seq(Nodes)
  BY DEF ListsOK
<1>2. /\ 1 \in DOMAIN t /\ t[1] = a
      /\ \A k \in DOMAIN F[c] : k + 1 \in DOMAIN t /\ t[k + 1] = F[c][k]
  BY <1>1, Prepend
<1>3. G = [F EXCEPT ![c] = t]
  OBVIOUS
<1> HIDE DEF t
<1>4. G[c] = t /\ \A k \in Classes : k # c => G[k] = F[k]
  BY <1>1, <1>3
<1>5. CASE In(x, a, c)
  BY <1>2, <1>4, <1>5 DEF Free
<1>6. CASE Free(F, x)
  <2>1. PICK k \in Classes : \E i \in DOMAIN F[k] : In(x, F[k][i], k)
    BY <1>6 DEF Free
  <2>2. PICK i \in DOMAIN F[k] : In(x, F[k][i], k)
    BY <2>1
  <2>3. CASE k = c
    BY <1>2, <1>4, <2>2, <2>3 DEF Free
  <2>4. CASE k # c
    BY <1>4, <2>2, <2>4 DEF Free
  <2> QED
    BY <2>3, <2>4
<1> QED
  BY <1>5, <1>6

\* When the first node of a list is taken the others stay.
LEMMA PoppedAll ==
    ASSUME NEW F, ListsOK(F), NEW c \in Classes, F[c] # <<>>,
           NEW G, G = WithoutHead(F, c), NEW x \in Nat, Free(F, x)
    PROVE  Free(G, x) \/ In(x, Head(F[c]), c)
<1> DEFINE q == F[c]
           t == Tail(q)
<1>1. F \in [Classes -> Seq(Nodes)] /\ q \in Seq(Nodes) /\ q # <<>>
  BY DEF ListsOK
<1>2. G = [F EXCEPT ![c] = t]
  BY DEF WithoutHead
<1>3. q = F[c]
  OBVIOUS
<1> HIDE DEF q
<1>4. \A k \in DOMAIN q : \/ k = 1 /\ q[k] = Head(q)
                          \/ k - 1 \in DOMAIN t /\ t[k - 1] = q[k]
  BY <1>1
<1> HIDE DEF t
<1>5. G[c] = t /\ \A k \in Classes : k # c => G[k] = F[k]
  BY <1>1, <1>2
<1>6. PICK k \in Classes : \E i \in DOMAIN F[k] : In(x, F[k][i], k)
  BY DEF Free
<1>7. PICK i \in DOMAIN F[k] : In(x, F[k][i], k)
  BY <1>6
<1>8. CASE k = c
  BY <1>3, <1>4, <1>5, <1>7, <1>8 DEF Free
<1>9. CASE k # c
  BY <1>5, <1>7, <1>9 DEF Free
<1> QED
  BY <1>8, <1>9

\* Every byte behind the first node is in one of the nodes that Refill cuts, and a
\* list that was empty loses nothing.
LEMMA RefilledAll ==
    ASSUME NEW F, ListsOK(F), NEW size \in Classes, NEW s \in Nodes, NEW e \in Nat, e - s >= size,
           F[size] = <<>>, NEW G, G = Refilled(F, size, s, e), NEW x \in Nat,
           Free(F, x) \/ (s + size <= x /\ x < s + size * NodeCount(size, s, e))
    PROVE  Free(G, x)
<1> DEFINE m == NodeCount(size, s, e)
           t == [i \in 1 .. m - 1 |-> s + i * size]
<1>1. size \in Nat \ {0} /\ size % kAlign = 0 /\ s \in Nat
  BY DEF Classes, Nodes, Addresses
<1>2. m \in Nat /\ m >= 1 /\ size * m \in Nat
  BY <1>1, NodeCountIs
<1>3. FreelistIndex(size) = size
  BY <1>1, RoundUpAligned DEF FreelistIndex
<1>4. G = IF m = 1 THEN F ELSE [F EXCEPT ![size] = t]
  BY <1>3 DEF Refilled
<1>5. Free(F, x) \/ (s + size <= x /\ x < s + size * m)
  OBVIOUS
<1> HIDE DEF m
<1>6. CASE m = 1
  <2>1. size * m = size
    BY <1>1, <1>6
  <2> QED
    BY <1>1, <1>4, <1>5, <1>6, <2>1
<1>7. CASE m # 1
  <2>1. F \in [Classes -> Seq(Nodes)]
    BY DEF ListsOK
  <2>2. \A i \in 1 .. m - 1 : t[i] = s + i * size
    OBVIOUS
  <2>3. DOMAIN t = 1 .. m - 1
    OBVIOUS
  <2> HIDE DEF t
  <2>4. G[size] = t /\ \A k \in Classes : k # size => G[k] = F[k]
    BY <1>4, <1>7, <2>1
  <2>5. CASE Free(F, x)
    <3>1. PICK k \in Classes : \E i \in DOMAIN F[k] : In(x, F[k][i], k)
      BY <2>5 DEF Free
    <3>2. k # size
      BY <3>1
    <3> QED
      BY <2>4, <3>1, <3>2 DEF Free
  <2>6. CASE s + size <= x /\ x < s + size * m
    <3>1. PICK y : y = x - s
      OBVIOUS
    <3>2. y \in Nat /\ size <= y /\ y < size * m
      BY <1>1, <1>2, <2>6, <3>1
    <3>3. PICK i : i = y \div size
      OBVIOUS
    <3>4. /\ i \in Nat /\ y % size \in Nat /\ y % size < size
          /\ y = size * i + (y % size)
      BY <1>1, <3>2, <3>3, DivMod
    <3>5. i * size = size * i /\ i * size \in Nat
      BY <1>1, <3>4
    <3>6. i >= 1
      <4>1. CASE i = 0
        BY <1>1, <3>2, <3>4, <4>1
      <4> QED
        BY <3>4, <4>1
    <3>7. i < m
      <4>1. CASE m <= i
        <5>1. size * m <= size * i
          BY <1>1, <1>2, <3>4, <4>1
        <5> QED
          BY <1>1, <1>2, <3>2, <3>4, <3>5, <5>1
      <4> QED
        BY <1>2, <3>4, <4>1
    <3>8. i \in 1 .. m - 1
      BY <1>2, <3>4, <3>6, <3>7
    <3>9. In(x, t[i], size)
      <4>1. t[i] = s + i * size
        BY <2>2, <3>8
      <4> DEFINE z == i * size
      <4>2. z \in Nat /\ t[i] = s + z /\ y = z + (y % size)
        BY <3>4, <3>5, <4>1
      <4> HIDE DEF z
      <4> QED
        BY <1>1, <3>1, <3>2, <3>4, <4>2 DEF In
    <3> QED
      BY <2>3, <2>4, <3>8, <3>9 DEF Free
  <2> QED
    BY <1>5, <2>5, <2>6
<1> QED
  BY <1>6, <1>7

\* Donating the rest of the chunk keeps its bytes and leaves the larger lists alone.
LEMMA DonatedAll ==
    ASSUME Inv, NEW size \in Classes, end_free_ - start_free_ < size
    PROVE  /\ \A x \in Nat : Free(Donated, x) <=>
                 Free(free_list_, x) \/ (start_free_ <= x /\ x < end_free_)
           /\ Donated[size] = free_list_[size]
<1> DEFINE d == end_free_ - start_free_
<1>1. /\ start_free_ \in Nat /\ start_free_ % kAlign = 0 /\ end_free_ \in Nat
      /\ end_free_ % kAlign = 0 /\ start_free_ <= end_free_ /\ ListsOK(free_list_)
  BY InvGives DEF Addresses
<1>2. CASE end_free_ = start_free_
  BY <1>1, <1>2 DEF Donated
<1>3. CASE end_free_ # start_free_
  <2>1. d \in Nat \ {0} /\ d % kAlign = 0
    BY <1>1, <1>3, AddAligned
  <2>2. size \in Nat /\ size <= kMaxBytes
    BY PoolAssumption DEF Classes
  <2>3. d \in Classes /\ d # size
    BY <2>1, <2>2, PoolAssumption DEF Classes
  <2>4. FreelistIndex(d) = d
    BY <2>1, RoundUpAligned DEF FreelistIndex
  <2>5. Donated = [free_list_ EXCEPT ![d] = <<start_free_>> \o @]
    BY <1>3, <2>4 DEF Donated
  <2>6. start_free_ \in Nodes
    <3>1. kAlign <= start_free_
      BY <1>1, <1>3 DEF Inv, Separate
    <3> QED
      BY <1>1, <3>1, PoolAssumption DEF Nodes, Addresses
  <2>7. \A x \in Nat : In(x, start_free_, d) <=> start_free_ <= x /\ x < end_free_
    BY <1>1 DEF In
  <2>8. Donated[size] = free_list_[size]
    BY <2>3, <2>5 DEF Inv, TypeOK
  <2>9. \A x \in Nat : Free(Donated, x) =>
           Free(free_list_, x) \/ (start_free_ <= x /\ x < end_free_)
    BY DonatedOK
  <2> HIDE DEF d
  <2>10. \A x \in Nat : Free(free_list_, x) \/ In(x, start_free_, d) => Free(Donated, x)
    BY <1>1, <2>3, <2>5, <2>6, PushedAll
  <2> QED
    BY <2>7, <2>8, <2>9, <2>10
<1> QED
  BY <1>2, <1>3

\* One entry of the table of blocks changes.
LEMMA OneBlockChanges ==
    ASSUME NEW B, NEW N, NEW B2, NEW c \in Clients, NEW b, NEW x,
           B \in [Clients -> Blocks \cup {NoBlock}], B2 = [B EXCEPT ![c] = b],
           SmallHolds(b, x) <=> SmallHolds(B[c], x)
    PROVE  HeldSmall(B2, N, x) <=> HeldSmall(B, N, x)
<1>1. B2[c] = b /\ \A d \in Clients : d # c => B2[d] = B[d]
  OBVIOUS
<1>2. \A d \in Clients : SmallHolds(B2[d], x) <=> SmallHolds(B[d], x)
  BY <1>1
<1> QED
  BY <1>2 DEF HeldSmall

\* The bytes of small blocks after a thread got a block.
LEMMA GivenAll ==
    ASSUME BlocksOK(block, fresh), NEW c \in Clients, NEW a \in Nodes, NEW n \in Nat \ {0},
           block[c] = NoBlock \/ fresh[c] = NoBlock, Give(c, a, n), NEW x \in Nat
    PROVE  HeldSmall(block', fresh', x) <=>
              HeldSmall(block, fresh, x) \/ (Small(n) /\ In(x, a, RoundUp(n)))
<1> DEFINE b == [addr |-> a, n |-> n]
<1>1. b \in Blocks /\ b.addr = a /\ b.n = n
  BY DEF Blocks
<1> HIDE DEF b
<1>2. b # NoBlock
  BY <1>1, BlockIsSome
<1>3. SmallHolds(b, x) <=> Small(n) /\ In(x, a, RoundUp(n))
  BY <1>1, <1>2 DEF SmallHolds, Holds
<1>4. ~SmallHolds(NoBlock, x)
  BY NothingHeld DEF SmallHolds
<1>5. BlockTypes(block, fresh)
  BY DEF BlocksOK
<1>6. CASE block[c] = NoBlock
  <2>1. block' = [block EXCEPT ![c] = b] /\ fresh' = fresh
    BY <1>6 DEF Give, b
  <2>2. block'[c] = b /\ \A d \in Clients : d # c => block'[d] = block[d]
    BY <1>5, <2>1 DEF BlockTypes
  <2> QED
    BY <1>3, <1>4, <1>6, <2>1, <2>2 DEF HeldSmall
<1>7. CASE block[c] # NoBlock
  <2>1. fresh' = [fresh EXCEPT ![c] = b] /\ block' = block
    BY <1>7 DEF Give, b
  <2>2. fresh'[c] = b /\ \A d \in Clients : d # c => fresh'[d] = fresh[d]
    BY <1>5, <2>1 DEF BlockTypes
  <2> QED
    BY <1>3, <1>4, <1>7, <2>1, <2>2 DEF HeldSmall
<1> QED
  BY <1>6, <1>7

\* A large block from malloc is not the pool's.
LEMMA AllocateLargeAll ==
    ASSUME Inv, NEW c \in Clients, NEW n \in Nat \ {0}, block[c] = NoBlock \/ fresh[c] = NoBlock,
           AllocateLarge(c, n), NEW x \in Nat
    PROVE  KeptNow(x)' <=> KeptNow(x)
<1>1. /\ Give(c, heap, n) /\ ~Small(n) /\ free_list_' = free_list_
      /\ start_free_' = start_free_ /\ end_free_' = end_free_
  BY DEF AllocateLarge, chunk
<1>2. HeldSmall(block', fresh', x) <=> HeldSmall(block, fresh, x)
  BY <1>1, InvGives, GivenAll
<1> QED
  BY <1>1, <1>2 DEF KeptNow, Kept

\* A node goes from a list to a thread.
LEMMA AllocateNodeAll ==
    ASSUME Inv, NEW c \in Clients, NEW n \in Nat \ {0}, block[c] = NoBlock \/ fresh[c] = NoBlock,
           AllocateNode(c, n), NEW x \in Nat
    PROVE  KeptNow(x)' <=> KeptNow(x)
<1> DEFINE k == RoundUp(n)
           p == Head(free_list_[k])
<1>1. k \in Classes /\ Small(n)
  BY SmallClass DEF AllocateNode
<1>2. /\ free_list_[k] # <<>> /\ Give(c, p, n) /\ free_list_' = WithoutHead(free_list_, k)
      /\ start_free_' = start_free_ /\ end_free_' = end_free_
  BY DEF AllocateNode, FreelistIndex, WithoutHead, chunk
<1>3. /\ p \in Nodes /\ (In(x, p, k) => Free(free_list_, x))
      /\ Free(free_list_', x) => Free(free_list_, x)
  BY <1>1, <1>2, InvGives, Popped
<1>4. Free(free_list_, x) => Free(free_list_', x) \/ In(x, p, k)
  BY <1>1, <1>2, InvGives, PoppedAll
<1> HIDE DEF p
<1>5. HeldSmall(block', fresh', x) <=> HeldSmall(block, fresh, x) \/ In(x, p, k)
  BY <1>1, <1>2, <1>3, InvGives, GivenAll
<1> QED
  BY <1>2, <1>3, <1>4, <1>5 DEF KeptNow, Kept

\* Refill divides [s, e) among the thread, the list and the chunk.
LEMMA RefillAll ==
    ASSUME Inv, NEW c \in Clients, NEW n \in Nat \ {0}, block[c] = NoBlock \/ fresh[c] = NoBlock,
           Small(n), NEW size \in Classes, size = RoundUp(n),
           NEW F, ListsOK(F), F[size] = <<>>,
           NEW s \in Nodes, NEW e \in Addresses, e - s >= size,
           \A x \in Nat : s <= x /\ x < e => ~Free(F, x),
           Give(c, s, n), free_list_' = Refilled(F, size, s, e),
           start_free_' = s + size * NodeCount(size, s, e), end_free_' = e, NEW x \in Nat
    PROVE  KeptNow(x)' <=> Free(F, x) \/ (s <= x /\ x < e) \/ HeldSmall(block, fresh, x)
<1> DEFINE m == NodeCount(size, s, e)
           z == size * m
<1>1. size \in Nat \ {0} /\ s \in Nat /\ e \in Nat
  BY DEF Classes, Nodes, Addresses
<1>2. m \in Nat /\ z \in Nat /\ z <= e - s /\ size <= z
  BY <1>1, NodeCountIs
<1>3. Free(free_list_', x) => Free(F, x) \/ (s + size <= x /\ x < s + z)
  BY <1>1, RefilledOK
<1>4. Free(F, x) \/ (s + size <= x /\ x < s + z) => Free(free_list_', x)
  BY <1>1, RefilledAll
<1>5. start_free_' = s + z
  OBVIOUS
<1> HIDE DEF z
<1>6. HeldSmall(block', fresh', x) <=>
         HeldSmall(block, fresh, x) \/ (s <= x /\ x < s + size)
  BY InvGives, GivenAll DEF In
<1>7. s <= x /\ x < e <=> \/ s <= x /\ x < s + size
                          \/ s + size <= x /\ x < s + z
                          \/ s + z <= x /\ x < e
  BY <1>1, <1>2
<1> QED
  BY <1>3, <1>4, <1>5, <1>6, <1>7 DEF KeptNow, Kept

\* Refill from the chunk.
LEMMA RefillFromChunkAll ==
    ASSUME Inv, NEW c \in Clients, NEW n \in Nat \ {0}, block[c] = NoBlock \/ fresh[c] = NoBlock,
           RefillFromChunk(c, n), NEW x \in Nat
    PROVE  KeptNow(x)' <=> KeptNow(x)
<1>1. PICK size : size = RoundUp(n)
  OBVIOUS
<1>2. size \in Classes /\ size \in Nat /\ size >= 1 /\ Small(n) /\ free_list_[size] = <<>>
  BY <1>1, SmallClass DEF RefillFromChunk, NeedsRefill, Classes, FreelistIndex
<1>3. PICK s, e : s = start_free_ /\ e = end_free_
  OBVIOUS
<1>4. s \in Nat /\ e \in Nat /\ e \in Addresses /\ s \in Addresses /\ ListsOK(free_list_)
  BY <1>3, InvGives
<1>5. e - s >= size
  BY <1>1, <1>2, <1>3, <1>4 DEF RefillFromChunk, ChunkTooSmall
<1>6. s \in Nodes
  <2>1. kAlign <= s
    BY <1>2, <1>3, <1>4, <1>5, InvByte
  <2> QED
    BY <1>4, <2>1, PoolAssumption DEF Nodes
<1>7. /\ Give(c, s, n) /\ free_list_' = Refilled(free_list_, size, s, e)
      /\ start_free_' = s + size * NodeCount(size, s, e) /\ end_free_' = e
  BY <1>1, <1>3 DEF RefillFromChunk
<1>8. \A y \in Nat : s <= y /\ y < e => ~Free(free_list_, y)
  BY <1>3, InvByte
<1>9. KeptNow(x)' <=> Free(free_list_, x) \/ (s <= x /\ x < e) \/ HeldSmall(block, fresh, x)
  BY <1>1, <1>2, <1>4, <1>5, <1>6, <1>7, <1>8, RefillAll
<1> QED
  BY <1>3, <1>9 DEF KeptNow, Kept

\* Refill from malloc adds the bytes of the new chunk.
LEMMA RefillFromHeapAll ==
    ASSUME Inv, NEW c \in Clients, NEW n \in Nat \ {0}, block[c] = NoBlock \/ fresh[c] = NoBlock,
           RefillFromHeap(c, n), NEW x \in Nat
    PROVE  KeptNow(x)' <=> KeptNow(x) \/ (heap <= x /\ x < heap')
<1>1. PICK size : size = RoundUp(n)
  OBVIOUS
<1>2. size \in Classes /\ size \in Nat /\ size >= 1 /\ Small(n) /\ free_list_[size] = <<>>
  BY <1>1, SmallClass DEF RefillFromHeap, NeedsRefill, Classes, FreelistIndex
<1>3. PICK s, e, F : s = heap /\ e = heap + BytesToGet(size) /\ F = Donated
  OBVIOUS
<1>4. BytesToGet(size) \in Nat /\ BytesToGet(size) % kAlign = 0 /\ size <= BytesToGet(size)
  BY <1>2, BytesToGetIs
<1>5. s \in Nodes /\ s \in Nat /\ e \in Nodes /\ e \in Nat /\ e \in Addresses /\ e - s >= size
  <2>1. e \in Nodes /\ e \in Nat /\ s \in Nodes /\ s \in Nat
    BY <1>3, <1>4, HeapGrows, InvGives
  <2> QED
    BY <1>2, <1>3, <1>4, <2>1 DEF Nodes
<1>6. /\ Give(c, s, n) /\ free_list_' = Refilled(F, size, s, e)
      /\ start_free_' = s + size * NodeCount(size, s, e) /\ end_free_' = e /\ heap' = e
  BY <1>1, <1>3 DEF RefillFromHeap
<1>7. /\ ListsOK(F) /\ F[size] = <<>>
      /\ \A y \in Nat : Free(F, y) <=>
            Free(free_list_, y) \/ (start_free_ <= y /\ y < end_free_)
  BY <1>1, <1>2, <1>3, DonatedOK, DonatedAll DEF RefillFromHeap, ChunkTooSmall
<1>8. \A y \in Nat : s <= y /\ y < e => ~Free(F, y)
  <2>1. \A y \in Nat : Free(F, y) => y < heap
    BY <1>7, InvByte
  <2> QED
    BY <1>3, <1>5, <2>1
<1>9. KeptNow(x)' <=> Free(F, x) \/ (s <= x /\ x < e) \/ HeldSmall(block, fresh, x)
  BY <1>1, <1>2, <1>5, <1>6, <1>7, <1>8, RefillAll
<1> QED
  BY <1>3, <1>6, <1>7, <1>9 DEF KeptNow, Kept

\* Refill from a node of a larger class.
LEMMA RefillFromLargerAll ==
    ASSUME Inv, NEW c \in Clients, NEW n \in Nat \ {0}, block[c] = NoBlock \/ fresh[c] = NoBlock,
           RefillFromLarger(c, n), NEW x \in Nat
    PROVE  KeptNow(x)' <=> KeptNow(x)
<1>1. PICK size : size = RoundUp(n)
  OBVIOUS
<1>2. size \in Classes /\ size \in Nat /\ size >= 1 /\ Small(n) /\ free_list_[size] = <<>>
  BY <1>1, SmallClass DEF RefillFromLarger, NeedsRefill, Classes, FreelistIndex
<1>3. PICK D : D = Donated
  OBVIOUS
<1>4. PICK k \in Larger(size) :
         /\ Give(c, Head(D[k]), n)
         /\ free_list_' = Refilled(WithoutHead(D, k), size, Head(D[k]), Head(D[k]) + k)
         /\ start_free_' = Head(D[k]) + size * NodeCount(size, Head(D[k]), Head(D[k]) + k)
         /\ end_free_' = Head(D[k]) + k
  BY <1>1, <1>3 DEF RefillFromLarger, WithoutHead
<1>5. k \in Classes /\ k \in Nat /\ k >= size /\ k % kAlign = 0 /\ D[k] # <<>>
  BY <1>3, <1>4 DEF Larger, Classes
<1>6. /\ ListsOK(D) /\ D[size] = <<>>
      /\ \A y \in Nat : Free(D, y) <=>
            Free(free_list_, y) \/ (start_free_ <= y /\ y < end_free_)
  BY <1>1, <1>2, <1>3, DonatedOK, DonatedAll DEF RefillFromLarger, ChunkTooSmall
<1>7. PICK F, s, e : F = WithoutHead(D, k) /\ s = Head(D[k]) /\ e = s + k
  OBVIOUS
<1>8. /\ ListsOK(F) /\ s \in Nodes
      /\ \A y \in Nat : In(y, s, k) => Free(D, y) /\ ~Free(F, y)
      /\ \A y \in Nat : Free(F, y) => Free(D, y)
  BY <1>5, <1>6, <1>7, Popped
<1>9. Free(D, x) => Free(F, x) \/ In(x, s, k)
  BY <1>5, <1>6, <1>7, PoppedAll
<1>10. F[size] = <<>>
  <2>1. D \in [Classes -> Seq(Nodes)] /\ k # size
    BY <1>5, <1>6 DEF ListsOK
  <2> QED
    BY <1>2, <1>5, <1>6, <1>7, <2>1 DEF WithoutHead
<1>11. s \in Nat /\ e \in Addresses /\ e - s >= size
  <2>1. s \in Nat /\ s % kAlign = 0
    BY <1>8 DEF Nodes, Addresses
  <2>2. (s + k) % kAlign = 0
    BY <1>5, <2>1, AddAligned
  <2> QED
    BY <1>2, <1>5, <1>7, <2>1, <2>2 DEF Addresses
<1>12. \A y \in Nat : s <= y /\ y < e <=> In(y, s, k)
  BY <1>7 DEF In
<1>13. /\ Give(c, s, n) /\ free_list_' = Refilled(F, size, s, e)
       /\ start_free_' = s + size * NodeCount(size, s, e) /\ end_free_' = e
  BY <1>4, <1>7
<1>14. KeptNow(x)' <=> Free(F, x) \/ (s <= x /\ x < e) \/ HeldSmall(block, fresh, x)
  BY <1>1, <1>2, <1>8, <1>10, <1>11, <1>12, <1>13, RefillAll
<1> QED
  BY <1>6, <1>8, <1>9, <1>12, <1>14 DEF KeptNow, Kept

\* The lists after Deallocate have the bytes of a small block that is returned.
LEMMA ReturnedAll ==
    ASSUME Inv, NEW c \in Clients, block[c] # NoBlock, NEW x \in Nat
    PROVE  Free(Returned(block[c]), x) <=> Free(free_list_, x) \/ SmallHolds(block[c], x)
<1>1. PICK b : b = block[c]
  OBVIOUS
<1>2. b \in Blocks /\ b.addr \in Nodes /\ b.n \in Nat \ {0} /\ b # NoBlock
  BY <1>1 DEF Inv, TypeOK, Blocks
<1>3. CASE ~Small(b.n)
  BY <1>1, <1>3 DEF Returned, SmallHolds
<1>4. CASE Small(b.n)
  <2>1. PICK k, a : k = RoundUp(b.n) /\ a = b.addr
    OBVIOUS
  <2>2. k \in Classes /\ a \in Nodes
    BY <1>2, <1>4, <2>1, SmallClass
  <2>3. Returned(b) = [free_list_ EXCEPT ![k] = <<a>> \o @]
    BY <1>4, <2>1 DEF Returned, ClassOf, FreelistIndex
  <2>4. In(x, a, k) <=> SmallHolds(b, x)
    BY <1>2, <1>4, <2>1 DEF SmallHolds, Holds
  <2>5. Free(free_list_, x) \/ In(x, a, k) => Free(Returned(b), x)
    BY <2>2, <2>3, InvGives, PushedAll
  <2>6. Free(Returned(b), x) => Free(free_list_, x) \/ Holds(b, x)
    BY <1>1, ReturnedOK
  <2> QED
    BY <1>1, <1>4, <2>4, <2>5, <2>6 DEF SmallHolds
<1> QED
  BY <1>3, <1>4

\* A block goes from a thread to a list.
LEMMA DeallocateAll ==
    ASSUME Inv, NEW c \in Clients, Deallocate(c), NEW x \in Nat
    PROVE  KeptNow(x)' <=> KeptNow(x)
<1>1. /\ block[c] # NoBlock /\ free_list_' = Returned(block[c])
      /\ block' = [block EXCEPT ![c] = NoBlock] /\ fresh' = fresh
      /\ start_free_' = start_free_ /\ end_free_' = end_free_
  BY DEF Deallocate, chunk
<1>2. Free(free_list_', x) <=> Free(free_list_, x) \/ SmallHolds(block[c], x)
  BY <1>1, ReturnedAll
<1>3. block'[c] = NoBlock /\ \A d \in Clients : d # c => block'[d] = block[d]
  BY <1>1, InvGives DEF BlocksOK, BlockTypes
<1>4. ~SmallHolds(NoBlock, x)
  BY NothingHeld DEF SmallHolds
<1>5. HeldSmall(block, fresh, x) <=> HeldSmall(block', fresh', x) \/ SmallHolds(block[c], x)
  BY <1>1, <1>3, <1>4 DEF HeldSmall
<1> QED
  BY <1>1, <1>2, <1>5 DEF KeptNow, Kept

\* A thread replaces its block by the new one.
LEMMA ReallocateReturnsAll ==
    ASSUME Inv, NEW c \in Clients, ReallocateReturns(c), NEW x \in Nat
    PROVE  KeptNow(x)' <=> KeptNow(x)
<1>1. /\ fresh[c] # NoBlock /\ free_list_' = Returned(block[c])
      /\ block' = [block EXCEPT ![c] = fresh[c]] /\ fresh' = [fresh EXCEPT ![c] = NoBlock]
      /\ start_free_' = start_free_ /\ end_free_' = end_free_
  BY DEF ReallocateReturns, chunk
<1>2. block[c] # NoBlock
  BY <1>1 DEF Inv
<1>3. Free(free_list_', x) <=> Free(free_list_, x) \/ SmallHolds(block[c], x)
  BY <1>1, <1>2, ReturnedAll
<1>4. /\ block'[c] = fresh[c] /\ \A d \in Clients : d # c => block'[d] = block[d]
      /\ fresh'[c] = NoBlock /\ \A d \in Clients : d # c => fresh'[d] = fresh[d]
  BY <1>1, InvGives DEF BlocksOK, BlockTypes
<1>5. ~SmallHolds(NoBlock, x)
  BY NothingHeld DEF SmallHolds
<1>6. HeldSmall(block, fresh, x) <=> HeldSmall(block', fresh', x) \/ SmallHolds(block[c], x)
  BY <1>4, <1>5 DEF HeldSmall
<1> QED
  BY <1>1, <1>3, <1>6 DEF KeptNow, Kept

\* Rounding to the same class, sizes are small together.
LEMMA SameClassSmall ==
    ASSUME NEW m \in Nat, NEW n \in Nat, Small(m), RoundUp(m) = RoundUp(n)
    PROVE  Small(n)
<1>1. RoundUp(m) <= kMaxBytes
  BY RoundUpBound, PoolAssumption DEF Small
<1>2. n <= RoundUp(n) /\ RoundUp(n) \in Nat
  BY RoundUpIs
<1> QED
  BY <1>1, <1>2, PoolAssumption DEF Small

\* Reallocate within the class.
LEMMA ReallocateInPlaceAll ==
    ASSUME Inv, NEW c \in Clients, NEW n \in Nat \ {0}, ReallocateInPlace(c, n), NEW x \in Nat
    PROVE  KeptNow(x)' <=> KeptNow(x)
<1> DEFINE b == [block[c] EXCEPT !.n = n]
<1>1. /\ block \in [Clients -> Blocks \cup {NoBlock}] /\ block[c] # NoBlock /\ block[c] \in Blocks
      /\ free_list_' = free_list_ /\ fresh' = fresh
      /\ start_free_' = start_free_ /\ end_free_' = end_free_
      /\ Small(block[c].n) \/ Small(n)
      /\ RoundUp(block[c].n) = RoundUp(n)
  BY DEF ReallocateInPlace, SameClass, chunk, Inv, TypeOK
<1>2. b \in Blocks /\ b.addr = block[c].addr /\ b.n = n /\ block[c].n \in Nat
  BY <1>1 DEF Blocks
<1>3. block' = [block EXCEPT ![c] = b]
  BY DEF ReallocateInPlace
<1> HIDE DEF b
<1>4. b # NoBlock
  BY <1>2, BlockIsSome
<1>5. Small(block[c].n) /\ Small(n)
  BY <1>1, <1>2, SameClassSmall
<1>6. SmallHolds(b, x) <=> SmallHolds(block[c], x)
  BY <1>1, <1>2, <1>4, <1>5 DEF SmallHolds, Holds
<1>7. HeldSmall(block', fresh', x) <=> HeldSmall(block, fresh, x)
  BY <1>1, <1>3, <1>6, OneBlockChanges
<1> QED
  BY <1>1, <1>7 DEF KeptNow, Kept

\* Large blocks come and go without the pool.
LEMMA ReallocateLargeAll ==
    ASSUME Inv, NEW c \in Clients, NEW n \in Nat \ {0}, ReallocateLarge(c, n), NEW x \in Nat
    PROVE  KeptNow(x)' <=> KeptNow(x)
<1>1. /\ block \in [Clients -> Blocks \cup {NoBlock}] /\ block[c] \in Blocks
      /\ free_list_' = free_list_ /\ fresh' = fresh
      /\ start_free_' = start_free_ /\ end_free_' = end_free_
      /\ ~Small(block[c].n) /\ ~Small(n)
  BY DEF ReallocateLarge, chunk, Inv, TypeOK
<1>2. PICK b : block' = [block EXCEPT ![c] = b] /\ b.n = n
  <2> DEFINE b1 == [addr |-> heap, n |-> n]
             b2 == [block[c] EXCEPT !.n = n]
  <2>1. b1.n = n /\ b2.n = n
    BY <1>1 DEF Blocks
  <2>2. block' = [block EXCEPT ![c] = b1] \/ block' = [block EXCEPT ![c] = b2]
    BY DEF ReallocateLarge
  <2> HIDE DEF b1, b2
  <2> QED
    BY <2>1, <2>2
<1>3. ~SmallHolds(b, x) /\ ~SmallHolds(block[c], x)
  BY <1>1, <1>2 DEF SmallHolds
<1>4. HeldSmall(block', fresh', x) <=> HeldSmall(block, fresh, x)
  BY <1>1, <1>2, <1>3, OneBlockChanges
<1> QED
  BY <1>1, <1>4 DEF KeptNow, Kept

KeptBytes == {x \in Nat : KeptNow(x)}

\* They are as many as heap_size_ says.
Counted == IsFiniteSet(KeptBytes) /\ Cardinality(KeptBytes) = heap_size_

\* A step that moves bytes only within the pool.
LEMMA SameCounted ==
    ASSUME Counted, \A x \in Nat : KeptNow(x)' <=> KeptNow(x), heap_size_' = heap_size_
    PROVE  Counted'
<1>1. KeptBytes' = KeptBytes
  BY DEF KeptBytes
<1> QED
  BY <1>1 DEF Counted

\* A step that adds the bytes malloc returned: they were not in the pool before,
\* because they are above heap.
LEMMA MoreCounted ==
    ASSUME Inv, Counted, NEW c \in Clients, NEW n \in Nat \ {0},
           block[c] = NoBlock \/ fresh[c] = NoBlock, RefillFromHeap(c, n)
    PROVE  Counted'
<1>1. PICK m : m = BytesToGet(RoundUp(n))
  OBVIOUS
<1>2. Small(n) /\ heap' = heap + m /\ heap_size_' = heap_size_ + m
  BY <1>1 DEF RefillFromHeap, NeedsRefill
<1>3. m \in Nat
  BY <1>1, <1>2, SmallClass, BytesToGetIs
<1>4. heap \in Nat /\ heap_size_ \in Nat
  BY InvGives
<1> DEFINE new == heap .. heap + m - 1
<1>5. IsFiniteSet(new) /\ Cardinality(new) = m
  <2>1. heap \in Int /\ heap + m - 1 \in Int
    BY <1>3, <1>4
  <2>2. PICK h : h = heap + m - 1
    OBVIOUS
  <2>3. IsFiniteSet(heap .. h) /\ Cardinality(heap .. h) = IF heap > h THEN 0 ELSE h - heap + 1
    BY <2>1, <2>2, FS_Interval
  <2>4. (IF heap > h THEN 0 ELSE h - heap + 1) = m
    BY <1>3, <1>4, <2>2
  <2> QED
    BY <2>2, <2>3, <2>4
<1>6. \A x \in Nat : KeptNow(x)' <=> KeptNow(x) \/ (heap <= x /\ x < heap')
  BY RefillFromHeapAll
<1>7. \A x \in Nat : x \in new <=> heap <= x /\ x < heap'
  BY <1>2, <1>3, <1>4
<1>8. new \subseteq Nat
  BY <1>3, <1>4
<1>9. \A x \in Nat : KeptNow(x) => x < heap
  BY InvByte DEF KeptNow, Kept, HeldSmall, SmallHolds, Held
<1>10. KeptBytes \cap new = {}
  BY <1>4, <1>7, <1>8, <1>9 DEF KeptBytes
<1> HIDE DEF new
<1>11. KeptBytes' = KeptBytes \cup new
  BY <1>6, <1>7, <1>8 DEF KeptBytes
<1>12. IsFiniteSet(KeptBytes) /\ Cardinality(KeptBytes) = heap_size_
  BY DEF Counted
<1>13. /\ IsFiniteSet(KeptBytes \cup new)
       /\ Cardinality(KeptBytes \cup new)
             = Cardinality(KeptBytes) + Cardinality(new) - Cardinality(KeptBytes \cap new)
  BY <1>5, <1>12, FS_Union
<1>14. Cardinality(KeptBytes \cap new) = 0
  BY <1>10, FS_EmptySet
<1>15. Cardinality(KeptBytes \cup new) = heap_size_'
  BY <1>2, <1>3, <1>4, <1>5, <1>12, <1>13, <1>14
<1> QED
  BY <1>11, <1>13, <1>15 DEF Counted

\* Allocate, on each of its ways.
LEMMA AllocateCounted ==
    ASSUME Inv, Counted, NEW c \in Clients, NEW n \in Nat \ {0},
           block[c] = NoBlock \/ fresh[c] = NoBlock, AllocateStep(c, n)
    PROVE  Counted'
<1>1. CASE AllocateLarge(c, n)
  <2>1. heap_size_' = heap_size_
    BY <1>1 DEF AllocateLarge, chunk
  <2>2. \A x \in Nat : KeptNow(x)' <=> KeptNow(x)
    BY <1>1, AllocateLargeAll
  <2> QED
    BY <2>1, <2>2, SameCounted
<1>2. CASE AllocateNode(c, n)
  <2>1. heap_size_' = heap_size_
    BY <1>2 DEF AllocateNode, chunk
  <2>2. \A x \in Nat : KeptNow(x)' <=> KeptNow(x)
    BY <1>2, AllocateNodeAll
  <2> QED
    BY <2>1, <2>2, SameCounted
<1>3. CASE RefillFromChunk(c, n)
  <2>1. heap_size_' = heap_size_
    BY <1>3 DEF RefillFromChunk
  <2>2. \A x \in Nat : KeptNow(x)' <=> KeptNow(x)
    BY <1>3, RefillFromChunkAll
  <2> QED
    BY <2>1, <2>2, SameCounted
<1>4. CASE RefillFromHeap(c, n)
  BY <1>4, MoreCounted
<1>5. CASE RefillFromLarger(c, n)
  <2>1. heap_size_' = heap_size_
    BY <1>5 DEF RefillFromLarger
  <2>2. \A x \in Nat : KeptNow(x)' <=> KeptNow(x)
    BY <1>5, RefillFromLargerAll
  <2> QED
    BY <2>1, <2>2, SameCounted
<1>6. CASE RefillFromNothing(c, n)
  <2>1. /\ heap_size_' = heap_size_ /\ free_list_' = free_list_ /\ start_free_' = start_free_
        /\ end_free_' = end_free_ /\ block' = block /\ fresh' = fresh
    BY <1>6 DEF RefillFromNothing, chunk
  <2>2. \A x \in Nat : KeptNow(x)' <=> KeptNow(x)
    BY <2>1 DEF KeptNow
  <2> QED
    BY <2>1, <2>2, SameCounted
<1> QED
  BY <1>1, <1>2, <1>3, <1>4, <1>5, <1>6 DEF AllocateStep

\* Every step keeps the count.
LEMMA NextCounted == Inv /\ Counted /\ [Next]_vars => Counted'
<1> SUFFICES ASSUME Inv, Counted, [Next]_vars PROVE Counted'
  OBVIOUS
<1>1. \A n \in Sizes : n \in Nat \ {0}
  BY PoolAssumption
<1>2. ASSUME NEW c \in Clients, NEW n \in Sizes, Allocate(c, n) PROVE Counted'
  BY <1>1, <1>2, AllocateCounted DEF Allocate
<1>3. ASSUME NEW c \in Clients, NEW n \in Sizes, Reallocate(c, n) PROVE Counted'
  BY <1>1, <1>3, AllocateCounted DEF Reallocate
<1>4. ASSUME NEW c \in Clients, NEW n \in Sizes, ReallocateInPlace(c, n) PROVE Counted'
  <2>1. heap_size_' = heap_size_
    BY <1>4 DEF ReallocateInPlace, chunk
  <2>2. \A x \in Nat : KeptNow(x)' <=> KeptNow(x)
    BY <1>1, <1>4, ReallocateInPlaceAll
  <2> QED
    BY <2>1, <2>2, SameCounted
<1>5. ASSUME NEW c \in Clients, NEW n \in Sizes, ReallocateLarge(c, n) PROVE Counted'
  <2>1. heap_size_' = heap_size_
    BY <1>5 DEF ReallocateLarge, chunk
  <2>2. \A x \in Nat : KeptNow(x)' <=> KeptNow(x)
    BY <1>1, <1>5, ReallocateLargeAll
  <2> QED
    BY <2>1, <2>2, SameCounted
<1>6. ASSUME NEW c \in Clients, Deallocate(c) PROVE Counted'
  <2>1. heap_size_' = heap_size_
    BY <1>6 DEF Deallocate, chunk
  <2>2. \A x \in Nat : KeptNow(x)' <=> KeptNow(x)
    BY <1>6, DeallocateAll
  <2> QED
    BY <2>1, <2>2, SameCounted
<1>7. ASSUME NEW c \in Clients, ReallocateReturns(c) PROVE Counted'
  <2>1. heap_size_' = heap_size_
    BY <1>7 DEF ReallocateReturns, chunk
  <2>2. \A x \in Nat : KeptNow(x)' <=> KeptNow(x)
    BY <1>7, ReallocateReturnsAll
  <2> QED
    BY <2>1, <2>2, SameCounted
<1>8. CASE UNCHANGED vars
  <2>1. /\ heap_size_' = heap_size_ /\ free_list_' = free_list_ /\ start_free_' = start_free_
        /\ end_free_' = end_free_ /\ block' = block /\ fresh' = fresh
    BY <1>8 DEF vars, chunk
  <2>2. \A x \in Nat : KeptNow(x)' <=> KeptNow(x)
    BY <2>1 DEF KeptNow
  <2> QED
    BY <2>1, <2>2, SameCounted
<1> QED
  BY <1>2, <1>3, <1>4, <1>5, <1>6, <1>7, <1>8 DEF Next, ClientStep, Undefined

\* At first there is nothing to count.
LEMMA InitCounted == Init => Counted
<1> SUFFICES ASSUME Init PROVE Counted
  OBVIOUS
<1>1. ASSUME NEW x \in Nat, KeptNow(x) PROVE FALSE
  <2>1. ~(start_free_ <= x /\ x < end_free_)
    BY DEF Init
  <2>2. ~Free(free_list_, x)
    BY DEF Init, Free
  <2>3. ~HeldSmall(block, fresh, x)
    BY NothingHeld DEF Init, HeldSmall, SmallHolds
  <2> QED
    BY <1>1, <2>1, <2>2, <2>3 DEF KeptNow, Kept
<1>2. KeptBytes = {}
  BY <1>1 DEF KeptBytes
<1> QED
  BY <1>2, FS_EmptySet DEF Counted, Init

\* A block is of the pool when its rounded size is at most kMaxBytes.
LEMMA SmallRounded ==
    ASSUME NEW n \in Nat
    PROVE  RoundUp(n) <= kMaxBytes <=> Small(n)
<1>1. RoundUp(n) \in Nat /\ n <= RoundUp(n)
  BY RoundUpIs
<1>2. Small(n) => RoundUp(n) <= kMaxBytes
  BY RoundUpBound, PoolAssumption DEF Small
<1> QED
  BY <1>1, <1>2, PoolAssumption DEF Small

\* The regions whose bytes PoolBytes counts.
InPool(r) == r.at = <<"chunk">> \/ r.len <= kMaxBytes

\* A byte of such a region is kept ...
LEMMA RegionKept ==
    ASSUME Inv, NEW r \in Regions, InPool(r), NEW x \in Nat, In(x, r.from, r.len)
    PROVE  KeptNow(x)
<1>1. CASE start_free_ <= x /\ x < end_free_
  BY <1>1 DEF KeptNow, Kept
<1>2. ASSUME NEW k \in Classes, NEW i \in DOMAIN free_list_[k], In(x, free_list_[k][i], k)
      PROVE  KeptNow(x)
  BY <1>2 DEF KeptNow, Kept, Free
<1>3. ASSUME NEW c \in Clients, r = BlockRegion(c), Holds(block[c], x)
      PROVE  KeptNow(x)
  <2>1. r.at = <<"block", c>> /\ r.len = RoundUp(block[c].n)
    BY <1>3 DEF BlockRegion
  <2>2. <<"block", c>> # <<"chunk">>
    OBVIOUS
  <2>3. block[c].n \in Nat
    BY <1>3 DEF Holds, Inv, TypeOK, Blocks
  <2>4. Small(block[c].n)
    BY <2>1, <2>2, <2>3, SmallRounded DEF InPool
  <2> QED
    BY <1>3, <2>4 DEF KeptNow, Kept, HeldSmall, SmallHolds
<1>4. ASSUME NEW c \in Clients, r = FreshRegion(c), Holds(fresh[c], x)
      PROVE  KeptNow(x)
  <2>1. r.at = <<"fresh", c>> /\ r.len = RoundUp(fresh[c].n)
    BY <1>4 DEF FreshRegion
  <2>2. <<"fresh", c>> # <<"chunk">>
    OBVIOUS
  <2>3. fresh[c].n \in Nat
    BY <1>4 DEF Holds, Inv, TypeOK, Blocks
  <2>4. Small(fresh[c].n)
    BY <2>1, <2>2, <2>3, SmallRounded DEF InPool
  <2> QED
    BY <1>4, <2>4 DEF KeptNow, Kept, HeldSmall, SmallHolds
<1> QED
  BY <1>1, <1>2, <1>3, <1>4, RegionByte

\* ... and every byte that is kept is in one.
LEMMA KeptRegion ==
    ASSUME Inv, NEW x \in Nat, KeptNow(x)
    PROVE  \E r \in Regions : InPool(r) /\ In(x, r.from, r.len)
<1>1. CASE start_free_ <= x /\ x < end_free_
  <2>1. ChunkRegion \in Regions
    BY Zenon DEF Regions, ChunkRegion
  <2>2. /\ ChunkRegion.at = <<"chunk">> /\ ChunkRegion.from = start_free_
        /\ ChunkRegion.len = end_free_ - start_free_
    BY DEF ChunkRegion
  <2>3. In(x, ChunkRegion.from, ChunkRegion.len)
    BY <1>1, <2>2, InvGives DEF In
  <2> QED
    BY <2>1, <2>2, <2>3 DEF InPool
<1>2. ASSUME NEW k \in Classes, NEW i \in DOMAIN free_list_[k], In(x, free_list_[k][i], k)
      PROVE  \E r \in Regions : InPool(r) /\ In(x, r.from, r.len)
  <2> DEFINE R(ki) == [at |-> <<"free", ki>>, from |-> free_list_[ki[1]][ki[2]], len |-> ki[1]]
  <2>1. <<k, i>> \in FreeNodes
    BY DEF FreeNodes
  <2>2. \A ki \in FreeNodes : R(ki) \in Regions
    BY Zenon DEF Regions
  <2>3. R(<<k, i>>) = FreeRegion(k, i)
    BY DEF FreeRegion
  <2> HIDE DEF R
  <2>4. FreeRegion(k, i) \in Regions
    BY <2>1, <2>2, <2>3
  <2>5. FreeRegion(k, i).from = free_list_[k][i] /\ FreeRegion(k, i).len = k
    BY DEF FreeRegion
  <2>6. k <= kMaxBytes
    BY PoolAssumption DEF Classes
  <2> QED
    BY <1>2, <2>4, <2>5, <2>6 DEF InPool
<1>3. ASSUME NEW c \in Clients, SmallHolds(block[c], x)
      PROVE  \E r \in Regions : InPool(r) /\ In(x, r.from, r.len)
  <2>1. block[c] # NoBlock /\ Small(block[c].n) /\ In(x, block[c].addr, RoundUp(block[c].n))
    BY <1>3 DEF SmallHolds, Holds
  <2>2. BlockRegion(c) \in Regions
    BY <2>1, Zenon DEF Regions, BlockRegion
  <2>3. BlockRegion(c).from = block[c].addr /\ BlockRegion(c).len = RoundUp(block[c].n)
    BY DEF BlockRegion
  <2>4. block[c].n \in Nat
    BY <2>1 DEF Inv, TypeOK, Blocks
  <2> QED
    BY <2>1, <2>2, <2>3, <2>4, SmallRounded DEF InPool
<1>4. ASSUME NEW c \in Clients, SmallHolds(fresh[c], x)
      PROVE  \E r \in Regions : InPool(r) /\ In(x, r.from, r.len)
  <2>1. fresh[c] # NoBlock /\ Small(fresh[c].n) /\ In(x, fresh[c].addr, RoundUp(fresh[c].n))
    BY <1>4 DEF SmallHolds, Holds
  <2>2. FreshRegion(c) \in Regions
    BY <2>1, Zenon DEF Regions, FreshRegion
  <2>3. FreshRegion(c).from = fresh[c].addr /\ FreshRegion(c).len = RoundUp(fresh[c].n)
    BY DEF FreshRegion
  <2>4. fresh[c].n \in Nat
    BY <2>1 DEF Inv, TypeOK, Blocks
  <2> QED
    BY <2>1, <2>2, <2>3, <2>4, SmallRounded DEF InPool
<1> QED
  BY <1>1, <1>2, <1>3, <1>4 DEF KeptNow, Kept, Free, HeldSmall

\* PoolBytes are the bytes that are kept.
LEMMA PoolBytesAre ==
    ASSUME Inv
    PROVE  PoolBytes = KeptBytes
<1> DEFINE Interval(r) == r.from .. r.from + r.len - 1
<1>1. \A r \in Regions : r.from \in Nat /\ r.len \in Nat
  BY RegionTypes
<1>2. \A r \in Regions : \A x : x \in Interval(r) <=> x \in Nat /\ In(x, r.from, r.len)
  <2> SUFFICES ASSUME NEW r \in Regions, NEW x
               PROVE  x \in Interval(r) <=> x \in Nat /\ In(x, r.from, r.len)
    OBVIOUS
  <2>1. PICK f, l : f = r.from /\ l = r.len
    OBVIOUS
  <2>2. f \in Nat /\ l \in Nat
    BY <1>1, <2>1
  <2>3. x \in f .. f + l - 1 <=> x \in Nat /\ In(x, f, l)
    BY <2>2 DEF In
  <2> QED
    BY <2>1, <2>3
<1>3. PoolBytes = UNION {Interval(r) : r \in {q \in Regions : InPool(q)}}
  BY DEF PoolBytes, InPool
<1> HIDE DEF Interval
<1>4. \A x : x \in PoolBytes <=> \E r \in Regions : InPool(r) /\ x \in Interval(r)
  BY <1>3, Zenon
<1>5. ASSUME NEW x \in PoolBytes PROVE x \in KeptBytes
  BY <1>2, <1>4, RegionKept DEF KeptBytes
<1>6. ASSUME NEW x \in KeptBytes PROVE x \in PoolBytes
  <2>1. x \in Nat /\ KeptNow(x)
    BY DEF KeptBytes
  <2>2. PICK r \in Regions : InPool(r) /\ In(x, r.from, r.len)
    BY <2>1, KeptRegion
  <2> QED
    BY <1>2, <1>4, <2>1, <2>2
<1> QED
  BY <1>5, <1>6

\* Every byte that AllocChunk got from malloc stays in the chunk, on a list or in a
\* small block: no refill, donation or reallocation loses one or makes one up.
THEOREM ConservationAlways == Spec => []Conservation
<1>1. Inv /\ Counted => Conservation
  BY PoolBytesAre DEF Counted, Conservation
<1>2. Spec => []Counted
  BY InitCounted, NextCounted, PoolInvariant, PTL DEF Spec
<1> QED
  BY <1>1, <1>2, PoolInvariant, PTL
=============================================================================
