----------------------- MODULE NginxMemoryPoolProofs ------------------------
(***************************************************************************)
(* Pieces of a well-sized pool are inside their blocks and disjoint, for    *)
(* every size of the pool, its structs and the allocations.  The invariant  *)
(* is that start bounds the pieces of its block and size_ bounds start.     *)
(* On top of it: the nodes of the two lists are pieces, the large           *)
(* allocations are accounted for, and every handler runs at most once.      *)
(***************************************************************************)
EXTENDS NginxMemoryPool, SequenceTheorems, FiniteSetTheorems, WellFoundedInduction, TLAPS

Block == [start : Nat, failed : Nat, pieces : Seq(Pieces)]

\* Piece j of ps is behind the header and the earlier pieces.
PieceOK(ps, j) ==
    /\ ps[j].from >= SmallBlockSize
    /\ ps[j].from % kAlignment = 0
    /\ \A k \in 1 .. j - 1 : ps[k].from + ps[k].len <= ps[j].from

BlockOK(b) ==
    /\ b \in Block
    /\ b.start >= SmallBlockSize
    /\ WellSized(size_) => b.start <= size_
    /\ \A j \in DOMAIN b.pieces :
          PieceOK(b.pieces, j) /\ b.pieces[j].from + b.pieces[j].len <= b.start

\* The small blocks are a chain of sound blocks.
SmallOK(s) ==
    /\ s = [blocks |-> s.blocks, current |-> s.current]
    /\ s.blocks \in Seq(Block)
    /\ \A i \in DOMAIN s.blocks : BlockOK(s.blocks[i])

Inv == size_ \in Nat /\ SmallOK(small)

\* The sizes AllocateSmall is called with.
SmallRequest(n) == n \in Nat /\ \E m \in {kMaxAlloc, LargeBlockSize, CleanupBlockSize} : n <= m

-----------------------------------------------------------------------------
(* Aligning.                                                               *)

\* What % and \div compute for the alignment.
LEMMA DivMod ==
    ASSUME NEW a \in Nat
    PROVE  /\ a \div kAlignment \in Nat
           /\ a % kAlignment \in Nat /\ a % kAlignment < kAlignment
           /\ a = kAlignment * (a \div kAlignment) + (a % kAlignment)
  BY PoolAssumption

\* Multiples of the alignment are aligned.
LEMMA MultipleAligned ==
    ASSUME NEW q \in Nat
    PROVE  (q * kAlignment) % kAlignment = 0
  BY PoolAssumption

\* Two multiples of the alignment that are less than one unit apart.
LEMMA MultipleBound ==
    ASSUME NEW q \in Nat, NEW r \in Nat, q * kAlignment < r * kAlignment + kAlignment
    PROVE  q * kAlignment <= r * kAlignment
  BY PoolAssumption

\* AlignPtr moves a pointer up to the next aligned address, less than one unit.
LEMMA AlignUp ==
    ASSUME NEW p \in Nat
    PROVE  /\ AlignPtr(p) \in Nat /\ p <= AlignPtr(p) /\ AlignPtr(p) < p + kAlignment
           /\ AlignPtr(p) % kAlignment = 0
<1> DEFINE a == p + kAlignment - 1
<1>1. a \in Nat
  BY PoolAssumption
<1>2. /\ a \div kAlignment \in Nat
      /\ a % kAlignment \in Nat /\ a % kAlignment < kAlignment
      /\ a = kAlignment * (a \div kAlignment) + (a % kAlignment)
  BY <1>1, DivMod
<1>3. kAlignment * (a \div kAlignment) = AlignPtr(p)
  BY <1>2, PoolAssumption DEF AlignPtr
<1>4. AlignPtr(p) % kAlignment = 0
  BY <1>2, MultipleAligned DEF AlignPtr
<1> HIDE DEF a
<1>5. AlignPtr(p) = a - (a % kAlignment)
  BY <1>1, <1>2, <1>3, PoolAssumption
<1> QED
  BY <1>1, <1>2, <1>4, <1>5, PoolAssumption DEF a

\* AlignPtr does not move a pointer past an aligned address.
LEMMA AlignBound ==
    ASSUME NEW p \in Nat, NEW z \in Nat, p <= z, z % kAlignment = 0
    PROVE  AlignPtr(p) <= z
<1> DEFINE q == (p + kAlignment - 1) \div kAlignment
           r == z \div kAlignment
<1>1. q \in Nat
  <2>1. p + kAlignment - 1 \in Nat
    BY PoolAssumption
  <2> QED
    BY <2>1, DivMod
<1>2. r \in Nat /\ z = r * kAlignment
  <2>1. r \in Nat /\ z = kAlignment * r + (z % kAlignment)
    BY DivMod
  <2> QED
    BY <2>1, PoolAssumption
<1>3. AlignPtr(p) = q * kAlignment
  BY DEF AlignPtr
<1> HIDE DEF q, r
<1>4. q * kAlignment < r * kAlignment + kAlignment
  BY <1>2, <1>3, AlignUp, PoolAssumption
<1> QED
  BY <1>1, <1>2, <1>3, <1>4, MultipleBound
-----------------------------------------------------------------------------
(* Allocating.                                                             *)

\* A piece that Fits leaves the block sound.
LEMMA CutKeepsBlock ==
    ASSUME size_ \in Nat, NEW b, BlockOK(b), NEW n \in Nat, Fits(AlignPtr(b.start), n)
    PROVE  BlockOK([b EXCEPT !.start = Taken(AlignPtr(b.start), n),
                             !.pieces = Append(@, [from |-> AlignPtr(b.start), len |-> n])])
<1> DEFINE m == AlignPtr(b.start)
           p == [from |-> m, len |-> n]
           c == [b EXCEPT !.start = Taken(m, n), !.pieces = Append(@, p)]
<1>1. b \in Block /\ b.start \in Nat /\ b.pieces \in Seq(Pieces)
  BY DEF BlockOK, Block
<1>2. m \in Nat /\ b.start <= m /\ m % kAlignment = 0
  BY <1>1, AlignUp
<1>3. WellSized(size_) => m + n <= size_
  <2>1. ASSUME WellSized(size_) PROVE m <= size_
    BY <2>1, <1>1, AlignBound DEF BlockOK, WellSized
  <2> QED
    BY <1>2, <2>1 DEF Fits
<1>4. p \in Pieces
  BY <1>2 DEF Pieces
<1> HIDE DEF m
<1>5. c \in Block /\ c.start = m + n /\ c.pieces = Append(b.pieces, p)
  <2>1. Append(b.pieces, p) \in Seq(Pieces)
    BY <1>1, <1>4
  <2>2. m + n \in Nat
    BY <1>2
  <2> DEFINE q == Append(b.pieces, p)
  <2>3. c = [b EXCEPT !.start = m + n, !.pieces = q]
    BY DEF Taken
  <2> HIDE DEF q
  <2> QED
    BY <1>1, <2>1, <2>2, <2>3 DEF Block, q
<1> HIDE DEF c
<1>6. c.start >= SmallBlockSize /\ c.start \in Nat /\ b.start <= c.start
  BY <1>1, <1>2, <1>5, PoolAssumption DEF BlockOK
<1>7. ASSUME NEW j \in DOMAIN c.pieces
      PROVE  PieceOK(c.pieces, j) /\ c.pieces[j].from + c.pieces[j].len <= c.start
  <2>1. /\ Len(b.pieces) \in Nat /\ DOMAIN c.pieces = 1 .. Len(b.pieces) + 1
        /\ \A k \in 1 .. Len(b.pieces) : c.pieces[k] = b.pieces[k] /\ b.pieces[k] \in Pieces
        /\ c.pieces[Len(b.pieces) + 1] = p
        /\ DOMAIN b.pieces = 1 .. Len(b.pieces)
    BY <1>1, <1>4, <1>5
  <2>2. CASE j = Len(b.pieces) + 1
    <3>1. ASSUME NEW k \in 1 .. j - 1
          PROVE  c.pieces[k].from + c.pieces[k].len <= m
      <4>1. k \in DOMAIN b.pieces /\ c.pieces[k] = b.pieces[k]
        BY <2>1, <2>2
      <4>2. b.pieces[k].from + b.pieces[k].len <= b.start
        BY <4>1 DEF BlockOK
      <4>3. b.pieces[k].from \in Nat /\ b.pieces[k].len \in Nat
        BY <2>1, <4>1 DEF Pieces
      <4> QED
        BY <1>1, <1>2, <4>1, <4>2, <4>3
    <3>2. c.pieces[j].from = m /\ c.pieces[j].len = n
      BY <2>1, <2>2
    <3>3. m >= SmallBlockSize /\ c.start = m + n
      BY <1>1, <1>2, <1>5, PoolAssumption DEF BlockOK
    <3> QED
      BY <1>2, <3>1, <3>2, <3>3 DEF PieceOK
  <2>3. CASE j \in 1 .. Len(b.pieces)
    <3>1. PieceOK(b.pieces, j) /\ b.pieces[j].from + b.pieces[j].len <= b.start
      BY <2>1, <2>3 DEF BlockOK
    <3>2. \A k \in 1 .. j : c.pieces[k] = b.pieces[k] /\ b.pieces[k] \in Pieces
      BY <2>1, <2>3
    <3>3. c.pieces[j] = b.pieces[j] /\ b.pieces[j].from \in Nat /\ b.pieces[j].len \in Nat
      BY <2>3, <3>2 DEF Pieces
    <3>4. PieceOK(c.pieces, j)
      <4>1. j \in Nat /\ j \in 1 .. j
        BY <2>1, <2>3
      <4>2. \A k \in 1 .. j - 1 : k \in 1 .. j
        BY <4>1
      <4> QED
        BY <3>1, <3>2, <3>3, <4>2 DEF PieceOK
    <3> QED
      BY <1>1, <1>6, <3>1, <3>3, <3>4
  <2> QED
    BY <2>1, <2>2, <2>3
<1>8. BlockOK(c)
  BY <1>3, <1>5, <1>6, <1>7 DEF BlockOK
<1> QED
  BY <1>8 DEF m, c

\* A new block is sound when its first piece has room behind the header.
LEMMA NewBlockSound ==
    ASSUME size_ \in Nat, NEW n, SmallRequest(n)
    PROVE  LET m == AlignPtr(SmallBlockSize)
           IN  BlockOK([start |-> Taken(m, n), failed |-> 0, pieces |-> <<[from |-> m, len |-> n]>>])
<1> DEFINE m == AlignPtr(SmallBlockSize)
           p == [from |-> m, len |-> n]
           c == [start |-> Taken(m, n), failed |-> 0, pieces |-> <<p>>]
<1>1. m \in Nat /\ SmallBlockSize <= m /\ m % kAlignment = 0
  BY AlignUp, PoolAssumption
<1>2. n \in Nat /\ (WellSized(size_) => m + n <= size_)
  BY <1>1, PoolAssumption DEF SmallRequest, WellSized
<1> HIDE DEF m
<1>3. c \in Block
  BY <1>1, <1>2 DEF Block, Pieces, Taken
<1>4. \A j \in DOMAIN c.pieces :
         PieceOK(c.pieces, j) /\ c.pieces[j].from + c.pieces[j].len <= c.start
  BY <1>1, <1>2, PoolAssumption DEF PieceOK, Taken
<1>5. BlockOK(c)
  BY <1>1, <1>2, <1>3, <1>4, PoolAssumption DEF BlockOK, Taken
<1> QED
  BY <1>5 DEF m

\* AllocateSmall keeps the blocks sound, whichever way it obtains the piece.
LEMMA AllocateSmallSound ==
    ASSUME size_ \in Nat, NEW s, SmallOK(s), NEW n, SmallRequest(n), NEW o \in AllocateSmall(s, n)
    PROVE  SmallOK(o.small)
<1>1. n \in Nat
  BY DEF SmallRequest
<1>2. CASE HaveRoom(s, n) # {}
  <2>1. PICK i \in HaveRoom(s, n) : o = CutFrom(s, i, n)
    BY <1>2 DEF AllocateSmall, First
  <2>2. Fits(AlignPtr(s.blocks[i].start), n)
    BY <2>1 DEF HaveRoom
  <2> DEFINE m == AlignPtr(s.blocks[i].start)
             c == [s.blocks[i] EXCEPT !.start = Taken(m, n),
                                      !.pieces = Append(@, [from |-> m, len |-> n])]
             t == [s EXCEPT !.blocks[i] = c]
  <2>3. o.small = t
    BY <2>1 DEF CutFrom
  <2>4. i \in DOMAIN s.blocks => BlockOK(c)
    BY <1>1, <2>2, CutKeepsBlock DEF SmallOK
  <2> HIDE DEF c
  <2>5. t = [blocks |-> [s.blocks EXCEPT ![i] = c], current |-> s.current]
    BY DEF SmallOK
  <2> HIDE DEF t
  <2>6. t.blocks = [s.blocks EXCEPT ![i] = c] /\ t = [blocks |-> t.blocks, current |-> t.current]
    BY <2>5
  <2>7. t.blocks \in Seq(Block) /\ DOMAIN t.blocks = DOMAIN s.blocks
    <3>1. CASE i \in DOMAIN s.blocks
      <4>1. s.blocks \in Seq(Block) /\ c \in Block /\ i \in 1 .. Len(s.blocks)
        BY <2>4, <3>1 DEF SmallOK, BlockOK
      <4> QED
        BY <2>6, <4>1, ExceptSeq
    <3>2. CASE i \notin DOMAIN s.blocks
      <4>1. s.blocks \in Seq(Block)
        BY DEF SmallOK
      <4>2. [s.blocks EXCEPT ![i] = c] = s.blocks
        BY <3>2, <4>1
      <4> QED
        BY <2>6, <4>1, <4>2
    <3> QED
      BY <3>1, <3>2
  <2>8. \A k \in DOMAIN t.blocks : BlockOK(t.blocks[k])
    BY <2>4, <2>6, <2>7 DEF SmallOK
  <2> QED
    BY <2>3, <2>6, <2>7, <2>8 DEF SmallOK
<1>3. CASE o = AllocateSmallBlock(s, n)
  <2> DEFINE m   == AlignPtr(SmallBlockSize)
             len == Len(s.blocks)
             old == [i \in 1 .. len |->
                       IF i < s.current THEN s.blocks[i]
                       ELSE [s.blocks[i] EXCEPT !.failed = @ + 1]]
             new == [start |-> Taken(m, n), failed |-> 0, pieces |-> <<[from |-> m, len |-> n]>>]
  <2>1. o.small = [blocks |-> Append(old, new), current |-> NextCurrent(s)]
    BY <1>3 DEF AllocateSmallBlock, Linked
  <2>2. BlockOK(new)
    BY NewBlockSound
  <2> HIDE DEF new
  <2>3. len \in Nat /\ DOMAIN s.blocks = 1 .. len /\ \A i \in 1 .. len : s.blocks[i] \in Block
    BY DEF SmallOK
  <2>4. ASSUME NEW i \in 1 .. len PROVE BlockOK(old[i])
    <3> DEFINE b == s.blocks[i]
               d == [b EXCEPT !.failed = @ + 1]
    <3>1. BlockOK(b) /\ b \in Block
      BY <2>3 DEF SmallOK
    <3>2. d \in Block /\ d.start = b.start /\ d.pieces = b.pieces
      BY <3>1 DEF Block
    <3>3. BlockOK(d)
      BY <3>1, <3>2 DEF BlockOK
    <3> QED
      BY <3>1, <3>3
  <2>5. old \in Seq(Block) /\ Len(old) = len
    <3>1. old \in [1 .. len -> Block]
      BY <2>4 DEF BlockOK
    <3> HIDE DEF old
    <3> QED
      BY <2>3, <3>1
  <2> HIDE DEF old
  <2>6. /\ Append(old, new) \in Seq(Block)
        /\ \A i \in DOMAIN Append(old, new) : BlockOK(Append(old, new)[i])
    BY <2>2, <2>3, <2>4, <2>5 DEF BlockOK
  <2> QED
    BY <2>1, <2>6 DEF SmallOK
<1>4. CASE o.small = s
  BY <1>4
<1> QED
  BY <1>2, <1>3, <1>4 DEF AllocateSmall

\* So do small and large allocations together.
LEMMA OutcomesSound ==
    ASSUME size_ \in Nat, NEW s, SmallOK(s), NEW ls, NEW n \in Nat, NEW o \in Outcomes(s, ls, n)
    PROVE  SmallOK(o.small)
<1>1. CASE n <= kMaxAlloc
  <2>1. SmallRequest(n)
    BY <1>1 DEF SmallRequest
  <2>2. PICK q \in AllocateSmall(s, n) : o.small = q.small
    BY <1>1 DEF Outcomes
  <2> QED
    BY <2>1, <2>2, AllocateSmallSound
<1>2. CASE ~(n <= kMaxAlloc)
  <2>1. SmallRequest(LargeBlockSize)
    BY PoolAssumption DEF SmallRequest
  <2>2. o \in AllocateLarge(s, ls)
    BY <1>2 DEF Outcomes
  <2>3. o.small = s \/ \E q \in AllocateSmall(s, LargeBlockSize) : o.small = q.small
    <3> DEFINE None == [small |-> s, large |-> ls, addr |-> Null]
               Reused(a) == {[small |-> s, large |-> [ls EXCEPT ![i].alloc = a], addr |-> a]
                               : i \in First(Reusable(ls))}
               Added(a) == {[small |-> q.small,
                             large |-> IF q.piece = Null THEN ls
                                       ELSE <<[node |-> q.piece, alloc |-> a]>> \o ls,
                             addr  |-> IF q.piece = Null THEN Null ELSE a]
                               : q \in AllocateSmall(s, LargeBlockSize)}
    <3>1. o = None \/ \E a \in LargeAddrs \ mallocs : o \in Reused(a) \/ o \in Added(a)
      BY <2>2, Zenon DEF AllocateLarge
    <3>2. ASSUME NEW a, o \in Reused(a) PROVE o.small = s
      BY <3>2
    <3>3. ASSUME NEW a, o \in Added(a)
          PROVE  \E q \in AllocateSmall(s, LargeBlockSize) : o.small = q.small
      <4> DEFINE Node(q) == [small |-> q.small,
                             large |-> IF q.piece = Null THEN ls
                                       ELSE <<[node |-> q.piece, alloc |-> a]>> \o ls,
                             addr  |-> IF q.piece = Null THEN Null ELSE a]
      <4>1. PICK q \in AllocateSmall(s, LargeBlockSize) : o = Node(q)
        BY <3>3, Zenon
      <4>2. Node(q).small = q.small
        BY Zenon
      <4> QED
        BY <4>1, <4>2, Zenon
    <3>4. None.small = s
      OBVIOUS
    <3> HIDE DEF None, Reused, Added
    <3> QED
      BY <3>1, <3>2, <3>3, <3>4
  <2> QED
    BY <2>1, <2>3, AllocateSmallSound
<1> QED
  BY <1>1, <1>2

\* A block without pieces is sound.
LEMMA EmptyBlockSound ==
    ASSUME size_ \in Nat
    PROVE  BlockOK([start |-> SmallBlockSize, failed |-> 0, pieces |-> <<>>])
<1> DEFINE b == [start |-> SmallBlockSize, failed |-> 0, pieces |-> <<>>]
<1>1. b \in Block /\ b.start = SmallBlockSize /\ DOMAIN b.pieces = {}
  BY PoolAssumption DEF Block
<1>2. WellSized(size_) => SmallBlockSize <= size_
  <2>1. AlignPtr(SmallBlockSize) \in Nat /\ SmallBlockSize <= AlignPtr(SmallBlockSize)
    BY AlignUp, PoolAssumption
  <2> QED
    BY <2>1, PoolAssumption DEF WellSized
<1> QED
  BY <1>1, <1>2, PoolAssumption DEF BlockOK

-----------------------------------------------------------------------------
(* The invariant.                                                          *)

\* The constructor makes a sound root block, or none.
LEMMA InitSound == Init => Inv
<1> SUFFICES ASSUME Init PROVE Inv
  OBVIOUS
<1>1. CASE size_ = 0 /\ small = NoBlocks
  BY <1>1 DEF Inv, SmallOK, NoBlocks
<1>2. ASSUME NEW s \in PoolSizes \ {0}, size_ = PoolSize(s), small = RootBlock
      PROVE  Inv
  <2>1. size_ \in Nat
    BY <1>2, PoolAssumption DEF PoolSize
  <2> DEFINE b == [start |-> SmallBlockSize, failed |-> 0, pieces |-> <<>>]
  <2>2. BlockOK(b) /\ b \in Block
    BY <2>1, EmptyBlockSound DEF BlockOK
  <2>3. small = [blocks |-> <<b>>, current |-> 1]
    BY <1>2 DEF RootBlock
  <2> HIDE DEF b
  <2> QED
    BY <2>1, <2>2, <2>3 DEF Inv, SmallOK
<1> QED
  BY <1>1, <1>2 DEF Init

\* Every operation of the pool keeps its blocks sound.
LEMMA NextSound == Inv /\ [Next]_vars => Inv'
<1> SUFFICES ASSUME Inv, [Next]_vars PROVE Inv'
  OBVIOUS
<1> USE DEF Inv
<1>1. ASSUME size_' = size_, NEW s, SmallOK(s), small' = s PROVE Inv'
  BY <1>1 DEF SmallOK, BlockOK, WellSized
<1>2. ASSUME NEW n \in AllocSizes, Allocate(n) PROVE Inv'
  <2>1. PICK o \in Outcomes(small, large_, n) : small' = o.small
    BY <1>2 DEF Allocate
  <2>2. SmallOK(o.small)
    BY PoolAssumption, OutcomesSound
  <2> QED
    BY <1>1, <1>2, <2>1, <2>2 DEF Allocate
<1>3. ASSUME NEW h \in Handlers, NEW n \in AllocSizes \cup {0}, AddCleanup(h, n) PROVE Inv'
  <2>1. PICK c \in AllocateSmall(small, CleanupBlockSize) :
           \/ small' = c.small
           \/ \E o \in Outcomes(c.small, large_, n) : small' = o.small
    BY <1>3 DEF AddCleanup
  <2>2. SmallOK(c.small)
    <3>1. SmallRequest(CleanupBlockSize)
      BY PoolAssumption DEF SmallRequest
    <3> QED
      BY <3>1, AllocateSmallSound
  <2>3. n \in Nat
    BY PoolAssumption
  <2>4. SmallOK(small')
    BY <2>1, <2>2, <2>3, OutcomesSound
  <2> QED
    BY <1>1, <1>3, <2>4 DEF AddCleanup
<1>4. ASSUME NEW a \in LargeAddrs, LargeFree(a) PROVE Inv'
  BY <1>1, <1>4 DEF LargeFree
<1>5. CASE AllocateFromNothing
  BY <1>1, <1>5 DEF AllocateFromNothing
<1>6. CASE Reset
  <2> DEFINE b  == [start |-> SmallBlockSize, failed |-> 0, pieces |-> <<>>]
             bs == [i \in DOMAIN small.blocks |-> b]
             k  == IF small.blocks = <<>> THEN 0 ELSE 1
  <2>1. small' = [blocks |-> bs, current |-> k] /\ size_' = size_
    BY <1>6 DEF Reset
  <2>2. BlockOK(b) /\ b \in Block
    BY EmptyBlockSound DEF BlockOK
  <2> HIDE DEF b, k
  <2>3. bs \in Seq(Block) /\ \A i \in DOMAIN bs : bs[i] = b
    BY <2>2 DEF SmallOK
  <2> HIDE DEF bs
  <2>4. SmallOK([blocks |-> bs, current |-> k])
    BY <2>2, <2>3 DEF SmallOK
  <2> QED
    BY <1>1, <2>1, <2>4
<1>7. CASE DestoryPool
  <2>1. SmallOK([blocks |-> <<>>, current |-> 0])
    BY DEF SmallOK
  <2> QED
    BY <1>1, <1>7, <2>1 DEF DestoryPool
<1>8. CASE UNCHANGED vars
  BY <1>1, <1>8 DEF vars
<1> QED
  BY <1>2, <1>3, <1>4, <1>5, <1>6, <1>7, <1>8 DEF Next, Terminated

\* In a pool whose size is a multiple of kAlignment and has room for any small
\* piece behind the header, no sequence of Allocate, AddCleanup, LargeFree and
\* Reset hands out pieces that overlap or leave their block.
THEOREM PiecesDisjointAlways == Spec => []PiecesDisjoint
<1>1. Inv => PiecesDisjoint
  <2> SUFFICES ASSUME Inv, WellSized(size_), NEW i \in DOMAIN small.blocks,
                      NEW j \in DOMAIN small.blocks[i].pieces
               PROVE  LET ps == small.blocks[i].pieces
                      IN  /\ ps[j].from >= SmallBlockSize
                          /\ ps[j].from + ps[j].len <= size_
                          /\ ps[j].from % kAlignment = 0
                          /\ \A k \in 1 .. j - 1 : ps[k].from + ps[k].len <= ps[j].from
    BY DEF PiecesDisjoint
  <2> DEFINE ps == small.blocks[i].pieces
  <2>1. BlockOK(small.blocks[i]) /\ size_ \in Nat
    BY DEF Inv, SmallOK
  <2>2. PieceOK(ps, j) /\ ps[j].from + ps[j].len <= small.blocks[i].start
    BY <2>1 DEF BlockOK
  <2>3. small.blocks[i].start \in Nat /\ small.blocks[i].start <= size_ /\ ps \in Seq(Pieces)
    BY <2>1 DEF BlockOK, Block
  <2>4. ps[j].from \in Nat /\ ps[j].len \in Nat
    <3>1. j \in DOMAIN ps
      OBVIOUS
    <3> HIDE DEF ps
    <3>2. ps[j] \in Pieces
      BY <2>3, <3>1
    <3> QED
      BY <3>2 DEF Pieces
  <2> HIDE DEF ps
  <2>5. ps[j].from + ps[j].len <= size_
    BY <2>1, <2>2, <2>3, <2>4
  <2> QED
    BY <2>2, <2>5 DEF PieceOK, ps
<1> QED
  BY <1>1, InitSound, NextSound, PTL DEF Spec

-----------------------------------------------------------------------------
(* The lists.                                                              *)

LargeNodes   == [node : Nodes, alloc : LargeAddrs \cup {Null}]
CleanupNodes == [node : Nodes, handler : Handlers]

\* current_block_ is a block of the chain, if there is one.
CurrentOK(s) ==
    /\ s.current \in Nat /\ s.current <= Len(s.blocks)
    /\ s.current = 0 <=> s.blocks = <<>>

\* nd is a piece of the blocks s.
Live(nd, s) ==
    /\ nd.block \in DOMAIN s.blocks
    /\ \E j \in DOMAIN s.blocks[nd.block].pieces :
          s.blocks[nd.block].pieces[j] = [from |-> nd.from, len |-> nd.len]

AllLive(list, s) == \A i \in DOMAIN list : Live(list[i].node, s)

\* The list ls knows exactly the large allocations ms, each by one node.
LargeOK(ls, ms) ==
    /\ ls \in Seq(LargeNodes)
    /\ ms = Outstanding(ls)
    /\ \A i, j \in DOMAIN ls : ls[i].alloc = ls[j].alloc /\ i # j => ls[i].alloc = Null

\* No handler is registered twice, or again after it was called.
CleanupOK ==
    /\ cleanup_ \in Seq(CleanupNodes)
    /\ ran \in [Handlers -> {0, 1}]
    /\ \A i, j \in DOMAIN cleanup_ : cleanup_[i].handler = cleanup_[j].handler => i = j
    /\ \A i \in DOMAIN cleanup_ : ran[cleanup_[i].handler] = 0

\* The invariant of the lists.
ListInv ==
    /\ Inv /\ CurrentOK(small)
    /\ status \in {"alive", "destroyed", "undefined"}
    /\ LargeOK(large_, mallocs) /\ AllLive(large_, small)
    /\ CleanupOK /\ AllLive(cleanup_, small)

\* A set of numbers between two others has a largest element.
LEMMA MaxIn ==
    ASSUME NEW a \in Nat, NEW b \in Int, NEW S \in SUBSET (a..b), S # {}
    PROVE  Max(S) \in S
<1> DEFINE T == {b - i : i \in S}
           R == OpToRel(<, Nat)
<1>1. T \subseteq Nat /\ T # {}
  OBVIOUS
<1>2. IsWellFoundedOn(R, Nat)
  BY NatLessThanWellFounded
<1>3. PICK x \in T : \A y \in T : ~(<<y, x>> \in R)
  <2> HIDE DEF T, R
  <2> QED
    BY <1>1, <1>2, WFMin
<1>4. \A y \in T : ~(y < x)
  BY <1>1, <1>3 DEF OpToRel
<1>5. PICK i \in S : x = b - i
  OBVIOUS
<1>6. ASSUME NEW j \in S PROVE i >= j
  <2>1. b - j \in T /\ i \in Int /\ j \in Int
    OBVIOUS
  <2> HIDE DEF T
  <2> QED
    BY <1>4, <1>5, <2>1
<1> QED
  BY <1>5, <1>6 DEF Max

\* After a block was appended, current_block_ is in the chain.
LEMMA NextCurrentIs ==
    ASSUME NEW s, SmallOK(s), CurrentOK(s), s.current # 0
    PROVE  NextCurrent(s) \in 1 .. Len(s.blocks) + 1
<1> DEFINE last   == Len(s.blocks)
           passed == {i \in s.current .. last - 1 : GivesUp(s.blocks[i].failed)}
<1>1. last \in Nat /\ s.current \in Nat /\ 1 <= s.current /\ s.current <= last /\ last - 1 \in Int
  BY DEF SmallOK, CurrentOK
<1>2. passed \in SUBSET (s.current .. (last - 1))
  OBVIOUS
<1>3. NextCurrent(s) = IF GivesUp(s.blocks[last].failed + 1) THEN last + 1
                       ELSE IF passed # {} THEN Max(passed) + 1
                       ELSE s.current
  BY DEF NextCurrent
<1> HIDE DEF last, passed
<1>4. passed # {} => Max(passed) \in s.current .. (last - 1)
  BY <1>1, <1>2, MaxIn
<1>5. passed # {} => Max(passed) + 1 \in 1 .. last + 1
  BY <1>1, <1>4
<1> QED
  BY <1>1, <1>3, <1>5 DEF last

\* The blocks t hold every piece of the blocks s.
Grows(s, t) ==
    \A i \in DOMAIN s.blocks :
        /\ i \in DOMAIN t.blocks
        /\ \A j \in DOMAIN s.blocks[i].pieces :
              /\ j \in DOMAIN t.blocks[i].pieces
              /\ t.blocks[i].pieces[j] = s.blocks[i].pieces[j]

\* Pieces that are live stay live when the blocks grow.
LEMMA GrowsLive ==
    ASSUME NEW s, NEW t, Grows(s, t), NEW nd, Live(nd, s)
    PROVE  Live(nd, t)
  BY DEF Grows, Live

\* Growing is transitive.
LEMMA GrowsTrans ==
    ASSUME NEW s, NEW t, NEW u, Grows(s, t), Grows(t, u)
    PROVE  Grows(s, u)
  BY DEF Grows

\* What an allocation leaves in the blocks: all the old pieces.
Extended(s, t) == SmallOK(t) /\ CurrentOK(t) /\ t.current # 0 /\ Grows(s, t)

\* Cutting a piece from a block of the chain.
LEMMA CutFromLive ==
    ASSUME size_ \in Nat, NEW s, SmallOK(s), CurrentOK(s), s.current # 0,
           NEW n \in Nat, NEW i \in HaveRoom(s, n)
    PROVE  LET o == CutFrom(s, i, n)
           IN  /\ CurrentOK(o.small) /\ o.small.current # 0 /\ Grows(s, o.small)
               /\ o.piece \in Nodes /\ Live(o.piece, o.small)
<1> DEFINE b == s.blocks[i]
           m == AlignPtr(b.start)
           p == [from |-> m, len |-> n]
           c == [b EXCEPT !.start = Taken(m, n), !.pieces = Append(@, p)]
           t == [s EXCEPT !.blocks[i] = c]
           o == CutFrom(s, i, n)
<1>1. o.small = t /\ o.piece = [block |-> i, from |-> m, len |-> n]
  BY DEF CutFrom, Piece
<1> HIDE DEF o
<1>2. i \in Nat /\ i \in DOMAIN s.blocks /\ s.blocks \in Seq(Block) /\ b \in Block
  BY DEF HaveRoom, SmallOK, CurrentOK
<1>3. b.start \in Nat /\ b.pieces \in Seq(Pieces)
  BY <1>2 DEF Block
<1>4. m \in Nat
  BY <1>3, AlignUp
<1> HIDE DEF m
<1>5. c.pieces = Append(b.pieces, p) /\ p \in Pieces
  BY <1>2, <1>4 DEF Block, Pieces
<1> HIDE DEF c, p
<1>6. /\ DOMAIN c.pieces = 1 .. Len(b.pieces) + 1 /\ DOMAIN b.pieces = 1 .. Len(b.pieces)
      /\ Len(b.pieces) \in Nat
      /\ \A k \in DOMAIN b.pieces : c.pieces[k] = b.pieces[k]
      /\ c.pieces[Len(b.pieces) + 1] = p
  <2> DEFINE q == b.pieces
             r == c.pieces
  <2>1. q \in Seq(Pieces) /\ r = Append(q, p) /\ p \in Pieces
    BY <1>3, <1>5
  <2> HIDE DEF q, r
  <2>2. /\ DOMAIN r = 1 .. Len(q) + 1 /\ DOMAIN q = 1 .. Len(q) /\ Len(q) \in Nat
        /\ \A k \in DOMAIN q : r[k] = q[k]
        /\ r[Len(q) + 1] = p
    BY <2>1
  <2> QED
    BY <2>2 DEF q, r
<1>7. t = [blocks |-> [s.blocks EXCEPT ![i] = c], current |-> s.current]
  BY DEF SmallOK
<1> HIDE DEF t
<1>8. t.blocks = [s.blocks EXCEPT ![i] = c] /\ t.current = s.current
  BY <1>7
<1>9. /\ DOMAIN t.blocks = DOMAIN s.blocks /\ t.blocks[i] = c
      /\ \A k \in DOMAIN s.blocks : k # i => t.blocks[k] = s.blocks[k]
  BY <1>2, <1>8
<1>10. Grows(s, t)
  BY <1>6, <1>9 DEF Grows
<1>11. Len(t.blocks) = Len(s.blocks) /\ t.blocks # <<>> /\ s.blocks # <<>>
  <2>1. 1 .. Len(t.blocks) = DOMAIN t.blocks /\ t.blocks \in Seq(Block \cup {c})
    <3>1. s.blocks \in Seq(Block \cup {c})
      BY <1>2
    <3> QED
      BY <1>2, <1>8, <3>1, ExceptSeq
  <2> QED
    BY <1>2, <1>9, <2>1
<1>12. CurrentOK(t) /\ t.current # 0
  BY <1>8, <1>11 DEF CurrentOK
<1>13. o.piece \in Nodes
  BY <1>1, <1>2, <1>4 DEF Nodes
<1>14. Live(o.piece, t)
  <2>1. o.piece.block = i /\ p = [from |-> o.piece.from, len |-> o.piece.len]
    BY <1>1 DEF p
  <2>2. Len(b.pieces) + 1 \in DOMAIN t.blocks[i].pieces
    BY <1>6, <1>9
  <2> QED
    BY <1>2, <1>6, <1>9, <2>1, <2>2 DEF Live
<1> QED
  BY <1>1, <1>10, <1>12, <1>13, <1>14 DEF o

\* Appending a block and cutting its first piece.
LEMMA NewBlockLive ==
    ASSUME size_ \in Nat, NEW s, SmallOK(s), CurrentOK(s), s.current # 0, NEW n \in Nat
    PROVE  LET o == AllocateSmallBlock(s, n)
           IN  /\ CurrentOK(o.small) /\ o.small.current # 0 /\ Grows(s, o.small)
               /\ o.piece \in Nodes /\ Live(o.piece, o.small)
<1> DEFINE m   == AlignPtr(SmallBlockSize)
           len == Len(s.blocks)
           old == [i \in 1 .. len |->
                     IF i < s.current THEN s.blocks[i]
                     ELSE [s.blocks[i] EXCEPT !.failed = @ + 1]]
           p   == [from |-> m, len |-> n]
           new == [start |-> Taken(m, n), failed |-> 0, pieces |-> <<p>>]
           bs  == Append(old, new)
           o   == AllocateSmallBlock(s, n)
<1>1. /\ o.small = [blocks |-> bs, current |-> NextCurrent(s)]
      /\ o.piece = [block |-> len + 1, from |-> m, len |-> n]
  BY DEF AllocateSmallBlock, Linked, Piece
<1>2. m \in Nat
  BY AlignUp, PoolAssumption
<1> HIDE DEF o, m
<1>3. len \in Nat /\ DOMAIN s.blocks = 1 .. len /\ \A i \in 1 .. len : s.blocks[i] \in Block
  BY DEF SmallOK
<1>4. NextCurrent(s) \in 1 .. len + 1
  BY NextCurrentIs
<1>5. \A i \in 1 .. len : old[i].pieces = s.blocks[i].pieces
  BY <1>3 DEF Block
<1>6. new.pieces = <<p>>
  OBVIOUS
<1> DEFINE All == {old[i] : i \in 1 .. len} \cup {new}
<1>7. old \in Seq(All) /\ Len(old) = len /\ new \in All
  <2>1. old \in [1 .. len -> All] /\ new \in All
    OBVIOUS
  <2> HIDE DEF old, new, All
  <2> QED
    BY <1>3, <2>1
<1> HIDE DEF old, new, All
<1>8. /\ DOMAIN bs = 1 .. len + 1 /\ Len(bs) = len + 1 /\ bs # <<>>
      /\ \A i \in 1 .. len : bs[i] = old[i]
      /\ bs[len + 1] = new
  BY <1>3, <1>7
<1> HIDE DEF bs
<1>9. o.small.blocks = bs /\ o.small.current = NextCurrent(s)
  BY <1>1
<1>10. CurrentOK(o.small) /\ o.small.current # 0
  BY <1>3, <1>4, <1>8, <1>9 DEF CurrentOK
<1>11. Grows(s, o.small)
  BY <1>3, <1>5, <1>8, <1>9 DEF Grows
<1>12. o.piece \in Nodes
  BY <1>1, <1>2, <1>3 DEF Nodes
<1>13. Live(o.piece, o.small)
  <2>1. o.piece.block = len + 1 /\ p = [from |-> o.piece.from, len |-> o.piece.len]
    BY <1>1
  <2> HIDE DEF p
  <2>2. 1 \in DOMAIN new.pieces /\ new.pieces[1] = p
    BY <1>6
  <2>3. len + 1 \in DOMAIN o.small.blocks /\ o.small.blocks[len + 1] = new
    BY <1>3, <1>8, <1>9
  <2> QED
    BY <2>1, <2>2, <2>3 DEF Live
<1> QED
  BY <1>10, <1>11, <1>12, <1>13 DEF o

\* AllocateSmall cuts a new piece or fails, and disturbs no earlier piece.
LEMMA AllocateSmallLive ==
    ASSUME size_ \in Nat, NEW s, SmallOK(s), CurrentOK(s), s.current # 0,
           NEW n, SmallRequest(n), NEW o \in AllocateSmall(s, n)
    PROVE  /\ Extended(s, o.small)
           /\ o.piece = Null \/ (o.piece \in Nodes /\ Live(o.piece, o.small))
<1>1. n \in Nat
  BY DEF SmallRequest
<1>2. SmallOK(o.small)
  BY AllocateSmallSound
<1>3. CASE HaveRoom(s, n) # {}
  <2>1. PICK i \in HaveRoom(s, n) : o = CutFrom(s, i, n)
    BY <1>3 DEF AllocateSmall, First
  <2> QED
    BY <1>1, <1>2, <2>1, CutFromLive DEF Extended
<1>4. CASE o = AllocateSmallBlock(s, n)
  BY <1>1, <1>2, <1>4, NewBlockLive DEF Extended
<1>5. CASE o = [small |-> s, piece |-> Null]
  BY <1>2, <1>5 DEF Extended, Grows
<1> QED
  BY <1>3, <1>4, <1>5 DEF AllocateSmall

-----------------------------------------------------------------------------
(* The list of large allocations.                                          *)

\* Putting an element in front of a sequence.
LEMMA Prepend ==
    ASSUME NEW S, NEW r \in S, NEW q \in Seq(S)
    PROVE  LET t == <<r>> \o q
           IN  /\ t \in Seq(S) /\ 1 \in DOMAIN t /\ t[1] = r
               /\ \A k \in DOMAIN q : k + 1 \in DOMAIN t /\ t[k + 1] = q[k]
               /\ \A k \in DOMAIN t : k = 1 \/ (k - 1 \in DOMAIN q /\ t[k] = q[k - 1])
<1> DEFINE t == <<r>> \o q
<1>1. t \in Seq(S) /\ Len(t) = Len(q) + 1 /\ Len(q) \in Nat
  OBVIOUS
<1>2. t[1] = r
  OBVIOUS
<1>3. \A k \in 1 .. Len(q) : t[k + 1] = q[k]
  OBVIOUS
<1>4. DOMAIN q = 1 .. Len(q) /\ DOMAIN t = 1 .. Len(q) + 1
  <2> HIDE DEF t
  <2> QED
    BY <1>1
<1> HIDE DEF t
<1>5. ASSUME NEW k \in DOMAIN t, k # 1
      PROVE  k - 1 \in DOMAIN q /\ t[k] = q[k - 1]
  <2>1. k - 1 \in 1 .. Len(q) /\ (k - 1) + 1 = k
    BY <1>1, <1>4, <1>5
  <2> QED
    BY <1>3, <1>4, <2>1
<1>6. \A k \in DOMAIN q : k + 1 \in DOMAIN t /\ t[k + 1] = q[k]
  BY <1>1, <1>3, <1>4
<1>7. 1 \in DOMAIN t
  BY <1>1, <1>4
<1> QED
  BY <1>1, <1>2, <1>5, <1>6, <1>7 DEF t

\* The list ls after node i has taken the address a.
Refilled(ls, i, a) == [ls EXCEPT ![i].alloc = a]

\* An empty node takes a new address.
LEMMA LargeReused ==
    ASSUME NEW ls, NEW ms, LargeOK(ls, ms), NEW a \in LargeAddrs \ ms,
           NEW i \in Reusable(ls), NEW t, t = Refilled(ls, i, a)
    PROVE  /\ LargeOK(t, ms \cup {a})
           /\ DOMAIN t = DOMAIN ls /\ \A k \in DOMAIN ls : t[k].node = ls[k].node
<1> DEFINE r == [ls[i] EXCEPT !.alloc = a]
<1>1. ls \in Seq(LargeNodes) /\ i \in DOMAIN ls /\ ls[i].alloc = Null /\ ls[i] \in LargeNodes
  BY DEF LargeOK, Reusable
<1>2. r \in LargeNodes /\ r.alloc = a /\ r.node = ls[i].node
  BY <1>1 DEF LargeNodes
<1>11. t = [ls EXCEPT ![i] = r]
  BY DEF Refilled
<1> HIDE DEF r
<1>3. t \in Seq(LargeNodes) /\ DOMAIN t = DOMAIN ls
  <2>1. i \in 1 .. Len(ls)
    BY <1>1
  <2> QED
    BY <1>1, <1>2, <1>11, <2>1, ExceptSeq
<1>4. t[i] = r /\ \A k \in DOMAIN ls : k # i => t[k] = ls[k]
  BY <1>1, <1>11
<1>5. a # Null
  BY PoolAssumption
<1>6. \A k \in DOMAIN ls : ls[k].alloc # a
  BY <1>5 DEF LargeOK, Outstanding
<1>7. Outstanding(t) = ms \cup {a}
  <2>1. Outstanding(ls) = ms
    BY DEF LargeOK
  <2> QED
    BY <1>1, <1>2, <1>3, <1>4, <1>5, <2>1 DEF Outstanding
<1>8. \A k, j \in DOMAIN t : t[k].alloc = t[j].alloc /\ k # j => t[k].alloc = Null
  BY <1>2, <1>3, <1>4, <1>6 DEF LargeOK
<1>9. LargeOK(t, ms \cup {a})
  BY <1>3, <1>7, <1>8 DEF LargeOK
<1>10. \A k \in DOMAIN ls : t[k].node = ls[k].node
  BY <1>2, <1>4
<1> QED
  BY <1>3, <1>9, <1>10

\* A new node takes a new address.
LEMMA LargeAdded ==
    ASSUME NEW ls, NEW ms, LargeOK(ls, ms), NEW a \in LargeAddrs \ ms, NEW p \in Nodes
    PROVE  LargeOK(<<[node |-> p, alloc |-> a]>> \o ls, ms \cup {a})
<1> DEFINE r == [node |-> p, alloc |-> a]
           t == <<r>> \o ls
<1>1. r \in LargeNodes /\ r.alloc = a
  BY DEF LargeNodes
<1> HIDE DEF r
<1>2. ls \in Seq(LargeNodes)
  BY DEF LargeOK
<1>3. /\ t \in Seq(LargeNodes) /\ 1 \in DOMAIN t /\ t[1] = r
      /\ \A k \in DOMAIN ls : k + 1 \in DOMAIN t /\ t[k + 1] = ls[k]
      /\ \A k \in DOMAIN t : k = 1 \/ (k - 1 \in DOMAIN ls /\ t[k] = ls[k - 1])
  BY <1>1, <1>2, Prepend
<1> HIDE DEF t
<1>4. a # Null
  BY PoolAssumption
<1>5. \A k \in DOMAIN ls : ls[k].alloc # a
  BY <1>4 DEF LargeOK, Outstanding
<1>6. Outstanding(ls) = ms
  BY DEF LargeOK
<1>7. Outstanding(t) = ms \cup {a}
  <2>1. ASSUME NEW x \in Outstanding(t) PROVE x \in ms \cup {a}
    BY <1>1, <1>3, <1>6, <2>1 DEF Outstanding
  <2>2. ASSUME NEW x \in ms PROVE x \in Outstanding(t)
    BY <1>3, <1>6, <2>2 DEF Outstanding
  <2>3. a \in Outstanding(t)
    BY <1>1, <1>3, <1>4 DEF Outstanding
  <2> QED
    BY <2>1, <2>2, <2>3
<1>8. ASSUME NEW k \in DOMAIN t, NEW j \in DOMAIN t, t[k].alloc = t[j].alloc, k # j
      PROVE  t[k].alloc = Null
  <2>1. CASE k = 1 \/ j = 1
    BY <1>1, <1>3, <1>5, <1>8, <2>1
  <2>2. CASE k # 1 /\ j # 1
    <3>1. k - 1 \in DOMAIN ls /\ j - 1 \in DOMAIN ls /\ t[k] = ls[k - 1] /\ t[j] = ls[j - 1]
      BY <1>3, <2>2
    <3>2. k - 1 # j - 1
      BY <1>2, <1>3, <1>8
    <3> QED
      BY <1>8, <3>1, <3>2 DEF LargeOK
  <2> QED
    BY <2>1, <2>2
<1> QED
  BY <1>3, <1>7, <1>8 DEF LargeOK, t, r

\* The node of an address that is freed becomes empty.
LEMMA LargeFreed ==
    ASSUME LargeOK(large_, mallocs), NEW a \in LargeAddrs
    PROVE  /\ LargeOK(FreedNodes(a), mallocs \ ({a} \cap Outstanding(large_)))
           /\ DOMAIN FreedNodes(a) = DOMAIN large_
           /\ \A k \in DOMAIN large_ : FreedNodes(a)[k].node = large_[k].node
<1> DEFINE t == FreedNodes(a)
<1>1. /\ large_ \in Seq(LargeNodes) /\ Len(large_) \in Nat /\ DOMAIN large_ = 1 .. Len(large_)
      /\ \A k \in DOMAIN large_ : large_[k] \in LargeNodes
  BY DEF LargeOK
<1>2. DOMAIN t = DOMAIN large_
  BY DEF FreedNodes
<1>3. ASSUME NEW k \in DOMAIN large_
      PROVE  /\ t[k] \in LargeNodes /\ t[k].node = large_[k].node
             /\ t[k].alloc = IF large_[k].alloc = a THEN Null ELSE large_[k].alloc
  <2>1. t[k] = IF large_[k].alloc = a THEN [large_[k] EXCEPT !.alloc = Null] ELSE large_[k]
    BY DEF FreedNodes
  <2> QED
    BY <1>1, <2>1 DEF LargeNodes
<1>4. t \in Seq(LargeNodes)
  <2>1. t \in [1 .. Len(large_) -> LargeNodes]
    BY <1>1, <1>3 DEF FreedNodes
  <2> HIDE DEF t
  <2> QED
    BY <1>1, <2>1
<1> HIDE DEF t
<1>5. Outstanding(t) = Outstanding(large_) \ {a}
  BY <1>2, <1>3 DEF Outstanding
<1>6. mallocs = Outstanding(large_)
  BY DEF LargeOK
<1>7. \A k, j \in DOMAIN t : t[k].alloc = t[j].alloc /\ k # j => t[k].alloc = Null
  BY <1>2, <1>3 DEF LargeOK
<1>8. LargeOK(t, mallocs \ ({a} \cap Outstanding(large_)))
  BY <1>4, <1>5, <1>6, <1>7 DEF LargeOK
<1> QED
  BY <1>2, <1>3, <1>8 DEF t

\* The ways in which Allocate obtains memory.
Fails(o, s, ls)  == o.large = ls /\ o.addr = Null /\ o.small = s
Reuses(o, s, ls) ==
    \E a \in LargeAddrs \ mallocs, i \in Reusable(ls) :
        o.small = s /\ o.large = Refilled(ls, i, a) /\ o.addr = a
Cuts(o, s, ls, n) ==
    \E q \in AllocateSmall(s, n) : o.small = q.small /\ o.large = ls /\ o.addr = q.piece
Adds(o, s, ls) ==
    \E a \in LargeAddrs \ mallocs, q \in AllocateSmall(s, LargeBlockSize) :
        /\ o.small = q.small
        /\ o.large = IF q.piece = Null THEN ls ELSE <<[node |-> q.piece, alloc |-> a]>> \o ls
        /\ o.addr = IF q.piece = Null THEN Null ELSE a

\* There is no other way.
LEMMA OutcomesAre ==
    ASSUME NEW s, NEW ls, NEW n \in Nat, NEW o \in Outcomes(s, ls, n)
    PROVE  \/ Fails(o, s, ls) \/ Reuses(o, s, ls) \/ Adds(o, s, ls)
           \/ n <= kMaxAlloc /\ Cuts(o, s, ls, n)
<1>1. CASE n <= kMaxAlloc
  BY <1>1 DEF Outcomes, Cuts
<1>2. CASE ~(n <= kMaxAlloc)
  <2> DEFINE None == [small |-> s, large |-> ls, addr |-> Null]
             Old(a, i) == [small |-> s, large |-> [ls EXCEPT ![i].alloc = a], addr |-> a]
             Node(a, q) == [small |-> q.small,
                            large |-> IF q.piece = Null THEN ls
                                      ELSE <<[node |-> q.piece, alloc |-> a]>> \o ls,
                            addr  |-> IF q.piece = Null THEN Null ELSE a]
  <2>1. o \in AllocateLarge(s, ls)
    BY <1>2 DEF Outcomes
  <2>2. \/ o = None
        \/ \E a \in LargeAddrs \ mallocs, i \in First(Reusable(ls)) : o = Old(a, i)
        \/ \E a \in LargeAddrs \ mallocs, q \in AllocateSmall(s, LargeBlockSize) : o = Node(a, q)
    <3> DEFINE Reused(a) == {Old(a, i) : i \in First(Reusable(ls))}
               Added(a)  == {Node(a, q) : q \in AllocateSmall(s, LargeBlockSize)}
    <3>1. o = None \/ \E a \in LargeAddrs \ mallocs : o \in Reused(a) \/ o \in Added(a)
      BY <2>1, Zenon DEF AllocateLarge
    <3> HIDE DEF None, Old, Node
    <3> QED
      BY <3>1
  <2>3. CASE o = None
    BY <2>3 DEF Fails
  <2>4. ASSUME NEW a \in LargeAddrs \ mallocs, NEW i \in First(Reusable(ls)), o = Old(a, i)
        PROVE  Reuses(o, s, ls)
    <3>1. i \in Reusable(ls)
      BY DEF First
    <3>2. /\ Old(a, i).small = s /\ Old(a, i).large = [ls EXCEPT ![i].alloc = a]
          /\ Old(a, i).addr = a
      BY Zenon
    <3> HIDE DEF Old
    <3> QED
      BY <2>4, <3>1, <3>2, Zenon DEF Reuses, Refilled
  <2>5. ASSUME NEW a \in LargeAddrs \ mallocs, NEW q \in AllocateSmall(s, LargeBlockSize),
               o = Node(a, q)
        PROVE  Adds(o, s, ls)
    <3>1. /\ Node(a, q).small = q.small
          /\ Node(a, q).large = IF q.piece = Null THEN ls
                                ELSE <<[node |-> q.piece, alloc |-> a]>> \o ls
          /\ Node(a, q).addr = IF q.piece = Null THEN Null ELSE a
      BY Zenon
    <3> HIDE DEF Node
    <3> QED
      BY <2>5, <3>1, Zenon DEF Adds
  <2> QED
    BY <2>2, <2>3, <2>4, <2>5, Zenon
<1> QED
  BY <1>1, <1>2

\* Whichever way it is obtained, memory that is handed out is accounted for and
\* the list's nodes remain pieces of the blocks.
LEMMA OutcomesKeep ==
    ASSUME size_ \in Nat, NEW s, SmallOK(s), CurrentOK(s), s.current # 0,
           NEW ls, LargeOK(ls, mallocs), AllLive(ls, s),
           NEW n \in Nat, NEW o \in Outcomes(s, ls, n)
    PROVE  /\ Extended(s, o.small)
           /\ LargeOK(o.large, (mallocs \cup {o.addr}) \cap LargeAddrs)
           /\ AllLive(o.large, o.small)
<1>1. mallocs \subseteq LargeAddrs
  <2>1. \A i \in DOMAIN ls : ls[i] \in LargeNodes
    BY DEF LargeOK
  <2>2. \A i \in DOMAIN ls : ls[i].alloc \in LargeAddrs \cup {Null}
    BY <2>1 DEF LargeNodes
  <2> QED
    BY <2>2 DEF LargeOK, Outstanding
<1>2. ASSUME NEW x, x \notin LargeAddrs PROVE (mallocs \cup {x}) \cap LargeAddrs = mallocs
  BY <1>1, <1>2
<1>3. ASSUME NEW a \in LargeAddrs PROVE (mallocs \cup {a}) \cap LargeAddrs = mallocs \cup {a}
  BY <1>1
<1>4. Extended(s, s)
  BY DEF Extended, Grows
<1>5. ASSUME NEW t, Grows(s, t) PROVE AllLive(ls, t)
  BY <1>5, GrowsLive DEF AllLive
<1>6. Null \notin LargeAddrs /\ \A p \in Nodes : p \notin LargeAddrs /\ p # Null
  BY PoolAssumption
<1>7. CASE Fails(o, s, ls)
  BY <1>2, <1>4, <1>6, <1>7 DEF Fails
<1>8. CASE Reuses(o, s, ls)
  <2>1. PICK a \in LargeAddrs \ mallocs, i \in Reusable(ls) :
           o.small = s /\ o.large = Refilled(ls, i, a) /\ o.addr = a
    BY <1>8 DEF Reuses
  <2>2. /\ LargeOK(o.large, mallocs \cup {a})
        /\ DOMAIN o.large = DOMAIN ls /\ \A k \in DOMAIN ls : o.large[k].node = ls[k].node
    BY <2>1, LargeReused
  <2>3. AllLive(o.large, s)
    BY <2>2 DEF AllLive
  <2> QED
    BY <1>3, <1>4, <2>1, <2>2, <2>3
<1>9. CASE Adds(o, s, ls)
  <2>1. PICK a \in LargeAddrs \ mallocs, q \in AllocateSmall(s, LargeBlockSize) :
           /\ o.small = q.small
           /\ o.large = IF q.piece = Null THEN ls ELSE <<[node |-> q.piece, alloc |-> a]>> \o ls
           /\ o.addr = IF q.piece = Null THEN Null ELSE a
    BY <1>9 DEF Adds
  <2>2. SmallRequest(LargeBlockSize)
    BY PoolAssumption DEF SmallRequest
  <2>3. /\ Extended(s, q.small)
        /\ q.piece = Null \/ (q.piece \in Nodes /\ Live(q.piece, q.small))
    BY <2>2, AllocateSmallLive
  <2>4. AllLive(ls, q.small)
    BY <1>5, <2>3 DEF Extended
  <2>5. CASE q.piece = Null
    BY <1>2, <1>6, <2>1, <2>3, <2>4, <2>5
  <2>6. CASE q.piece # Null
    <3> DEFINE r == [node |-> q.piece, alloc |-> a]
    <3>1. o.large = <<r>> \o ls /\ o.addr = a /\ q.piece \in Nodes /\ Live(q.piece, q.small)
      BY <2>1, <2>3, <2>6
    <3>2. LargeOK(o.large, mallocs \cup {a})
      BY <3>1, LargeAdded
    <3>3. r \in LargeNodes /\ r.node = q.piece /\ ls \in Seq(LargeNodes)
      BY <3>1 DEF LargeNodes, LargeOK
    <3> HIDE DEF r
    <3>4. AllLive(<<r>> \o ls, q.small)
      <4>1. /\ (<<r>> \o ls)[1] = r
            /\ \A k \in DOMAIN (<<r>> \o ls) :
                 k = 1 \/ (k - 1 \in DOMAIN ls /\ (<<r>> \o ls)[k] = ls[k - 1])
        BY <3>3, Prepend
      <4> DEFINE t == <<r>> \o ls
      <4> HIDE DEF t
      <4> QED
        BY <2>4, <3>1, <3>3, <4>1 DEF AllLive, t
    <3> QED
      BY <1>3, <2>1, <2>3, <3>1, <3>2, <3>4
  <2> QED
    BY <2>5, <2>6
<1>10. CASE n <= kMaxAlloc /\ Cuts(o, s, ls, n)
  <2>1. PICK q \in AllocateSmall(s, n) : o.small = q.small /\ o.large = ls /\ o.addr = q.piece
    BY <1>10 DEF Cuts
  <2>2. SmallRequest(n)
    BY <1>10 DEF SmallRequest
  <2>3. /\ Extended(s, q.small)
        /\ q.piece = Null \/ (q.piece \in Nodes /\ Live(q.piece, q.small))
    BY <2>2, AllocateSmallLive
  <2>4. AllLive(ls, q.small)
    BY <1>5, <2>3 DEF Extended
  <2>5. o.addr \notin LargeAddrs
    BY <1>6, <2>1, <2>3
  <2> QED
    BY <1>2, <2>1, <2>3, <2>4, <2>5
<1> QED
  BY <1>7, <1>8, <1>9, <1>10, OutcomesAre

-----------------------------------------------------------------------------
(* The list of cleanup handlers.                                           *)

\* A handler that was never registered or called is put in front of the list.
LEMMA HandlerAdded ==
    ASSUME CleanupOK, NEW p \in Nodes, NEW h \in Handlers, ran[h] = 0,
           \A i \in DOMAIN cleanup_ : cleanup_[i].handler # h,
           ran' = ran, cleanup_' = <<[node |-> p, handler |-> h]>> \o cleanup_,
           NEW s, AllLive(cleanup_, s), Live(p, s)
    PROVE  CleanupOK' /\ AllLive(cleanup_', s)
<1> DEFINE r == [node |-> p, handler |-> h]
           t == <<r>> \o cleanup_
<1>1. r \in CleanupNodes /\ r.handler = h /\ r.node = p
  BY DEF CleanupNodes
<1> HIDE DEF r
<1>2. cleanup_ \in Seq(CleanupNodes)
  BY DEF CleanupOK
<1>3. /\ t \in Seq(CleanupNodes) /\ t[1] = r
      /\ \A k \in DOMAIN t : k = 1 \/ (k - 1 \in DOMAIN cleanup_ /\ t[k] = cleanup_[k - 1])
  BY <1>1, <1>2, Prepend
<1>4. cleanup_' = t
  BY DEF r
<1> HIDE DEF t
<1>5. ASSUME NEW k \in DOMAIN t, NEW j \in DOMAIN t, t[k].handler = t[j].handler
      PROVE  k = j
  <2>1. CASE k = 1 \/ j = 1
    BY <1>1, <1>3, <1>5, <2>1
  <2>2. CASE k # 1 /\ j # 1
    <3>1. /\ k - 1 \in DOMAIN cleanup_ /\ j - 1 \in DOMAIN cleanup_
          /\ t[k] = cleanup_[k - 1] /\ t[j] = cleanup_[j - 1]
      BY <1>3, <2>2
    <3>2. k - 1 = j - 1
      BY <1>5, <3>1 DEF CleanupOK
    <3> QED
      BY <1>3, <3>2
  <2> QED
    BY <2>1, <2>2
<1>6. ASSUME NEW k \in DOMAIN t PROVE ran[t[k].handler] = 0
  <2>1. CASE k = 1
    BY <1>1, <1>3, <2>1
  <2>2. CASE k # 1
    <3>1. k - 1 \in DOMAIN cleanup_ /\ t[k] = cleanup_[k - 1]
      BY <1>3, <2>2
    <3> QED
      BY <3>1 DEF CleanupOK
  <2> QED
    BY <2>1, <2>2
<1>7. \A k \in DOMAIN t : Live(t[k].node, s)
  BY <1>1, <1>3 DEF AllLive
<1>8. CleanupOK'
  BY <1>3, <1>4, <1>5, <1>6 DEF CleanupOK
<1> QED
  BY <1>4, <1>7, <1>8 DEF AllLive

\* The nodes that hold a handler: one or none.
LEMMA HoldersOf ==
    ASSUME CleanupOK, NEW h \in Handlers
    PROVE  LET H == {i \in DOMAIN cleanup_ : cleanup_[i].handler = h}
           IN  Cardinality(H) = 0 \/ (Cardinality(H) = 1 /\ ran[h] = 0)
<1> DEFINE H == {i \in DOMAIN cleanup_ : cleanup_[i].handler = h}
<1>1. CASE H = {}
  BY <1>1, FS_EmptySet
<1>2. CASE H # {}
  <2>1. PICK i : i \in H
    BY <1>2
  <2>2. H = {i} /\ ran[h] = 0
    BY <2>1 DEF CleanupOK
  <2>3. Cardinality({i}) = 1
    BY FS_Singleton
  <2> QED
    BY <2>2, <2>3
<1> QED
  BY <1>1, <1>2

\* Calling the handlers and forgetting the list.
LEMMA HandlersRun ==
    ASSUME CleanupOK, ran' = HandlersCalled, cleanup_' = <<>>
    PROVE  CleanupOK'
<1>1. ASSUME NEW h \in Handlers PROVE HandlersCalled[h] \in {0, 1}
  <2> DEFINE H == {i \in DOMAIN cleanup_ : cleanup_[i].handler = h}
  <2>1. HandlersCalled[h] = ran[h] + Cardinality(H)
    BY DEF HandlersCalled
  <2>2. Cardinality(H) = 0 \/ (Cardinality(H) = 1 /\ ran[h] = 0)
    BY HoldersOf
  <2>3. ran[h] \in {0, 1}
    BY DEF CleanupOK
  <2> HIDE DEF H
  <2> QED
    BY <2>1, <2>2, <2>3
<1>2. HandlersCalled \in [Handlers -> {0, 1}]
  BY <1>1 DEF HandlersCalled
<1>3. cleanup_' \in Seq(CleanupNodes) /\ DOMAIN cleanup_' = {}
  OBVIOUS
<1> QED
  BY <1>2, <1>3 DEF CleanupOK

-----------------------------------------------------------------------------
(* The invariant of the lists.                                             *)

\* An empty list knows no allocation.
LEMMA NoLarge == LargeOK(<<>>, {})
  BY DEF LargeOK, Outstanding

\* A new pool has empty lists.
LEMMA InitLists == Init => ListInv
<1> SUFFICES ASSUME Init PROVE ListInv
  OBVIOUS
<1>1. Inv
  BY InitSound
<1>2. CurrentOK(small)
  <2>1. CASE small = NoBlocks
    BY <2>1 DEF CurrentOK, NoBlocks
  <2>2. CASE small = RootBlock
    BY <2>2 DEF CurrentOK, RootBlock
  <2> QED
    BY <2>1, <2>2 DEF Init
<1>3. LargeOK(large_, mallocs)
  BY NoLarge DEF Init
<1>4. CleanupOK
  <2>1. cleanup_ = <<>> /\ ran = [h \in Handlers |-> 0]
    BY DEF Init
  <2> QED
    BY <2>1 DEF CleanupOK
<1>5. AllLive(large_, small) /\ AllLive(cleanup_, small)
  BY DEF Init, AllLive
<1> QED
  BY <1>1, <1>2, <1>3, <1>4, <1>5 DEF ListInv, Init

\* What is known of the blocks stays known when only their name changes.
LEMMA ListsMoved ==
    ASSUME Inv', NEW s, small' = s, CurrentOK(s), NEW ls, NEW ms, large_' = ls, mallocs' = ms,
           LargeOK(ls, ms), AllLive(ls, s), CleanupOK', NEW cs, cleanup_' = cs, AllLive(cs, s),
           status' \in {"alive", "destroyed", "undefined"}
    PROVE  ListInv'
<1>1. CurrentOK(small)'
  BY DEF CurrentOK
<1>2. LargeOK(large_, mallocs)'
  BY DEF LargeOK, Outstanding
<1>3. AllLive(large_, small)' /\ AllLive(cleanup_, small)'
  BY DEF AllLive, Live
<1> QED
  BY <1>1, <1>2, <1>3 DEF ListInv

\* Allocate keeps the lists sound.
LEMMA AllocateLists ==
    ASSUME ListInv, Inv', NEW n \in AllocSizes, Allocate(n)
    PROVE  ListInv'
<1>1. PICK o \in Outcomes(small, large_, n) :
         /\ small' = o.small /\ large_' = o.large
         /\ mallocs' = (mallocs \cup {o.addr}) \cap LargeAddrs
         /\ status' = StatusAfter(o.small)
  BY DEF Allocate
<1>2. /\ size_ \in Nat /\ SmallOK(small) /\ CurrentOK(small) /\ small.current # 0
      /\ LargeOK(large_, mallocs) /\ AllLive(large_, small) /\ CleanupOK
      /\ AllLive(cleanup_, small) /\ n \in Nat
  BY PoolAssumption DEF ListInv, Inv, Allocate, Usable
<1>3. /\ Extended(small, o.small)
      /\ LargeOK(o.large, (mallocs \cup {o.addr}) \cap LargeAddrs)
      /\ AllLive(o.large, o.small)
  BY <1>2, OutcomesKeep
<1>4. AllLive(cleanup_, o.small)
  BY <1>2, <1>3, GrowsLive DEF AllLive, Extended
<1>5. CleanupOK' /\ cleanup_' = cleanup_
  BY <1>2 DEF Allocate, CleanupOK
<1>6. status' \in {"alive", "destroyed", "undefined"}
  BY <1>1 DEF StatusAfter
<1> QED
  BY <1>1, <1>3, <1>4, <1>5, <1>6, ListsMoved DEF Extended

\* AddCleanup keeps the lists sound.
LEMMA AddCleanupLists ==
    ASSUME ListInv, Inv', NEW h \in Handlers, NEW n \in AllocSizes \cup {0}, AddCleanup(h, n)
    PROVE  ListInv'
<1>1. /\ size_ \in Nat /\ SmallOK(small) /\ CurrentOK(small) /\ small.current # 0
      /\ LargeOK(large_, mallocs) /\ AllLive(large_, small) /\ CleanupOK
      /\ AllLive(cleanup_, small) /\ n \in Nat
  BY PoolAssumption DEF ListInv, Inv, AddCleanup, Usable
<1>2. PICK c \in AllocateSmall(small, CleanupBlockSize) :
      \E o \in IF c.piece # Null /\ n # 0 THEN Outcomes(c.small, large_, n)
               ELSE {[small |-> c.small, large |-> large_, addr |-> Null]} :
         /\ small' = o.small /\ large_' = o.large
         /\ mallocs' = (mallocs \cup {o.addr}) \cap LargeAddrs
         /\ cleanup_' = IF c.piece = Null \/ (n # 0 /\ o.addr = Null) THEN cleanup_
                        ELSE <<[node |-> c.piece, handler |-> h]>> \o cleanup_
         /\ status' = StatusAfter(o.small)
  BY DEF AddCleanup
<1>3. PICK o \in IF c.piece # Null /\ n # 0 THEN Outcomes(c.small, large_, n)
                 ELSE {[small |-> c.small, large |-> large_, addr |-> Null]} :
         /\ small' = o.small /\ large_' = o.large
         /\ mallocs' = (mallocs \cup {o.addr}) \cap LargeAddrs
         /\ cleanup_' = IF c.piece = Null \/ (n # 0 /\ o.addr = Null) THEN cleanup_
                        ELSE <<[node |-> c.piece, handler |-> h]>> \o cleanup_
         /\ status' = StatusAfter(o.small)
  BY <1>2
<1>4. /\ Extended(small, c.small)
      /\ c.piece = Null \/ (c.piece \in Nodes /\ Live(c.piece, c.small))
  <2>1. SmallRequest(CleanupBlockSize)
    BY PoolAssumption DEF SmallRequest
  <2> QED
    BY <1>1, <2>1, AllocateSmallLive
<1>5. AllLive(large_, c.small) /\ AllLive(cleanup_, c.small)
  BY <1>1, <1>4, GrowsLive DEF AllLive, Extended
<1>6. /\ Extended(c.small, o.small)
      /\ LargeOK(o.large, (mallocs \cup {o.addr}) \cap LargeAddrs)
      /\ AllLive(o.large, o.small)
  <2>1. CASE o \in Outcomes(c.small, large_, n)
    BY <1>1, <1>4, <1>5, <2>1, OutcomesKeep DEF Extended
  <2>2. CASE o = [small |-> c.small, large |-> large_, addr |-> Null]
    <3>1. o.small = c.small /\ o.large = large_ /\ o.addr = Null
      BY <2>2
    <3>2. (mallocs \cup {Null}) \cap LargeAddrs = mallocs
      <4>1. \A i \in DOMAIN large_ : large_[i] \in LargeNodes
        BY <1>1 DEF LargeOK
      <4>2. \A i \in DOMAIN large_ : large_[i].alloc \in LargeAddrs \cup {Null}
        BY <4>1 DEF LargeNodes
      <4> QED
        BY <1>1, <4>2, PoolAssumption DEF LargeOK, Outstanding
    <3>3. Extended(c.small, c.small)
      BY <1>4 DEF Extended, Grows
    <3> QED
      BY <1>1, <1>5, <3>1, <3>2, <3>3
  <2> QED
    BY <1>3, <2>1, <2>2
<1>7. /\ AllLive(cleanup_, o.small)
      /\ c.piece = Null \/ (c.piece \in Nodes /\ Live(c.piece, o.small))
  BY <1>4, <1>5, <1>6, GrowsLive DEF AllLive, Extended
<1>8. /\ ran' = ran /\ ran[h] = 0 /\ \A i \in DOMAIN cleanup_ : cleanup_[i].handler # h
  BY DEF AddCleanup
<1>9. CleanupOK' /\ AllLive(cleanup_', o.small)
  <2>1. CASE cleanup_' = cleanup_
    BY <1>1, <1>7, <1>8, <2>1 DEF CleanupOK
  <2>2. CASE c.piece # Null /\ cleanup_' = <<[node |-> c.piece, handler |-> h]>> \o cleanup_
    BY <1>1, <1>7, <1>8, <2>2, HandlerAdded
  <2> QED
    BY <1>3, <2>1, <2>2
<1>10. status' \in {"alive", "destroyed", "undefined"}
  BY <1>3 DEF StatusAfter
<1>11. PICK cs : cs = cleanup_'
  OBVIOUS
<1> QED
  BY <1>3, <1>6, <1>9, <1>10, <1>11, ListsMoved DEF Extended

\* Every operation keeps the lists sound.
LEMMA NextLists == ListInv /\ [Next]_vars => ListInv'
<1> SUFFICES ASSUME ListInv, [Next]_vars PROVE ListInv'
  OBVIOUS
<1>1. Inv'
  BY NextSound DEF ListInv
<1>2. /\ CurrentOK(small) /\ LargeOK(large_, mallocs) /\ AllLive(large_, small) /\ CleanupOK
      /\ AllLive(cleanup_, small) /\ status \in {"alive", "destroyed", "undefined"}
      /\ SmallOK(small)
  BY DEF ListInv, Inv
<1>3. ASSUME NEW n \in AllocSizes, Allocate(n) PROVE ListInv'
  BY <1>1, <1>3, AllocateLists
<1>4. ASSUME NEW h \in Handlers, NEW n \in AllocSizes \cup {0}, AddCleanup(h, n) PROVE ListInv'
  BY <1>1, <1>4, AddCleanupLists
<1>5. ASSUME NEW a \in LargeAddrs, LargeFree(a) PROVE ListInv'
  <2>1. /\ LargeOK(FreedNodes(a), mallocs \ ({a} \cap Outstanding(large_)))
        /\ DOMAIN FreedNodes(a) = DOMAIN large_
        /\ \A k \in DOMAIN large_ : FreedNodes(a)[k].node = large_[k].node
    BY <1>2, LargeFreed
  <2>2. AllLive(FreedNodes(a), small)
    BY <1>2, <2>1 DEF AllLive
  <2>3. CleanupOK'
    BY <1>2, <1>5 DEF LargeFree, CleanupOK
  <2> QED
    BY <1>1, <1>2, <1>5, <2>1, <2>2, <2>3, ListsMoved DEF LargeFree
<1>6. CASE UNCHANGED <<small, large_, cleanup_, mallocs, ran>> /\ status' \in {status, "undefined"}
  <2>1. CleanupOK'
    BY <1>2, <1>6 DEF CleanupOK
  <2> QED
    BY <1>1, <1>2, <1>6, <2>1, ListsMoved
<1>7. mallocs \ Outstanding(large_) = {}
  BY <1>2 DEF LargeOK
<1>8. ASSUME NEW s, CurrentOK(s), small' = s, ran' = HandlersCalled, cleanup_' = <<>>,
             large_' = <<>>, mallocs' = {}, status' \in {"alive", "destroyed"}
      PROVE  ListInv'
  <2>1. CleanupOK'
    BY <1>2, <1>8, HandlersRun
  <2>2. AllLive(<<>>, s)
    BY DEF AllLive
  <2> QED
    BY <1>1, <1>8, <2>1, <2>2, NoLarge, ListsMoved
<1>9. CASE Reset
  <2> DEFINE b  == [start |-> SmallBlockSize, failed |-> 0, pieces |-> <<>>]
             bs == [i \in DOMAIN small.blocks |-> b]
             k  == IF small.blocks = <<>> THEN 0 ELSE 1
             s  == [blocks |-> bs, current |-> k]
  <2>1. small' = s
    BY <1>9 DEF Reset
  <2>2. CurrentOK(s)
    <3>1. s.blocks = bs /\ s.current = k
      OBVIOUS
    <3>2. small.blocks \in Seq(Block) /\ Len(small.blocks) \in Nat
          /\ DOMAIN small.blocks = 1 .. Len(small.blocks)
      BY <1>2 DEF SmallOK
    <3> HIDE DEF b
    <3>3. bs \in [1 .. Len(small.blocks) -> {b}]
      BY <3>2
    <3>4. bs \in Seq({b}) /\ Len(bs) = Len(small.blocks)
      <4> HIDE DEF bs
      <4> QED
        BY <3>2, <3>3
    <3> HIDE DEF bs
    <3>5. bs = <<>> <=> small.blocks = <<>>
      BY <3>2, <3>4
    <3>6. small.blocks # <<>> => 1 <= Len(bs)
      BY <3>2, <3>4
    <3> QED
      BY <3>1, <3>4, <3>5, <3>6 DEF CurrentOK
  <2> HIDE DEF s
  <2>3. /\ ran' = HandlersCalled /\ cleanup_' = <<>> /\ large_' = <<>> /\ mallocs' = {}
        /\ status' = "alive"
    BY <1>7, <1>9 DEF Reset, AfterReset
  <2> QED
    BY <1>8, <2>1, <2>2, <2>3
<1>10. CASE DestoryPool
  <2>1. CurrentOK([blocks |-> <<>>, current |-> 0])
    BY DEF CurrentOK
  <2> QED
    BY <1>7, <1>8, <1>10, <2>1 DEF DestoryPool
<1> QED
  BY <1>3, <1>4, <1>5, <1>6, <1>9, <1>10
     DEF Next, Terminated, AllocateFromNothing, vars

\* The lists are sound in every state.
THEOREM ListInvariant == Spec => []ListInv
  BY InitLists, NextLists, PTL DEF Spec

\* The lists hold what their types say, current_block_ never leaves the chain, and
\* only addresses that malloc returned are outstanding.
THEOREM TypeCorrect == Spec => []TypeOK
<1>1. ASSUME ListInv PROVE TypeOK
  <2>1. /\ size_ \in Nat /\ small.blocks \in Seq(Block) /\ CurrentOK(small)
        /\ status \in {"alive", "destroyed", "undefined"}
        /\ large_ \in Seq(LargeNodes) /\ mallocs = Outstanding(large_)
        /\ cleanup_ \in Seq(CleanupNodes) /\ ran \in [Handlers -> {0, 1}]
    BY <1>1 DEF ListInv, Inv, SmallOK, LargeOK, CleanupOK
  <2>2. small.current \in 0 .. Len(small.blocks) /\ (small.current = 0) = (small.blocks = <<>>)
    <3>1. Len(small.blocks) \in Nat
      BY <2>1
    <3> QED
      BY <2>1, <3>1 DEF CurrentOK
  <2>3. mallocs \subseteq LargeAddrs
    <3>1. \A i \in DOMAIN large_ : large_[i] \in LargeNodes
      BY <2>1
    <3> QED
      BY <2>1, <3>1 DEF Outstanding, LargeNodes
  <2>4. ran \in [Handlers -> Nat]
    BY <2>1
  <2> QED
    BY <2>1, <2>2, <2>3, <2>4 DEF TypeOK, Block, LargeNodes, CleanupNodes
<1> QED
  BY <1>1, ListInvariant, PTL

\* No node of the list of large allocations or of the list of handlers lies in
\* memory that AllocateSmall may hand out again: Reset drops both lists together
\* with the pieces, and no other operation takes a piece back.
THEOREM NodesLiveAlways == Spec => []NodesLive
<1>1. ListInv => NodesLive
  BY DEF ListInv, AllLive, Live, NodesLive
<1> QED
  BY <1>1, ListInvariant, PTL

\* AllocateLarge, LargeFree, Reset and the destructor neither leak large memory
\* nor free it twice.
THEOREM LargeAccountingAlways == Spec => []LargeAccounting
<1>1. ListInv => LargeAccounting
  BY DEF ListInv, LargeOK, LargeAccounting
<1> QED
  BY <1>1, ListInvariant, PTL

\* Reset followed by the destructor, or any other sequence, calls a cleanup
\* handler at most once.
THEOREM CleanupOnceAlways == Spec => []CleanupOnce
<1>1. ListInv => CleanupOnce
  <2> SUFFICES ASSUME ListInv, NEW h \in Handlers
               PROVE  ran[h] + Cardinality({i \in DOMAIN cleanup_ : cleanup_[i].handler = h}) <= 1
    BY DEF CleanupOnce
  <2> DEFINE H == {i \in DOMAIN cleanup_ : cleanup_[i].handler = h}
  <2>1. CleanupOK
    BY DEF ListInv
  <2>2. Cardinality(H) = 0 \/ (Cardinality(H) = 1 /\ ran[h] = 0)
    BY <2>1, HoldersOf
  <2>3. ran[h] \in {0, 1}
    BY <2>1 DEF CleanupOK
  <2> HIDE DEF H
  <2>4. ran[h] + Cardinality(H) <= 1
    BY <2>2, <2>3
  <2> QED
    BY <2>4 DEF H
<1> QED
  BY <1>1, ListInvariant, PTL
=============================================================================
