-------------------------- MODULE NginxMemoryPool ---------------------------
(***************************************************************************)
(* The memory pool of nginx_memory_pool/memory_pool.{h,cpp}: a chain of    *)
(* equally large blocks from which small pieces are cut, a list of large   *)
(* allocations and a list of cleanup handlers, whose nodes are themselves  *)
(* pieces of the blocks.  The pool is used by one thread.                  *)
(*                                                                         *)
(* malloc is external: it fails or returns aligned memory that is not in   *)
(* use.  A position in a block is its distance from the block's start, so  *)
(* that aligning a pointer is aligning a position.                         *)
(***************************************************************************)
EXTENDS Integers, Sequences, FiniteSets, FiniteSetsExt

CONSTANTS
    PoolSizes,           \* the arguments of the constructor
    AllocSizes,          \* the arguments of Allocate and AddCleanup
    LargeAddrs,          \* the addresses malloc returns for large allocations
    Handlers,            \* the cleanup handlers, each registered at most once
    Null,                \* nullptr
    kAlignment, kMaxAlloc, kDefaultPoolSize, MinPoolSize,
    SmallBlockSize, LargeBlockSize, CleanupBlockSize,   \* sizeof of the structs
    kMaxFailed,          \* 4: failures after which a block is passed over
    kMaxTries,           \* 3: bounds the search for an empty LargeBlock
    MaxBlocks            \* bound on the length of the chain

\* Where a piece lies; large memory and nullptr are somewhere else.
Nodes == [block : Nat, from : Nat, len : Nat]

ASSUME PoolAssumption ==
    /\ PoolSizes \subseteq Nat /\ AllocSizes \subseteq Nat
    /\ Null \notin LargeAddrs /\ \A a \in LargeAddrs \cup {Null} : a \notin Nodes
    /\ kAlignment \in Nat \ {0}
    /\ kMaxAlloc \in Nat /\ kDefaultPoolSize \in Nat /\ MinPoolSize \in Nat
    /\ SmallBlockSize \in Nat /\ LargeBlockSize \in Nat /\ CleanupBlockSize \in Nat
    /\ kMaxFailed \in Nat /\ kMaxTries \in Nat /\ MaxBlocks \in Nat

VARIABLES
    status,    \* alive, destroyed, or undefined (see Corrupts, AllocateFromNothing)
    size_,
    small,     \* [blocks: the chain from root_block_; current: current_block_]
    large_,    \* the LargeBlock list, first node first
    cleanup_,  \* the CleanupBlock list, first node first
    mallocs,   \* the large allocations that have not been freed
    ran        \* history: how often each handler was called

vars == <<status, size_, small, large_, cleanup_, mallocs, ran>>

\* memory & ~(kAlignment - 1) after adding kAlignment - 1
AlignPtr(p) == ((p + kAlignment - 1) \div kAlignment) * kAlignment

\* std::max with the minimum, then std::min with the default size.
PoolSize(size) ==
    LET atLeast == IF size < MinPoolSize THEN MinPoolSize ELSE size
    IN  IF atLeast > kDefaultPoolSize THEN kDefaultPoolSize ELSE atLeast

-----------------------------------------------------------------------------
(* Small pieces.  An allocation is an outcome: the small blocks after it    *)
(* and the piece that was cut, or Null.                                     *)

Piece(i, m, n) == [block |-> i, from |-> m, len |-> n]

\* static_cast<size_t>(end - m) >= size: a negative difference becomes huge.
Fits(m, n) == m > size_ \/ size_ - m >= n

\* faulty Taken: the piece stays available
NotTaken(m, n) == m

\* p->start after a piece of n bytes was cut at m
Taken(m, n) == m + n

\* A piece of n bytes from block i.
CutFrom(s, i, n) ==
    LET b == s.blocks[i]
        m == AlignPtr(b.start)
    IN  [small |-> [s EXCEPT !.blocks[i] =
                       [b EXCEPT !.start = Taken(m, n),
                                 !.pieces = Append(@, [from |-> m, len |-> n])]],
         piece |-> Piece(i, m, n)]

GivesUp(k) == k > kMaxFailed

\* current_block_ once a new block is appended: the loop over all but the last
\* block tests the old counter, the last block is tested after its increment.
NextCurrent(s) ==
    LET last   == Len(s.blocks)
        passed == {i \in s.current .. last - 1 : GivesUp(s.blocks[i].failed)}
    IN  IF GivesUp(s.blocks[last].failed + 1) THEN last + 1
        ELSE IF passed # {} THEN Max(passed) + 1
        ELSE s.current

\* p->next = new_block
Linked(bs, b) == Append(bs, b)

\* A new block of size_ bytes; its first piece is cut without looking at size_.
AllocateSmallBlock(s, n) ==
    LET m     == AlignPtr(SmallBlockSize)
        last  == Len(s.blocks)
        old   == [i \in 1 .. last |->
                    IF i < s.current THEN s.blocks[i]
                    ELSE [s.blocks[i] EXCEPT !.failed = @ + 1]]
        new   == [start |-> Taken(m, n), failed |-> 0,
                  pieces |-> <<[from |-> m, len |-> n]>>]
    IN  [small |-> [blocks |-> Linked(old, new), current |-> NextCurrent(s)],
         piece |-> Piece(last + 1, m, n)]

\* The blocks from current_block_ on that have room.
HaveRoom(s, n) ==
    {i \in s.current .. Len(s.blocks) : Fits(AlignPtr(s.blocks[i].start), n)}

\* Where a search that walks a list from its head stops.
First(S) == {i \in S : \A j \in S : i <= j}

\* The possible outcomes: malloc may fail when a new block is needed.
AllocateSmall(s, n) ==
    IF HaveRoom(s, n) # {}
    THEN {CutFrom(s, i, n) : i \in First(HaveRoom(s, n))}
    ELSE {[small |-> s, piece |-> Null]} \cup
         IF Len(s.blocks) < MaxBlocks THEN {AllocateSmallBlock(s, n)} ELSE {}

-----------------------------------------------------------------------------
(* Large allocations.  Outcomes: the small blocks, the list, the address.   *)

\* The empty nodes among those the search looks at.
Reusable(ls) == {i \in 1 .. Len(ls) : i <= kMaxTries + 2 /\ ls[i].alloc = Null}

AllocateLarge(s, ls) ==
    {[small |-> s, large |-> ls, addr |-> Null]} \cup
    UNION {IF Reusable(ls) # {}
           THEN {[small |-> s, large |-> [ls EXCEPT ![i].alloc = a], addr |-> a]
                   : i \in First(Reusable(ls))}
           ELSE {[small |-> o.small,
                  large |-> IF o.piece = Null THEN ls
                            ELSE <<[node |-> o.piece, alloc |-> a]>> \o ls,
                  addr  |-> IF o.piece = Null THEN Null ELSE a]
                   : o \in AllocateSmall(s, LargeBlockSize)}
           : a \in LargeAddrs \ mallocs}

\* Allocate: the outcomes for n bytes, whichever way they are obtained.
Outcomes(s, ls, n) ==
    IF n <= kMaxAlloc
    THEN {[small |-> o.small, large |-> ls, addr |-> o.piece] : o \in AllocateSmall(s, n)}
    ELSE AllocateLarge(s, ls)

Outstanding(ls) == {ls[i].alloc : i \in DOMAIN ls} \ {Null}

-----------------------------------------------------------------------------
(* The operations.                                                         *)

Usable == status = "alive" /\ small.current # 0

\* A piece reaches past the end of its block: what follows is undefined.
Corrupts(s) == \E i \in DOMAIN s.blocks : s.blocks[i].start > size_

StatusAfter(s) == IF Corrupts(s) THEN "undefined" ELSE "alive"

Allocate(n) ==
    /\ Usable
    /\ \E o \in Outcomes(small, large_, n) :
          /\ small' = o.small
          /\ large_' = o.large
          /\ mallocs' = (mallocs \cup {o.addr}) \cap LargeAddrs
          /\ status' = StatusAfter(o.small)
    /\ UNCHANGED <<size_, cleanup_, ran>>

\* A CleanupBlock and its data; the caller then sets the handler.  When there is
\* no memory for the data the node is lost (until the pool is reset).
AddCleanup(h, n) ==
    /\ Usable
    /\ ran[h] = 0 /\ \A i \in DOMAIN cleanup_ : cleanup_[i].handler # h
    /\ \E c \in AllocateSmall(small, CleanupBlockSize) :
       \E o \in IF c.piece # Null /\ n # 0 THEN Outcomes(c.small, large_, n)
                ELSE {[small |-> c.small, large |-> large_, addr |-> Null]} :
          /\ small' = o.small
          /\ large_' = o.large
          /\ mallocs' = (mallocs \cup {o.addr}) \cap LargeAddrs
          /\ cleanup_' = IF c.piece = Null \/ (n # 0 /\ o.addr = Null) THEN cleanup_
                         ELSE <<[node |-> c.piece, handler |-> h]>> \o cleanup_
          /\ status' = StatusAfter(o.small)
    /\ UNCHANGED <<size_, ran>>

\* A pool without root block (size 0, or malloc failed in the constructor) is
\* used: p->start through a null pointer.
AllocateFromNothing ==
    /\ status = "alive" /\ small.current = 0
    /\ status' = "undefined"
    /\ UNCHANGED <<size_, small, large_, cleanup_, mallocs, ran>>

\* faulty FreedNodes: l->alloc keeps the address
StillThere(a) == large_

\* l->alloc = nullptr for the node that held a.
FreedNodes(a) ==
    [i \in DOMAIN large_ |-> IF large_[i].alloc = a THEN [large_[i] EXCEPT !.alloc = Null]
                             ELSE large_[i]]

LargeFree(a) ==
    /\ status = "alive" /\ a \in mallocs
    /\ large_' = FreedNodes(a)
    /\ mallocs' = mallocs \ ({a} \cap Outstanding(large_))
    /\ UNCHANGED <<status, size_, small, cleanup_, ran>>

\* Every handler in the list is called.
HandlersCalled ==
    [h \in Handlers |-> ran[h] + Cardinality({i \in DOMAIN cleanup_ : cleanup_[i].handler = h})]

\* faulty AfterReset: the list survives with its nodes in reusable memory
KeepList(list) == list

\* large_ and cleanup_ after Reset
AfterReset(list) == <<>>

Reset ==
    /\ status = "alive"
    /\ ran' = HandlersCalled
    /\ mallocs' = mallocs \ Outstanding(large_)
    /\ small' = [blocks  |-> [i \in DOMAIN small.blocks |->
                                [start |-> SmallBlockSize, failed |-> 0, pieces |-> <<>>]],
                 current |-> IF small.blocks = <<>> THEN 0 ELSE 1]
    /\ cleanup_' = AfterReset(cleanup_)
    /\ large_' = AfterReset(large_)
    /\ UNCHANGED <<status, size_>>

\* ~MemoryPool
DestoryPool ==
    /\ status = "alive"
    /\ status' = "destroyed"
    /\ ran' = HandlersCalled
    /\ mallocs' = mallocs \ Outstanding(large_)
    /\ small' = [blocks |-> <<>>, current |-> 0]
    /\ cleanup_' = <<>>
    /\ large_' = <<>>
    /\ UNCHANGED size_

-----------------------------------------------------------------------------
NoBlocks  == [blocks |-> <<>>, current |-> 0]
RootBlock == [blocks |-> <<[start |-> SmallBlockSize, failed |-> 0, pieces |-> <<>>]>>,
              current |-> 1]

\* The constructor: nothing is allocated for size 0 or when malloc fails.
Init ==
    /\ status = "alive"
    /\ \/ size_ = 0 /\ small = NoBlocks
       \/ \E s \in PoolSizes \ {0} : size_ = PoolSize(s) /\ small = RootBlock
    /\ large_ = <<>> /\ cleanup_ = <<>>
    /\ mallocs = {}
    /\ ran = [h \in Handlers |-> 0]

Terminated == status # "alive" /\ UNCHANGED vars

Next ==
    \/ \E n \in AllocSizes : Allocate(n)
    \/ \E h \in Handlers, n \in AllocSizes \cup {0} : AddCleanup(h, n)
    \/ \E a \in LargeAddrs : LargeFree(a)
    \/ AllocateFromNothing \/ Reset \/ DestoryPool \/ Terminated

Spec == Init /\ [][Next]_vars

-----------------------------------------------------------------------------
(* What the pool promises.                                                 *)

Pieces == [from : Nat, len : Nat]

\* The values the variables may take.
TypeOK ==
    /\ status \in {"alive", "destroyed", "undefined"}
    /\ size_ \in Nat
    /\ small.blocks \in Seq([start : Nat, failed : Nat, pieces : Seq(Pieces)])
    /\ small.current \in 0 .. Len(small.blocks)
    /\ (small.current = 0) = (small.blocks = <<>>)
    /\ large_ \in Seq([node : Nodes, alloc : LargeAddrs \cup {Null}])
    /\ cleanup_ \in Seq([node : Nodes, handler : Handlers])
    /\ mallocs \subseteq LargeAddrs
    /\ ran \in [Handlers -> Nat]

\* The pool sizes for which AllocateSmall is safe, as the default size is: whole
\* units of kAlignment, with room for any small piece behind the header.  Neither
\* the constructor nor AllocateSmallBlock checks this.
WellSized(size) ==
    /\ size % kAlignment = 0
    /\ \A n \in {kMaxAlloc, LargeBlockSize, CleanupBlockSize} :
          AlignPtr(SmallBlockSize) + n <= size

\* In a well-sized pool every piece that was handed out lies inside its block,
\* behind the header, is aligned, and overlaps no other piece, the pool's own
\* nodes included.
PiecesDisjoint ==
    WellSized(size_) =>
    \A i \in DOMAIN small.blocks :
        LET ps == small.blocks[i].pieces
        IN  \A j \in DOMAIN ps :
               /\ ps[j].from >= SmallBlockSize
               /\ ps[j].from + ps[j].len <= size_
               /\ ps[j].from % kAlignment = 0
               /\ \A k \in 1 .. j - 1 : ps[k].from + ps[k].len <= ps[j].from

\* The nodes of the two lists are pieces of the pool that have not been given
\* back: no node lies in memory that the next allocation may overwrite.
NodesLive ==
    \A list \in {large_, cleanup_} : \A i \in DOMAIN list :
        LET nd == list[i].node
        IN  /\ nd.block \in DOMAIN small.blocks
            /\ \E j \in DOMAIN small.blocks[nd.block].pieces :
                  small.blocks[nd.block].pieces[j] = [from |-> nd.from, len |-> nd.len]

\* The large allocations the pool knows of are those that malloc handed out and
\* free has not taken back, each in one node: nothing leaks, nothing is freed
\* twice, and after the destructor nothing is left.
LargeAccounting ==
    /\ mallocs = Outstanding(large_)
    /\ \A i, j \in DOMAIN large_ : large_[i].alloc = large_[j].alloc /\ i # j => large_[i].alloc = Null

\* A cleanup handler is registered or has been called, once, never both.
CleanupOnce ==
    \A h \in Handlers :
        ran[h] + Cardinality({i \in DOMAIN cleanup_ : cleanup_[i].handler = h}) <= 1
=============================================================================
