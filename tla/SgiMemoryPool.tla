--------------------------- MODULE SgiMemoryPool ----------------------------
(***************************************************************************)
(* The memory pool of sgi_memory_pool/memory_pool.{h,cpp}: one free list   *)
(* per size class, filled from a chunk [start_free_, end_free_) that is    *)
(* obtained from malloc.  Everything below runs under mtx_, except that    *)
(* Reallocate allocates, copies and deallocates in steps of their own.     *)
(*                                                                         *)
(* malloc is external: it fails, or returns aligned memory above all that  *)
(* it returned before (heap).  Address 0 is nullptr.                       *)
(***************************************************************************)
EXTENDS Integers, Sequences, FiniteSets

CONSTANTS
    Clients,       \* the threads, each with at most one block and one in the making
    Sizes,         \* the sizes they ask for
    kAlign, kMaxBytes,
    kObjs,         \* 20: the nodes Refill asks for
    HeapDivisor,   \* 16: heap_size_ >> 4
    HeapLimit,     \* bound on the memory malloc hands out
    NoBlock

ASSUME PoolAssumption ==
    /\ Sizes \subseteq Nat \ {0}
    /\ kAlign \in Nat \ {0} /\ kMaxBytes \in Nat /\ kMaxBytes % kAlign = 0
    /\ kObjs \in Nat \ {0, 1}
    /\ HeapDivisor \in Nat \ {0} /\ HeapLimit \in Nat
    /\ NoBlock \notin [addr : Nat, n : Nat]

VARIABLES
    free_list_,             \* by size class, first node first
    start_free_, end_free_, heap_size_,
    heap,                   \* malloc's next address
    block,                  \* what each client holds: [addr, n], or NoBlock
    fresh,                  \* the new block of a client inside Reallocate
    status                  \* running, or undefined (a null chunk was used)

chunk == <<start_free_, end_free_, heap_size_>>
vars  == <<free_list_, chunk, heap, block, fresh, status>>

RoundUp(n) == ((n + kAlign - 1) \div kAlign) * kAlign

\* The size classes stand for the 16 free lists; FreelistIndex is one of them.
Classes == {c \in 1 .. kMaxBytes : c % kAlign = 0}
FreelistIndex(n) == RoundUp(n)

Small(n) == n <= kMaxBytes

-----------------------------------------------------------------------------
(* AllocChunk and Refill.                                                  *)

\* What the end of AllocChunk cuts from a chunk [s, e) with room for one node.
NodeCount(size, s, e) == IF (e - s) \div size < kObjs THEN (e - s) \div size ELSE kObjs

\* Refill from [s, e): the first node is returned; the others, if there are any,
\* replace the list.
Refilled(lists, size, s, e) ==
    IF NodeCount(size, s, e) = 1 THEN lists
    ELSE [lists EXCEPT ![FreelistIndex(size)] =
             [i \in 1 .. NodeCount(size, s, e) - 1 |-> s + i * size]]

\* faulty Donated: the rest of the chunk is forgotten
Dropped == free_list_

\* The rest of the chunk, too small for one node, goes to the list of its size.
Donated ==
    IF end_free_ = start_free_ THEN free_list_
    ELSE [free_list_ EXCEPT ![FreelistIndex(end_free_ - start_free_)] = <<start_free_>> \o @]

HeapShare == RoundUp(heap_size_ \div HeapDivisor)

BytesToGet(size) == 2 * size * kObjs + HeapShare

\* The block the client c gets; in Reallocate it is the second one it holds.
Give(c, addr, n) ==
    IF block[c] = NoBlock
    THEN block' = [block EXCEPT ![c] = [addr |-> addr, n |-> n]] /\ UNCHANGED fresh
    ELSE fresh' = [fresh EXCEPT ![c] = [addr |-> addr, n |-> n]] /\ UNCHANGED block

-----------------------------------------------------------------------------
(* Allocate(n), one action per way through it.                             *)

\* n > kMaxBytes: malloc, which may fail.
AllocateLarge(c, n) ==
    /\ ~Small(n)
    /\ heap + RoundUp(n) <= HeapLimit
    /\ heap' = heap + RoundUp(n)
    /\ Give(c, heap, n)
    /\ UNCHANGED <<free_list_, chunk, status>>

\* The list has a node.
AllocateNode(c, n) ==
    /\ Small(n) /\ free_list_[FreelistIndex(n)] # <<>>
    /\ Give(c, Head(free_list_[FreelistIndex(n)]), n)
    /\ free_list_' = [free_list_ EXCEPT ![FreelistIndex(n)] = Tail(@)]
    /\ UNCHANGED <<chunk, heap, status>>

NeedsRefill(n) == Small(n) /\ free_list_[FreelistIndex(n)] = <<>>
ChunkTooSmall(n) == end_free_ - start_free_ < RoundUp(n)

\* The chunk has room for at least one node.
RefillFromChunk(c, n) ==
    LET size == RoundUp(n) IN
    /\ NeedsRefill(n) /\ ~ChunkTooSmall(n)
    /\ Give(c, start_free_, n)
    /\ free_list_' = Refilled(free_list_, size, start_free_, end_free_)
    /\ start_free_' = start_free_ + size * NodeCount(size, start_free_, end_free_)
    /\ UNCHANGED <<end_free_, heap_size_, heap, status>>

\* It has not: a new chunk comes from malloc, at the first or the second attempt.
RefillFromHeap(c, n) ==
    LET size == RoundUp(n)
        end  == heap + BytesToGet(size)
    IN
    /\ NeedsRefill(n) /\ ChunkTooSmall(n)
    /\ end <= HeapLimit
    /\ heap' = end
    /\ heap_size_' = heap_size_ + BytesToGet(size)
    /\ Give(c, heap, n)
    /\ free_list_' = Refilled(Donated, size, heap, end)
    /\ start_free_' = heap + size * NodeCount(size, heap, end)
    /\ end_free_' = end
    /\ UNCHANGED status

\* The classes from size up whose lists have a node, the old rest included.
Larger(size) == {k \in Classes : k >= size /\ Donated[k] # <<>>}

\* malloc fails: a node of the next larger class that has one is the new chunk.
RefillFromLarger(c, n) ==
    LET size == RoundUp(n) IN
    /\ NeedsRefill(n) /\ ChunkTooSmall(n)
    /\ \E k \in Larger(size) :
          LET p     == Head(Donated[k])
              lists == [Donated EXCEPT ![k] = Tail(@)]
          IN
          /\ \A j \in Larger(size) : k <= j
          /\ Give(c, p, n)
          /\ free_list_' = Refilled(lists, size, p, p + k)
          /\ start_free_' = p + size * NodeCount(size, p, p + k)
          /\ end_free_' = p + k
    /\ UNCHANGED <<heap_size_, heap, status>>

\* malloc fails twice and no list helps: the code goes on with a chunk at nullptr.
RefillFromNothing(c, n) ==
    /\ NeedsRefill(n) /\ ChunkTooSmall(n)
    /\ Larger(RoundUp(n)) = {}
    /\ status' = "undefined"
    /\ UNCHANGED <<free_list_, chunk, heap, block, fresh>>

AllocateStep(c, n) ==
    \/ AllocateLarge(c, n) \/ AllocateNode(c, n)
    \/ RefillFromChunk(c, n) \/ RefillFromHeap(c, n) \/ RefillFromLarger(c, n)
    \/ RefillFromNothing(c, n)

Allocate(c, n) ==
    /\ block[c] = NoBlock
    /\ AllocateStep(c, n)

-----------------------------------------------------------------------------
(* Deallocate and Reallocate.                                              *)

\* faulty ClassOf: the node goes to the list below its own
ClassBelow(n) == IF RoundUp(n) > kAlign THEN RoundUp(n) - kAlign ELSE kAlign

\* The list to which Deallocate(p, n) returns p.
ClassOf(n) == FreelistIndex(n)

\* The free lists after Deallocate(b.addr, b.n): large blocks go to free().
Returned(b) ==
    IF ~Small(b.n) THEN free_list_
    ELSE [free_list_ EXCEPT ![ClassOf(b.n)] = <<b.addr>> \o @]

Deallocate(c) ==
    /\ block[c] # NoBlock /\ fresh[c] = NoBlock
    /\ free_list_' = Returned(block[c])
    /\ block' = [block EXCEPT ![c] = NoBlock]
    /\ UNCHANGED <<chunk, heap, fresh, status>>

\* faulty SameClass: compares with the wrong side of the rounding
SameClassDown(m, n) == m \div kAlign = n \div kAlign

\* RoundUp(old_size) == RoundUp(new_size)
SameClass(m, n) == RoundUp(m) = RoundUp(n)

\* The block is kept: same class.
ReallocateInPlace(c, n) ==
    /\ block[c] # NoBlock /\ fresh[c] = NoBlock
    /\ Small(block[c].n) \/ Small(n)
    /\ SameClass(block[c].n, n)
    /\ block' = [block EXCEPT ![c].n = n]
    /\ UNCHANGED <<free_list_, chunk, heap, fresh, status>>

\* Both are large: realloc moves the block, or keeps it when it shrinks.
ReallocateLarge(c, n) ==
    /\ block[c] # NoBlock /\ fresh[c] = NoBlock
    /\ ~Small(block[c].n) /\ ~Small(n)
    /\ \/ /\ heap + RoundUp(n) <= HeapLimit
          /\ heap' = heap + RoundUp(n)
          /\ block' = [block EXCEPT ![c] = [addr |-> heap, n |-> n]]
       \/ /\ n <= block[c].n
          /\ block' = [block EXCEPT ![c].n = n]
          /\ UNCHANGED heap
    /\ UNCHANGED <<free_list_, chunk, fresh, status>>

\* Otherwise: Allocate(new_size) ...
Reallocate(c, n) ==
    /\ block[c] # NoBlock /\ fresh[c] = NoBlock
    /\ Small(block[c].n) \/ Small(n)
    /\ ~SameClass(block[c].n, n)
    /\ AllocateStep(c, n)

\* ... and, after the copy, Deallocate(p, old_size).
ReallocateReturns(c) ==
    /\ fresh[c] # NoBlock
    /\ free_list_' = Returned(block[c])
    /\ block' = [block EXCEPT ![c] = fresh[c]]
    /\ fresh' = [fresh EXCEPT ![c] = NoBlock]
    /\ UNCHANGED <<chunk, heap, status>>

-----------------------------------------------------------------------------
Init ==
    /\ free_list_ = [k \in Classes |-> <<>>]
    /\ start_free_ = 0 /\ end_free_ = 0 /\ heap_size_ = 0
    /\ heap = kAlign
    /\ block = [c \in Clients |-> NoBlock]
    /\ fresh = [c \in Clients |-> NoBlock]
    /\ status = "running"

ClientStep(c) ==
    \/ \E n \in Sizes : \/ Allocate(c, n) \/ Reallocate(c, n)
                        \/ ReallocateInPlace(c, n) \/ ReallocateLarge(c, n)
    \/ Deallocate(c) \/ ReallocateReturns(c)

Undefined == status = "undefined" /\ UNCHANGED vars

Next ==
    \/ status = "running" /\ \E c \in Clients : ClientStep(c)
    \/ Undefined

Spec == Init /\ [][Next]_vars

-----------------------------------------------------------------------------
(* What the pool promises.                                                 *)

Addresses == {a \in Nat : a % kAlign = 0}
Nodes     == Addresses \ {0}
Blocks    == [addr : Nodes, n : Nat \ {0}]

\* The values the variables may take.  The chunk is made of whole units of
\* kAlign, so that its rest can be donated to the list of exactly its size, and
\* what is handed out is aligned.
TypeOK ==
    /\ free_list_ \in [Classes -> Seq(Nodes)]
    /\ start_free_ \in Addresses /\ end_free_ \in Addresses /\ start_free_ <= end_free_
    /\ heap_size_ \in Nat /\ heap \in Nodes
    /\ block \in [Clients -> Blocks \cup {NoBlock}]
    /\ fresh \in [Clients -> Blocks \cup {NoBlock}]
    /\ status \in {"running", "undefined"}

FreeNodes == UNION {{k} \X DOMAIN free_list_[k] : k \in Classes}

\* What was taken from the pool or is still in it, as intervals: the rest of the
\* chunk, the nodes of the lists with the size of their class, the clients' blocks
\* with the size they asked for, rounded up.
Regions ==
    {[at |-> <<"chunk">>, from |-> start_free_, len |-> end_free_ - start_free_]}
    \cup {[at |-> <<"free", ki>>, from |-> free_list_[ki[1]][ki[2]], len |-> ki[1]] : ki \in FreeNodes}
    \cup {[at |-> <<"block", c>>, from |-> block[c].addr, len |-> RoundUp(block[c].n)]
             : c \in {c \in Clients : block[c] # NoBlock}}
    \cup {[at |-> <<"fresh", c>>, from |-> fresh[c].addr, len |-> RoundUp(fresh[c].n)]
             : c \in {c \in Clients : fresh[c] # NoBlock}}

\* No byte is in two places: a block that was handed out overlaps no other block,
\* no node that Allocate may hand out next and no part of the chunk; and all of it
\* is memory that malloc has returned.
Disjoint ==
    \A r \in Regions :
        /\ r.len > 0 => r.from >= kAlign /\ r.from + r.len <= heap
        /\ \A q \in Regions :
              q # r => r.from + r.len <= q.from \/ q.from + q.len <= r.from \/ r.len * q.len = 0

\* The bytes of the chunk, the lists and the small blocks of the clients.
PoolBytes ==
    UNION {r.from .. r.from + r.len - 1 : r \in {q \in Regions : q.at = <<"chunk">> \/ q.len <= kMaxBytes}}

\* Nothing is lost: these are as many bytes as AllocChunk ever obtained from malloc,
\* through refills from malloc or from larger nodes, donated rests and
\* reallocations.  Since no byte is in two places (Disjoint), the sizes add up too.
Conservation == Cardinality(PoolBytes) = heap_size_
=============================================================================
