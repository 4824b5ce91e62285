------------------------------- MODULE Buffer -------------------------------
(***************************************************************************)
(* mymuduo/buffer.{h,cpp}: a vector of bytes with two positions.  Cells     *)
(* before the reader have been consumed, those up to the writer are the     *)
(* content, those behind it are free.  Positions are those of the code,     *)
(* from 0; cell i of the code is buffer_[i + 1].                            *)
(***************************************************************************)
EXTENDS Integers, Sequences

CONSTANTS
    Bytes, Zero,      \* the values of a byte; resize() fills with Zero
    kCheapPrepend, kInitialSize,
    ExtraSize,        \* sizeof(extra_buf)
    Chunks,           \* the byte strings that callers append or peers send
    MaxContent        \* bounds the content

ASSUME BufferAssumption ==
    /\ kCheapPrepend \in Nat /\ kInitialSize \in Nat /\ ExtraSize \in Nat
    /\ MaxContent \in Nat
    /\ Zero \in Bytes /\ Chunks \subseteq Seq(Bytes)

VARIABLES
    buf,     \* the members of the Buffer
    data,    \* the bytes that the last call passed in or out
    peak     \* history: the largest content so far

vars == <<buf, data, peak>>

Buffers == [buffer_ : Seq(Bytes), reader_index_ : Nat, writer_index_ : Nat]

ReadableBytes(b) == b.writer_index_ - b.reader_index_
WritableBytes(b) == Len(b.buffer_) - b.writer_index_
PrependableBytes(b) == b.reader_index_

\* the n bytes from Peek() on
Peek(b, n) == SubSeq(b.buffer_, b.reader_index_ + 1, b.reader_index_ + n)
Content(b) == Peek(b, ReadableBytes(b))

\* the cells after s was copied behind the first p of them
Copied(cells, p, s) ==
    [i \in 1..Len(cells) |-> IF i \in (p + 1)..(p + Len(s)) THEN s[i - p] ELSE cells[i]]

RetrieveAll(b) ==
    [buffer_ |-> b.buffer_, reader_index_ |-> kCheapPrepend, writer_index_ |-> kCheapPrepend]

Retrieve(b, n) ==
    IF n < ReadableBytes(b) THEN [b EXCEPT !.reader_index_ = @ + n] ELSE RetrieveAll(b)

\* the content moves to the front
Moved(b) ==
    [buffer_ |-> Copied(b.buffer_, kCheapPrepend, Content(b)),
     reader_index_ |-> kCheapPrepend,
     writer_index_ |-> kCheapPrepend + ReadableBytes(b)]

\* buffer_.resize(writer_index_ + n)
Resized(b, n) ==
    [b EXCEPT !.buffer_ = [i \in 1..(b.writer_index_ + n) |->
                              IF i <= Len(b.buffer_) THEN b.buffer_[i] ELSE Zero]]

\* faulty MakeSpace: the vector always grows
AlwaysGrow(b, n) == Resized(b, n)

\* faulty MakeSpace: the reserved cells are counted as free
CountsPrepend(b, n) ==
    IF PrependableBytes(b) + WritableBytes(b) >= n THEN Moved(b) ELSE Resized(b, n)

MakeSpace(b, n) ==
    IF PrependableBytes(b) - kCheapPrepend + WritableBytes(b) >= n THEN Moved(b)
                                                                   ELSE Resized(b, n)

EnsureWritableBytes(b, n) == IF WritableBytes(b) < n THEN MakeSpace(b, n) ELSE b

\* bytes that are copied or read to BeginWrite()
Written(b, s) ==
    [buffer_ |-> Copied(b.buffer_, b.writer_index_, s),
     reader_index_ |-> b.reader_index_, writer_index_ |-> b.writer_index_ + Len(s)]

\* Buffer::Append
Appended(b, s) == Written(EnsureWritableBytes(b, Len(s)), s)

\* what one readv can deliver
MaxRead(b) ==
    WritableBytes(b) + (IF WritableBytes(b) < ExtraSize THEN ExtraSize ELSE 0)

\* faulty AfterReadFd: the writer is not moved to the end before the rest is appended
LosesFirstPart(b, s) ==
    IF Len(s) <= WritableBytes(b) THEN Written(b, s)
    ELSE Appended(b, SubSeq(s, WritableBytes(b) + 1, Len(s)))

\* s was read: into the free cells, and what did not fit through extra_buf
AfterReadFd(b, s) ==
    IF Len(s) <= WritableBytes(b) THEN Written(b, s)
    ELSE Appended(Written(b, SubSeq(s, 1, WritableBytes(b))),
                  SubSeq(s, WritableBytes(b) + 1, Len(s)))

-----------------------------------------------------------------------------
Init ==
    /\ buf = [buffer_ |-> [i \in 1..(kCheapPrepend + kInitialSize) |-> Zero],
              reader_index_ |-> kCheapPrepend, writer_index_ |-> kCheapPrepend]
    /\ data = <<>>
    /\ peak = 0

\* bookkeeping of an action that puts s into the buffer
Puts(s) ==
    /\ ReadableBytes(buf) + Len(s) <= MaxContent
    /\ data' = s
    /\ peak' = IF ReadableBytes(buf) + Len(s) > peak THEN ReadableBytes(buf) + Len(s) ELSE peak

Append_(s) == Puts(s) /\ buf' = Appended(buf, s)

\* A failed readv changes nothing.
ReadFd(s) == Len(s) <= MaxRead(buf) /\ Puts(s) /\ buf' = AfterReadFd(buf, s)

\* write() takes some of the bytes; the caller then retrieves them.
WriteFd(n) ==
    /\ n <= ReadableBytes(buf)
    /\ data' = Peek(buf, n)
    /\ UNCHANGED <<buf, peak>>

RetrieveBytes(n) == buf' = Retrieve(buf, n) /\ UNCHANGED <<data, peak>>

\* RetrieveAsString(len): callers ask for at most ReadableBytes().
RetrieveAsString(n) ==
    /\ n <= ReadableBytes(buf)
    /\ data' = Peek(buf, n)
    /\ buf' = Retrieve(buf, n)
    /\ UNCHANGED peak

Next ==
    \/ \E s \in Chunks : Append_(s) \/ ReadFd(s)
    \/ \E n \in 0..(MaxContent + 1) : WriteFd(n) \/ RetrieveBytes(n) \/ RetrieveAsString(n)

Spec == Init /\ [][Next]_vars

-----------------------------------------------------------------------------
(* What the buffer promises.                                               *)

\* The picture at the head of buffer.h: the positions are ordered, and the reader
\* never enters the reserved cells, so that no size_t subtraction wraps.
IndicesOrdered ==
    /\ buf \in Buffers /\ data \in Seq(Bytes) /\ peak \in Nat
    /\ kCheapPrepend <= buf.reader_index_
    /\ buf.reader_index_ <= buf.writer_index_
    /\ buf.writer_index_ <= Len(buf.buffer_)

\* MakeSpace moves before it grows: however many bytes pass through the buffer,
\* it takes no more than twice the largest content (or its initial size).
CapacityBounded ==
    /\ ReadableBytes(buf) <= peak
    /\ \/ Len(buf.buffer_) <= kCheapPrepend + kInitialSize
       \/ Len(buf.buffer_) <= kCheapPrepend + 2 * peak

\* Moving, growing and the detour through extra_buf are invisible: the buffer is a
\* queue of bytes.
Queue == INSTANCE ByteQueue WITH content <- Content(buf), data <- data

ImplementsByteQueue == Queue!Spec
=============================================================================
