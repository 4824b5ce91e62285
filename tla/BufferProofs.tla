---------------------------- MODULE BufferProofs ----------------------------
(***************************************************************************)
(* The buffer keeps its positions in order, stays small and is a queue of   *)
(* bytes, for all sizes and contents.  The lemmas treat the operators one   *)
(* by one: what each does to the content, the order of the positions and    *)
(* the size.                                                                *)
(***************************************************************************)
EXTENDS Buffer, SequenceTheorems, TLAPS

\* A buffer whose positions are in order.
Ordered(b) ==
    /\ b \in Buffers
    /\ kCheapPrepend <= b.reader_index_
    /\ b.reader_index_ <= b.writer_index_
    /\ b.writer_index_ <= Len(b.buffer_)

-----------------------------------------------------------------------------
(* Sequences and contents.                                                 *)

\* A function on 1..n is a sequence of length n.
LEMMA FcnIsSeq ==
    ASSUME NEW S, NEW n \in Nat, NEW f \in [1..n -> S]
    PROVE  f \in Seq(S) /\ Len(f) = n
  BY SeqDef

\* The bytes from Peek() on, one by one.
LEMMA PeekIs ==
    ASSUME NEW b, Ordered(b), NEW n \in 0..ReadableBytes(b)
    PROVE  /\ Peek(b, n) \in Seq(Bytes) /\ Len(Peek(b, n)) = n
           /\ \A i \in 1..n : Peek(b, n)[i] = b.buffer_[b.reader_index_ + i]
<1>1. /\ b.buffer_ \in Seq(Bytes) /\ b.reader_index_ \in Nat /\ b.writer_index_ \in Nat
      /\ Len(b.buffer_) \in Nat /\ ReadableBytes(b) \in Nat /\ n \in Nat
      /\ n <= b.writer_index_ - b.reader_index_ /\ b.writer_index_ <= Len(b.buffer_)
  BY DEF Ordered, Buffers, ReadableBytes
<1> DEFINE p == b.reader_index_ + 1
           q == b.reader_index_ + n
<1>2. \A i \in p..q : b.buffer_[i] \in Bytes
  BY <1>1, ElementOfSeq
<1>3. p \in Int /\ q \in Int
  BY <1>1
<1> HIDE DEF p, q
<1>4. /\ SubSeq(b.buffer_, p, q) \in Seq(Bytes)
      /\ Len(SubSeq(b.buffer_, p, q)) = IF p <= q THEN q - p + 1 ELSE 0
      /\ \A i \in 1..(q - p + 1) : SubSeq(b.buffer_, p, q)[i] = b.buffer_[p + i - 1]
  BY <1>2, <1>3, SubSeqProperties
<1>5. Peek(b, n) = SubSeq(b.buffer_, p, q)
  BY DEF Peek, p, q
<1>6. q - p + 1 = n /\ \A i \in 1..n : p + i - 1 = b.reader_index_ + i
  BY <1>1 DEF p, q
<1>7. Len(Peek(b, n)) = n
  <2>1. n = IF p <= q THEN q - p + 1 ELSE 0
    BY <1>1 DEF p, q
  <2> QED
    BY <1>4, <1>5, <2>1
<1>8. \A i \in 1..n : Peek(b, n)[i] = b.buffer_[b.reader_index_ + i]
  BY <1>4, <1>5, <1>6
<1> QED
  BY <1>4, <1>5, <1>7, <1>8

\* The content, byte by byte.
LEMMA ContentIs ==
    ASSUME NEW b, Ordered(b)
    PROVE  /\ ReadableBytes(b) \in Nat /\ WritableBytes(b) \in Nat
           /\ Content(b) \in Seq(Bytes) /\ Len(Content(b)) = ReadableBytes(b)
           /\ \A i \in 1..ReadableBytes(b) : Content(b)[i] = b.buffer_[b.reader_index_ + i]
<1>1. ReadableBytes(b) \in Nat /\ WritableBytes(b) \in Nat
  BY DEF Ordered, Buffers, ReadableBytes, WritableBytes
<1> QED
  BY <1>1, PeekIs DEF Content

\* Copying inside the cells.
LEMMA CopiedIs ==
    ASSUME NEW cells \in Seq(Bytes), NEW p \in Nat, NEW s \in Seq(Bytes), p + Len(s) <= Len(cells)
    PROVE  /\ Copied(cells, p, s) \in Seq(Bytes) /\ Len(Copied(cells, p, s)) = Len(cells)
           /\ \A i \in 1..p : Copied(cells, p, s)[i] = cells[i]
           /\ \A i \in 1..Len(s) : Copied(cells, p, s)[p + i] = s[i]
<1>1. Len(cells) \in Nat /\ Len(s) \in Nat
  BY LenProperties
<1>2. \A i \in 1..Len(cells) : i \in (p + 1)..(p + Len(s)) => s[i - p] \in Bytes
  BY <1>1, ElementOfSeq
<1>3. \A i \in 1..Len(cells) : cells[i] \in Bytes
  BY ElementOfSeq
<1>4. Copied(cells, p, s) \in [1..Len(cells) -> Bytes]
  BY <1>2, <1>3 DEF Copied
<1>5. Copied(cells, p, s) \in Seq(Bytes) /\ Len(Copied(cells, p, s)) = Len(cells)
  BY <1>1, <1>4, FcnIsSeq
<1>6. ASSUME NEW i \in 1..p
      PROVE  Copied(cells, p, s)[i] = cells[i]
  BY <1>1 DEF Copied
<1>7. ASSUME NEW i \in 1..Len(s)
      PROVE  Copied(cells, p, s)[p + i] = s[i]
  <2>1. /\ p + i \in 1..Len(cells) /\ p + i \in (p + 1)..(p + Len(s))
        /\ (p + i) - p = i
    BY <1>1
  <2> QED
    BY <2>1 DEF Copied
<1> QED
  BY <1>5, <1>6, <1>7

-----------------------------------------------------------------------------
(* The operators.                                                          *)

\* Writing into the free cells appends to the content and keeps the size.
LEMMA WrittenIs ==
    ASSUME NEW b, Ordered(b), NEW s \in Seq(Bytes), Len(s) <= WritableBytes(b)
    PROVE  /\ Ordered(Written(b, s))
           /\ Content(Written(b, s)) = Content(b) \o s
           /\ Len(Written(b, s).buffer_) = Len(b.buffer_)
           /\ ReadableBytes(Written(b, s)) = ReadableBytes(b) + Len(s)
           /\ WritableBytes(Written(b, s)) = WritableBytes(b) - Len(s)
<1> DEFINE w == Written(b, s)
<1>1. /\ b.buffer_ \in Seq(Bytes) /\ b.reader_index_ \in Nat /\ b.writer_index_ \in Nat
      /\ Len(b.buffer_) \in Nat /\ Len(s) \in Nat
      /\ kCheapPrepend <= b.reader_index_ /\ b.reader_index_ <= b.writer_index_
      /\ b.writer_index_ + Len(s) <= Len(b.buffer_)
  BY LenProperties DEF Ordered, Buffers, WritableBytes
<1>2. /\ w.buffer_ \in Seq(Bytes) /\ Len(w.buffer_) = Len(b.buffer_)
      /\ \A i \in 1..b.writer_index_ : w.buffer_[i] = b.buffer_[i]
      /\ \A i \in 1..Len(s) : w.buffer_[b.writer_index_ + i] = s[i]
  BY <1>1, CopiedIs DEF Written
<1>3. w.reader_index_ = b.reader_index_ /\ w.writer_index_ = b.writer_index_ + Len(s)
  BY DEF Written
<1>4. w \in Buffers
  BY <1>1, <1>2 DEF Written, Buffers
<1> HIDE DEF w
<1>5. Ordered(w)
  BY <1>1, <1>2, <1>3, <1>4, BufferAssumption DEF Ordered
<1>6. /\ ReadableBytes(w) = ReadableBytes(b) + Len(s)
      /\ WritableBytes(w) = WritableBytes(b) - Len(s)
  BY <1>1, <1>2, <1>3 DEF ReadableBytes, WritableBytes
<1>7. Content(w) = Content(b) \o s
  <2>1. /\ Content(b) \in Seq(Bytes) /\ Len(Content(b)) = ReadableBytes(b)
        /\ ReadableBytes(b) \in Nat
        /\ \A i \in 1..ReadableBytes(b) : Content(b)[i] = b.buffer_[b.reader_index_ + i]
    BY ContentIs
  <2>2. /\ Content(w) \in Seq(Bytes) /\ Len(Content(w)) = ReadableBytes(w)
        /\ \A i \in 1..ReadableBytes(w) : Content(w)[i] = w.buffer_[w.reader_index_ + i]
    BY <1>5, ContentIs
  <2> DEFINE r == ReadableBytes(b)
             c == Content(b)
  <2>3. /\ c \o s \in Seq(Bytes) /\ Len(c \o s) = r + Len(s)
        /\ \A i \in 1..(r + Len(s)) : (c \o s)[i] = IF i <= r THEN c[i] ELSE s[i - r]
    <3> HIDE DEF r, c
    <3>1. c \in Seq(Bytes) /\ Len(c) = r
      BY <2>1 DEF r, c
    <3> QED
      BY <3>1, ConcatProperties
  <2>4. ASSUME NEW i \in 1..(r + Len(s))
        PROVE  Content(w)[i] = (c \o s)[i]
    <3>1. r \in Nat /\ b.writer_index_ = b.reader_index_ + r /\ i \in 1..ReadableBytes(w)
      BY <1>1, <1>6, <2>1 DEF ReadableBytes
    <3>2. Content(w)[i] = w.buffer_[b.reader_index_ + i]
      BY <1>3, <2>2, <3>1
    <3> HIDE DEF r, c
    <3>3. CASE i <= r
      <4>1. b.reader_index_ + i \in 1..b.writer_index_
        BY <1>1, <3>1, <3>3
      <4>2. w.buffer_[b.reader_index_ + i] = b.buffer_[b.reader_index_ + i]
        BY <1>2, <4>1
      <4>3. i \in 1..r
        BY <3>1, <3>3
      <4> QED
        BY <2>1, <2>3, <3>2, <3>3, <4>2, <4>3 DEF r, c
    <3>4. CASE i > r
      <4>1. i - r \in 1..Len(s) /\ b.reader_index_ + i = b.writer_index_ + (i - r)
        BY <1>1, <3>1, <3>4
      <4>2. w.buffer_[b.reader_index_ + i] = s[i - r]
        BY <1>2, <4>1
      <4>3. (c \o s)[i] = s[i - r]
        BY <2>3, <3>1, <3>4
      <4> QED
        BY <3>2, <4>2, <4>3
    <3>5. i <= r \/ i > r
      BY <1>1, <3>1
    <3> QED
      BY <3>3, <3>4, <3>5
  <2> QED
    BY <1>6, <2>2, <2>3, <2>4, SeqEqual
<1> QED
  BY <1>2, <1>5, <1>6, <1>7 DEF w

\* Moving the content to the front does not change it, nor the size.
LEMMA MovedIs ==
    ASSUME NEW b, Ordered(b)
    PROVE  /\ Ordered(Moved(b)) /\ Content(Moved(b)) = Content(b)
           /\ Len(Moved(b).buffer_) = Len(b.buffer_)
           /\ WritableBytes(Moved(b)) = PrependableBytes(b) - kCheapPrepend + WritableBytes(b)
<1> DEFINE w == Moved(b)
<1>1. /\ b.buffer_ \in Seq(Bytes) /\ b.reader_index_ \in Nat /\ b.writer_index_ \in Nat
      /\ Len(b.buffer_) \in Nat /\ kCheapPrepend \in Nat
      /\ kCheapPrepend <= b.reader_index_ /\ b.reader_index_ <= b.writer_index_
      /\ b.writer_index_ <= Len(b.buffer_)
      /\ ReadableBytes(b) = b.writer_index_ - b.reader_index_
  BY LenProperties, BufferAssumption DEF Ordered, Buffers, ReadableBytes
<1>2. /\ Content(b) \in Seq(Bytes) /\ Len(Content(b)) = ReadableBytes(b)
      /\ \A i \in 1..ReadableBytes(b) : Content(b)[i] = b.buffer_[b.reader_index_ + i]
  BY ContentIs
<1>3. /\ w.buffer_ \in Seq(Bytes) /\ Len(w.buffer_) = Len(b.buffer_)
      /\ \A i \in 1..ReadableBytes(b) : w.buffer_[kCheapPrepend + i] = Content(b)[i]
  <2>1. kCheapPrepend + Len(Content(b)) <= Len(b.buffer_)
    BY <1>1, <1>2
  <2>2. w.buffer_ = Copied(b.buffer_, kCheapPrepend, Content(b))
    BY DEF Moved
  <2> HIDE DEF w
  <2> QED
    BY <1>1, <1>2, <2>1, <2>2, CopiedIs
<1>4. w.reader_index_ = kCheapPrepend /\ w.writer_index_ = kCheapPrepend + ReadableBytes(b)
  BY DEF Moved
<1>5. w \in Buffers
  BY <1>1, <1>3 DEF Moved, Buffers
<1> HIDE DEF w
<1>6. Ordered(w)
  BY <1>1, <1>3, <1>4, <1>5 DEF Ordered
<1>7. /\ ReadableBytes(w) = ReadableBytes(b)
      /\ WritableBytes(w) = PrependableBytes(b) - kCheapPrepend + WritableBytes(b)
  BY <1>1, <1>3, <1>4 DEF ReadableBytes, WritableBytes, PrependableBytes
<1>8. /\ Content(w) \in Seq(Bytes) /\ Len(Content(w)) = ReadableBytes(w)
      /\ \A i \in 1..ReadableBytes(w) : Content(w)[i] = w.buffer_[w.reader_index_ + i]
  BY <1>6, ContentIs
<1>9. ASSUME NEW i \in 1..ReadableBytes(b)
      PROVE  Content(w)[i] = Content(b)[i]
  <2>1. Content(w)[i] = w.buffer_[kCheapPrepend + i]
    BY <1>4, <1>7, <1>8, <1>9
  <2> QED
    BY <1>3, <1>9, <2>1
<1>10. Content(w) = Content(b)
  BY <1>2, <1>7, <1>8, <1>9, SeqEqual
<1> QED
  BY <1>3, <1>6, <1>7, <1>10 DEF w

\* Growing keeps the content and makes exactly the room that was asked for.
LEMMA ResizedIs ==
    ASSUME NEW b, Ordered(b), NEW n \in Nat, WritableBytes(b) <= n
    PROVE  /\ Ordered(Resized(b, n)) /\ Content(Resized(b, n)) = Content(b)
           /\ Len(Resized(b, n).buffer_) = b.writer_index_ + n
           /\ WritableBytes(Resized(b, n)) = n
<1> DEFINE w == Resized(b, n)
<1>1. /\ b.buffer_ \in Seq(Bytes) /\ b.reader_index_ \in Nat /\ b.writer_index_ \in Nat
      /\ Len(b.buffer_) \in Nat /\ kCheapPrepend \in Nat /\ Zero \in Bytes
      /\ kCheapPrepend <= b.reader_index_ /\ b.reader_index_ <= b.writer_index_
      /\ b.writer_index_ <= Len(b.buffer_) /\ Len(b.buffer_) <= b.writer_index_ + n
      /\ ReadableBytes(b) = b.writer_index_ - b.reader_index_
  BY LenProperties, BufferAssumption DEF Ordered, Buffers, ReadableBytes, WritableBytes
<1>2. /\ w.buffer_ = [i \in 1..(b.writer_index_ + n) |->
                          IF i <= Len(b.buffer_) THEN b.buffer_[i] ELSE Zero]
      /\ w.reader_index_ = b.reader_index_ /\ w.writer_index_ = b.writer_index_
  BY DEF Resized, Ordered, Buffers
<1>3. w.buffer_ \in [1..(b.writer_index_ + n) -> Bytes]
  BY <1>1, <1>2, ElementOfSeq
<1>4. w.buffer_ \in Seq(Bytes) /\ Len(w.buffer_) = b.writer_index_ + n
  <2>1. b.writer_index_ + n \in Nat
    BY <1>1
  <2> HIDE DEF w
  <2> QED
    BY <1>3, <2>1, FcnIsSeq
<1>5. w \in Buffers
  BY <1>1, <1>2, <1>4 DEF Resized, Ordered, Buffers
<1> HIDE DEF w
<1>6. Ordered(w)
  BY <1>1, <1>2, <1>4, <1>5 DEF Ordered
<1>7. ReadableBytes(w) = ReadableBytes(b) /\ WritableBytes(w) = n
  BY <1>1, <1>2, <1>4 DEF ReadableBytes, WritableBytes
<1>8. /\ Content(b) \in Seq(Bytes) /\ Len(Content(b)) = ReadableBytes(b)
      /\ \A i \in 1..ReadableBytes(b) : Content(b)[i] = b.buffer_[b.reader_index_ + i]
  BY ContentIs
<1>9. /\ Content(w) \in Seq(Bytes) /\ Len(Content(w)) = ReadableBytes(w)
      /\ \A i \in 1..ReadableBytes(w) : Content(w)[i] = w.buffer_[w.reader_index_ + i]
  BY <1>6, ContentIs
<1>10. \A i \in 1..ReadableBytes(b) : w.buffer_[b.reader_index_ + i] = b.buffer_[b.reader_index_ + i]
  BY <1>1, <1>2
<1>11. Content(w) = Content(b)
  BY <1>2, <1>7, <1>8, <1>9, <1>10, SeqEqual
<1> QED
  BY <1>4, <1>6, <1>7, <1>11 DEF w

\* EnsureWritableBytes makes room and changes nothing else; if it grows, the size is
\* bounded by what is asked for and what is inside.
LEMMA EnsureIs ==
    ASSUME NEW b, Ordered(b), NEW n \in Nat
    PROVE  /\ Ordered(EnsureWritableBytes(b, n))
           /\ Content(EnsureWritableBytes(b, n)) = Content(b)
           /\ ReadableBytes(EnsureWritableBytes(b, n)) = ReadableBytes(b)
           /\ n <= WritableBytes(EnsureWritableBytes(b, n))
           /\ \/ Len(EnsureWritableBytes(b, n).buffer_) = Len(b.buffer_)
              \/ Len(EnsureWritableBytes(b, n).buffer_) <= kCheapPrepend + ReadableBytes(b) + 2 * n
<1>1. /\ b.reader_index_ \in Nat /\ b.writer_index_ \in Nat /\ Len(b.buffer_) \in Nat
      /\ kCheapPrepend \in Nat
      /\ ReadableBytes(b) = b.writer_index_ - b.reader_index_
      /\ WritableBytes(b) = Len(b.buffer_) - b.writer_index_ /\ WritableBytes(b) \in Nat
      /\ PrependableBytes(b) = b.reader_index_
  BY LenProperties, BufferAssumption DEF Ordered, Buffers, ReadableBytes, WritableBytes, PrependableBytes
<1> DEFINE e == EnsureWritableBytes(b, n)
<1>2. CASE n <= WritableBytes(b)
  <2>1. e = b
    BY <1>1, <1>2 DEF EnsureWritableBytes
  <2> QED
    BY <1>2, <2>1
<1>3. CASE WritableBytes(b) < n /\ PrependableBytes(b) - kCheapPrepend + WritableBytes(b) >= n
  <2>1. e = Moved(b)
    BY <1>3 DEF EnsureWritableBytes, MakeSpace
  <2>2. Ordered(e) /\ Content(e) = Content(b) /\ Len(e.buffer_) = Len(b.buffer_)
        /\ WritableBytes(e) = PrependableBytes(b) - kCheapPrepend + WritableBytes(b)
    BY <2>1, MovedIs
  <2>3. ReadableBytes(e) = ReadableBytes(b)
    BY <2>2, ContentIs
  <2> QED
    BY <1>3, <2>2, <2>3
<1>4. CASE WritableBytes(b) < n /\ ~(PrependableBytes(b) - kCheapPrepend + WritableBytes(b) >= n)
  <2>1. e = Resized(b, n)
    BY <1>4 DEF EnsureWritableBytes, MakeSpace
  <2>2. Ordered(e) /\ Content(e) = Content(b) /\ Len(e.buffer_) = b.writer_index_ + n
        /\ WritableBytes(e) = n
    BY <1>1, <1>4, <2>1, ResizedIs
  <2>3. ReadableBytes(e) = ReadableBytes(b)
    BY <2>2, ContentIs
  <2>4. b.writer_index_ + n <= kCheapPrepend + ReadableBytes(b) + 2 * n
    BY <1>1, <1>4
  <2> QED
    BY <2>2, <2>3, <2>4
<1> QED
  BY <1>1, <1>2, <1>3, <1>4

\* Append puts the bytes behind the content; if it grows, the size is bounded by the
\* content before and after.
LEMMA AppendedIs ==
    ASSUME NEW b, Ordered(b), NEW s \in Seq(Bytes)
    PROVE  /\ Ordered(Appended(b, s))
           /\ Content(Appended(b, s)) = Content(b) \o s
           /\ ReadableBytes(Appended(b, s)) = ReadableBytes(b) + Len(s)
           /\ \/ Len(Appended(b, s).buffer_) = Len(b.buffer_)
              \/ Len(Appended(b, s).buffer_) <= kCheapPrepend + ReadableBytes(b) + 2 * Len(s)
<1> DEFINE e == EnsureWritableBytes(b, Len(s))
<1>1. Len(s) \in Nat
  BY LenProperties
<1>2. /\ Ordered(e) /\ Content(e) = Content(b) /\ ReadableBytes(e) = ReadableBytes(b)
      /\ Len(s) <= WritableBytes(e)
      /\ \/ Len(e.buffer_) = Len(b.buffer_)
         \/ Len(e.buffer_) <= kCheapPrepend + ReadableBytes(b) + 2 * Len(s)
  BY <1>1, EnsureIs
<1>3. Appended(b, s) = Written(e, s)
  BY DEF Appended
<1> HIDE DEF e
<1>4. /\ Ordered(Written(e, s)) /\ Content(Written(e, s)) = Content(e) \o s
      /\ Len(Written(e, s).buffer_) = Len(e.buffer_)
      /\ ReadableBytes(Written(e, s)) = ReadableBytes(e) + Len(s)
  BY <1>2, WrittenIs
<1> QED
  BY <1>2, <1>3, <1>4

\* A sequence cut in two.
LEMMA CutInTwo ==
    ASSUME NEW s \in Seq(Bytes), NEW k \in 0..Len(s)
    PROVE  /\ SubSeq(s, 1, k) \in Seq(Bytes) /\ Len(SubSeq(s, 1, k)) = k
           /\ SubSeq(s, k + 1, Len(s)) \in Seq(Bytes)
           /\ Len(SubSeq(s, k + 1, Len(s))) = Len(s) - k
           /\ \A i \in 1..(Len(s) - k) : SubSeq(s, k + 1, Len(s))[i] = s[k + i]
           /\ SubSeq(s, 1, k) \o SubSeq(s, k + 1, Len(s)) = s
<1> DEFINE n == Len(s)
           p == SubSeq(s, 1, k)
           q == SubSeq(s, k + 1, n)
<1>1. n \in Nat /\ k \in Nat /\ k <= n
  BY LenProperties
<1>2. \A i \in 1..n : s[i] \in Bytes
  BY ElementOfSeq
<1> HIDE DEF n
<1>3. p \in Seq(Bytes) /\ Len(p) = k /\ \A i \in 1..k : p[i] = s[i]
  <2>1. \A i \in 1..k : s[i] \in Bytes
    BY <1>1, <1>2
  <2>2. /\ p \in Seq(Bytes) /\ Len(p) = IF 1 <= k THEN k - 1 + 1 ELSE 0
        /\ \A i \in 1..(k - 1 + 1) : p[i] = s[1 + i - 1]
    BY <1>1, <2>1, SubSeqProperties
  <2> HIDE DEF p
  <2> QED
    BY <1>1, <2>2
<1>4. q \in Seq(Bytes) /\ Len(q) = n - k /\ \A i \in 1..(n - k) : q[i] = s[k + i]
  <2> DEFINE a == k + 1
  <2>1. a \in Int /\ \A i \in a..n : s[i] \in Bytes
    BY <1>1, <1>2
  <2>2. n - a + 1 = n - k /\ \A i \in 1..(n - k) : a + i - 1 = k + i
    BY <1>1
  <2>3. n - k = IF a <= n THEN n - a + 1 ELSE 0
    BY <1>1
  <2> HIDE DEF a
  <2>4. /\ SubSeq(s, a, n) \in Seq(Bytes)
        /\ Len(SubSeq(s, a, n)) = IF a <= n THEN n - a + 1 ELSE 0
        /\ \A i \in 1..(n - a + 1) : SubSeq(s, a, n)[i] = s[a + i - 1]
    BY <1>1, <2>1, SubSeqProperties
  <2>5. q = SubSeq(s, a, n)
    BY DEF a
  <2> HIDE DEF q
  <2> QED
    BY <2>2, <2>3, <2>4, <2>5
<1> HIDE DEF p, q
<1>5. p \o q = s
  <2>1. /\ p \o q \in Seq(Bytes) /\ Len(p \o q) = Len(p) + Len(q)
        /\ \A i \in 1..(Len(p) + Len(q)) :
               (p \o q)[i] = IF i <= Len(p) THEN p[i] ELSE q[i - Len(p)]
    BY <1>3, <1>4, ConcatProperties
  <2>2. Len(p \o q) = n
    BY <1>1, <1>3, <1>4, <2>1
  <2>3. ASSUME NEW i \in 1..n
        PROVE  (p \o q)[i] = s[i]
    <3>1. (p \o q)[i] = IF i <= k THEN p[i] ELSE q[i - k]
      BY <1>1, <1>3, <1>4, <2>1
    <3>2. CASE i <= k
      <4>1. i \in 1..k
        BY <1>1, <3>2
      <4> QED
        BY <1>3, <3>1, <3>2, <4>1
    <3>3. CASE ~(i <= k)
      <4>1. i - k \in 1..(n - k) /\ k + (i - k) = i
        BY <1>1, <3>3
      <4> QED
        BY <1>4, <3>1, <3>3, <4>1
    <3> QED
      BY <3>2, <3>3
  <2> QED
    BY <2>1, <2>2, <2>3, SeqEqual DEF n
<1> QED
  BY <1>1, <1>3, <1>4, <1>5 DEF n, p, q

\* ReadFd puts the bytes behind the content, also the ones that took the detour.
LEMMA AfterReadFdIs ==
    ASSUME NEW b, Ordered(b), NEW s \in Seq(Bytes)
    PROVE  /\ Ordered(AfterReadFd(b, s))
           /\ Content(AfterReadFd(b, s)) = Content(b) \o s
           /\ ReadableBytes(AfterReadFd(b, s)) = ReadableBytes(b) + Len(s)
           /\ \/ Len(AfterReadFd(b, s).buffer_) = Len(b.buffer_)
              \/ Len(AfterReadFd(b, s).buffer_) <= kCheapPrepend + 2 * (ReadableBytes(b) + Len(s))
<1>1. Len(s) \in Nat /\ ReadableBytes(b) \in Nat /\ WritableBytes(b) \in Nat
      /\ Content(b) \in Seq(Bytes) /\ kCheapPrepend \in Nat
  BY LenProperties, ContentIs, BufferAssumption
<1>2. CASE Len(s) <= WritableBytes(b)
  <2>1. AfterReadFd(b, s) = Written(b, s)
    BY <1>2 DEF AfterReadFd
  <2> QED
    BY <1>2, <2>1, WrittenIs
<1>3. CASE ~(Len(s) <= WritableBytes(b))
  <2> DEFINE k == WritableBytes(b)
             p == SubSeq(s, 1, k)
             q == SubSeq(s, k + 1, Len(s))
             w == Written(b, p)
  <2>1. k \in 0..Len(s)
    BY <1>1, <1>3
  <2>2. /\ p \in Seq(Bytes) /\ Len(p) = k /\ q \in Seq(Bytes) /\ Len(q) = Len(s) - k
        /\ p \o q = s
    <3> HIDE DEF k
    <3> QED
      BY <2>1, CutInTwo
  <2>3. AfterReadFd(b, s) = Appended(w, q)
    BY <1>3 DEF AfterReadFd
  <2> HIDE DEF p, q
  <2>4. /\ Ordered(w) /\ Content(w) = Content(b) \o p /\ Len(w.buffer_) = Len(b.buffer_)
        /\ ReadableBytes(w) = ReadableBytes(b) + k
    BY <1>1, <2>2, WrittenIs
  <2> HIDE DEF w
  <2>5. /\ Ordered(Appended(w, q)) /\ Content(Appended(w, q)) = Content(w) \o q
        /\ ReadableBytes(Appended(w, q)) = ReadableBytes(w) + Len(q)
        /\ \/ Len(Appended(w, q).buffer_) = Len(w.buffer_)
           \/ Len(Appended(w, q).buffer_) <= kCheapPrepend + ReadableBytes(w) + 2 * Len(q)
    BY <2>2, <2>4, AppendedIs
  <2>6. (Content(b) \o p) \o q = Content(b) \o s
    <3>1. \A x, y, z \in Seq(Bytes) : (x \o y) \o z = x \o (y \o z)
      BY ConcatAssociative
    <3>2. (Content(b) \o p) \o q = Content(b) \o (p \o q)
      BY <1>1, <2>2, <3>1
    <3> QED
      BY <2>2, <3>2
  <2>7. k \in Nat /\ k <= Len(s)
    BY <1>1, <1>3
  <2> HIDE DEF k
  <2>8. ReadableBytes(w) + Len(q) = ReadableBytes(b) + Len(s)
    BY <1>1, <2>2, <2>4, <2>7
  <2>9. kCheapPrepend + ReadableBytes(w) + 2 * Len(q)
          <= kCheapPrepend + 2 * (ReadableBytes(b) + Len(s))
    BY <1>1, <2>2, <2>4, <2>7
  <2>10. Len(Appended(w, q).buffer_) \in Nat
    BY <2>5, LenProperties DEF Ordered, Buffers
  <2>11. \/ Len(Appended(w, q).buffer_) = Len(b.buffer_)
         \/ Len(Appended(w, q).buffer_) <= kCheapPrepend + 2 * (ReadableBytes(b) + Len(s))
    <3>1. CASE Len(Appended(w, q).buffer_) <= kCheapPrepend + ReadableBytes(w) + 2 * Len(q)
      BY <1>1, <2>2, <2>4, <2>7, <2>9, <2>10, <3>1
    <3> QED
      BY <2>4, <2>5, <3>1
  <2> QED
    BY <2>3, <2>4, <2>5, <2>6, <2>8, <2>11
<1> QED
  BY <1>2, <1>3

\* Retrieve drops the oldest bytes.
LEMMA RetrieveIs ==
    ASSUME NEW b, Ordered(b), NEW n \in Nat
    PROVE  /\ Ordered(Retrieve(b, n))
           /\ \E m \in 0..Len(Content(b)) :
                 /\ n <= Len(Content(b)) => m = n
                 /\ Content(Retrieve(b, n)) = SubSeq(Content(b), m + 1, Len(Content(b)))
           /\ ReadableBytes(Retrieve(b, n)) <= ReadableBytes(b)
           /\ Len(Retrieve(b, n).buffer_) = Len(b.buffer_)
<1> DEFINE w == Retrieve(b, n)
           r == ReadableBytes(b)
           c == Content(b)
<1>1. /\ b \in Buffers /\ b.buffer_ \in Seq(Bytes)
      /\ b.reader_index_ \in Nat /\ b.writer_index_ \in Nat
      /\ Len(b.buffer_) \in Nat /\ kCheapPrepend \in Nat
      /\ kCheapPrepend <= b.reader_index_ /\ b.reader_index_ <= b.writer_index_
      /\ b.writer_index_ <= Len(b.buffer_)
      /\ r = b.writer_index_ - b.reader_index_
  BY LenProperties, BufferAssumption DEF Ordered, Buffers, ReadableBytes
<1>2. /\ c \in Seq(Bytes) /\ Len(c) = r /\ r \in Nat
      /\ \A i \in 1..r : c[i] = b.buffer_[b.reader_index_ + i]
  BY ContentIs
<1> DEFINE m == IF n < r THEN n ELSE r
<1>3. m \in 0..r /\ (n <= r => m = n)
  BY <1>2
<1>4. /\ w \in Buffers /\ w.buffer_ = b.buffer_
      /\ w.writer_index_ - w.reader_index_ = r - m
      /\ n < r => w.reader_index_ = b.reader_index_ + m
      /\ kCheapPrepend <= w.reader_index_ /\ w.reader_index_ <= w.writer_index_
      /\ w.writer_index_ <= Len(w.buffer_)
  <2>1. CASE n < r
    <3>1. w = [b EXCEPT !.reader_index_ = @ + n]
      BY <2>1 DEF Retrieve
    <3>2. w \in Buffers /\ w.buffer_ = b.buffer_ /\ w.writer_index_ = b.writer_index_
          /\ w.reader_index_ = b.reader_index_ + n
      BY <1>1, <3>1 DEF Buffers
    <3> HIDE DEF w, r
    <3> QED
      BY <1>1, <1>2, <2>1, <3>2
  <2>2. CASE ~(n < r)
    <3>1. w = RetrieveAll(b)
      BY <2>2 DEF Retrieve
    <3>2. w \in Buffers /\ w.buffer_ = b.buffer_ /\ w.writer_index_ = kCheapPrepend
          /\ w.reader_index_ = kCheapPrepend
      BY <1>1, <3>1 DEF RetrieveAll, Buffers
    <3> HIDE DEF w, r
    <3> QED
      BY <1>1, <1>2, <2>2, <3>2
  <2> QED
    BY <2>1, <2>2
<1> HIDE DEF w, c
<1>5. Ordered(w) /\ ReadableBytes(w) = r - m
  BY <1>4 DEF Ordered, ReadableBytes
<1>6. /\ Content(w) \in Seq(Bytes) /\ Len(Content(w)) = r - m
      /\ \A i \in 1..(r - m) : Content(w)[i] = b.buffer_[w.reader_index_ + i]
  BY <1>4, <1>5, ContentIs
<1>7. /\ SubSeq(c, m + 1, Len(c)) \in Seq(Bytes) /\ Len(SubSeq(c, m + 1, Len(c))) = r - m
      /\ \A i \in 1..(r - m) : SubSeq(c, m + 1, Len(c))[i] = c[m + i]
  <2> HIDE DEF m, r
  <2> QED
    BY <1>2, <1>3, CutInTwo
<1>8. ASSUME NEW i \in 1..(r - m)
      PROVE  Content(w)[i] = SubSeq(c, m + 1, Len(c))[i]
  <2>1. n < r /\ m = n
    BY <1>2, <1>8
  <2>2. w.reader_index_ = b.reader_index_ + m
    BY <1>4, <2>1
  <2> HIDE DEF m, r
  <2>3. m + i \in 1..r /\ b.reader_index_ + (m + i) = w.reader_index_ + i
    BY <1>1, <1>2, <1>3, <2>2, <1>8
  <2>4. c[m + i] = b.buffer_[w.reader_index_ + i]
    BY <1>2, <2>3
  <2> QED
    BY <1>6, <1>7, <1>8, <2>4
<1> HIDE DEF m, r
<1>9. Content(w) = SubSeq(c, m + 1, Len(c))
  BY <1>6, <1>7, <1>8, SeqEqual
<1>10. ReadableBytes(w) <= r
  BY <1>2, <1>3, <1>5
<1> QED
  BY <1>2, <1>3, <1>4, <1>5, <1>9, <1>10 DEF w, c, r

\* What Peek() shows is the front of the content.
LEMMA PeekIsOldest ==
    ASSUME NEW b, Ordered(b), NEW n \in 0..ReadableBytes(b)
    PROVE  Peek(b, n) = SubSeq(Content(b), 1, n) /\ Peek(b, n) \in Seq(Bytes)
<1>1. /\ Content(b) \in Seq(Bytes) /\ Len(Content(b)) = ReadableBytes(b)
      /\ ReadableBytes(b) \in Nat /\ n \in Nat /\ n <= ReadableBytes(b)
      /\ \A i \in 1..ReadableBytes(b) : Content(b)[i] = b.buffer_[b.reader_index_ + i]
  BY ContentIs
<1>2. /\ Peek(b, n) \in Seq(Bytes) /\ Len(Peek(b, n)) = n
      /\ \A i \in 1..n : Peek(b, n)[i] = b.buffer_[b.reader_index_ + i]
  BY PeekIs
<1>3. \A i \in 1..n : Content(b)[i] \in Bytes
  BY <1>1, ElementOfSeq
<1> DEFINE c == Content(b)
<1>4. /\ SubSeq(c, 1, n) \in Seq(Bytes)
      /\ Len(SubSeq(c, 1, n)) = IF 1 <= n THEN n - 1 + 1 ELSE 0
      /\ \A i \in 1..(n - 1 + 1) : SubSeq(c, 1, n)[i] = c[1 + i - 1]
  BY <1>1, <1>3, SubSeqProperties
<1> HIDE DEF c
<1>5. /\ Len(SubSeq(c, 1, n)) = n
      /\ \A i \in 1..n : SubSeq(c, 1, n)[i] = c[i]
  BY <1>1, <1>4
<1>6. \A i \in 1..n : Peek(b, n)[i] = c[i]
  BY <1>1, <1>2 DEF c
<1>7. Peek(b, n) = SubSeq(c, 1, n)
  BY <1>2, <1>4, <1>5, <1>6, SeqEqual
<1> QED
  BY <1>2, <1>7 DEF c

-----------------------------------------------------------------------------
(* The invariants.                                                         *)

\* IndicesOrdered says Ordered of the buffer.
LEMMA OrderedBuf == IndicesOrdered <=> Ordered(buf) /\ data \in Seq(Bytes) /\ peak \in Nat
  BY DEF IndicesOrdered, Ordered

\* A fresh buffer.
LEMMA InitHolds == Init => IndicesOrdered /\ CapacityBounded /\ Content(buf) = <<>>
<1> SUFFICES ASSUME Init
             PROVE  IndicesOrdered /\ CapacityBounded /\ Content(buf) = <<>>
  OBVIOUS
<1> DEFINE n == kCheapPrepend + kInitialSize
           f == [i \in 1..n |-> Zero]
<1>1. n \in Nat /\ kCheapPrepend \in Nat /\ kInitialSize \in Nat
  BY BufferAssumption
<1>2. f \in [1..n -> Bytes]
  BY BufferAssumption
<1> HIDE DEF n
<1>3. f \in Seq(Bytes) /\ Len(f) = n
  <2> HIDE DEF f
  <2> QED
    BY <1>1, <1>2, FcnIsSeq
<1>4. buf = [buffer_ |-> f, reader_index_ |-> kCheapPrepend, writer_index_ |-> kCheapPrepend]
      /\ data = <<>> /\ peak = 0
  BY DEF Init, n
<1> HIDE DEF f
<1>5. Ordered(buf) /\ Len(buf.buffer_) = n /\ ReadableBytes(buf) = 0
  BY <1>1, <1>3, <1>4 DEF Ordered, Buffers, ReadableBytes, n
<1>6. Content(buf) = <<>>
  BY <1>5, ContentIs, EmptySeq
<1>7. IndicesOrdered
  BY <1>4, <1>5, OrderedBuf
<1>8. CapacityBounded
  BY <1>1, <1>4, <1>5 DEF CapacityBounded, n
<1> QED
  BY <1>6, <1>7, <1>8

\* One step: the invariants are kept and the queue takes a step.  The bound on the
\* size needs the order of the positions, and needs peak to follow the content.
LEMMA StepHolds ==
    ASSUME IndicesOrdered, CapacityBounded, Next
    PROVE  IndicesOrdered' /\ CapacityBounded' /\ Queue!Next
<1> USE DEF Queue!Next, Queue!Put, Queue!Look, Queue!Remove, Queue!Take, Queue!Oldest, Queue!Drop
<1>1. /\ Ordered(buf) /\ data \in Seq(Bytes) /\ peak \in Nat
      /\ ReadableBytes(buf) \in Nat /\ Content(buf) \in Seq(Bytes)
      /\ Len(Content(buf)) = ReadableBytes(buf) /\ Len(buf.buffer_) \in Nat
      /\ kCheapPrepend \in Nat /\ kInitialSize \in Nat
  BY OrderedBuf, ContentIs, BufferAssumption, LenProperties DEF Ordered, Buffers
<1>2. ASSUME NEW s \in Chunks, Append_(s) \/ ReadFd(s)
      PROVE  IndicesOrdered' /\ CapacityBounded' /\ Queue!Next
  <2>1. s \in Seq(Bytes) /\ Len(s) \in Nat /\ data' = s /\ Puts(s)
    BY <1>2, BufferAssumption, LenProperties DEF Append_, ReadFd, Puts
  <2>2. /\ Ordered(buf') /\ Content(buf') = Content(buf) \o s
        /\ ReadableBytes(buf') = ReadableBytes(buf) + Len(s)
        /\ \/ Len(buf'.buffer_) = Len(buf.buffer_)
           \/ Len(buf'.buffer_) <= kCheapPrepend + 2 * (ReadableBytes(buf) + Len(s))
    <3>1. CASE Append_(s)
      <4>1. buf' = Appended(buf, s)
        BY <3>1 DEF Append_
      <4>2. /\ Ordered(buf') /\ Content(buf') = Content(buf) \o s
            /\ ReadableBytes(buf') = ReadableBytes(buf) + Len(s)
            /\ \/ Len(buf'.buffer_) = Len(buf.buffer_)
               \/ Len(buf'.buffer_) <= kCheapPrepend + ReadableBytes(buf) + 2 * Len(s)
        BY <1>1, <2>1, <4>1, AppendedIs
      <4>3. Len(buf'.buffer_) \in Nat
        BY <4>2, LenProperties DEF Ordered, Buffers
      <4> QED
        BY <1>1, <2>1, <4>2, <4>3
    <3>2. CASE ReadFd(s)
      <4>1. buf' = AfterReadFd(buf, s)
        BY <3>2 DEF ReadFd
      <4> QED
        BY <1>1, <2>1, <4>1, AfterReadFdIs
    <3> QED
      BY <1>2, <3>1, <3>2
  <2>3. /\ peak' \in Nat /\ peak <= peak' /\ ReadableBytes(buf) + Len(s) <= peak'
    BY <1>1, <2>1 DEF Puts
  <2>4. IndicesOrdered'
    BY <2>1, <2>2, <2>3 DEF IndicesOrdered, Ordered
  <2>5. CapacityBounded'
    <3>1. Len(buf'.buffer_) \in Nat
      BY <2>2, LenProperties DEF Ordered, Buffers
    <3>2. ReadableBytes(buf') <= peak'
      BY <2>2, <2>3
    <3>3. \/ Len(buf'.buffer_) <= kCheapPrepend + kInitialSize
          \/ Len(buf'.buffer_) <= kCheapPrepend + 2 * peak'
      <4>1. CASE Len(buf'.buffer_) = Len(buf.buffer_)
        BY <1>1, <2>3, <3>1, <4>1 DEF CapacityBounded
      <4>2. CASE Len(buf'.buffer_) <= kCheapPrepend + 2 * (ReadableBytes(buf) + Len(s))
        BY <1>1, <2>1, <2>3, <3>1, <4>2
      <4> QED
        BY <2>2, <4>1, <4>2
    <3> QED
      BY <3>2, <3>3 DEF CapacityBounded, ReadableBytes
  <2>6. Queue!Put
    BY <2>1, <2>2 DEF Content, Peek, ReadableBytes
  <2> QED
    BY <2>4, <2>5, <2>6
<1>3. ASSUME NEW n \in Nat, n <= ReadableBytes(buf), data' = Peek(buf, n)
      PROVE  n \in 0..Len(Content(buf)) /\ data' = SubSeq(Content(buf), 1, n) /\ data' \in Seq(Bytes)
  <2>1. n \in 0..ReadableBytes(buf)
    BY <1>1, <1>3
  <2> QED
    BY <1>1, <1>3, <2>1, PeekIsOldest
<1>4. ASSUME NEW n \in Nat, buf' = Retrieve(buf, n), UNCHANGED peak, data' \in Seq(Bytes)
      PROVE  /\ IndicesOrdered' /\ CapacityBounded'
             /\ \E m \in 0..Len(Content(buf)) :
                  /\ n <= Len(Content(buf)) => m = n
                  /\ Content(buf)' = SubSeq(Content(buf), m + 1, Len(Content(buf)))
  <2>1. /\ Ordered(buf')
        /\ \E m \in 0..Len(Content(buf)) :
             /\ n <= Len(Content(buf)) => m = n
             /\ Content(buf') = SubSeq(Content(buf), m + 1, Len(Content(buf)))
        /\ ReadableBytes(buf') <= ReadableBytes(buf)
        /\ Len(buf'.buffer_) = Len(buf.buffer_)
    BY <1>1, <1>4, RetrieveIs
  <2>2. IndicesOrdered'
    BY <1>1, <1>4, <2>1 DEF IndicesOrdered, Ordered
  <2>3. ReadableBytes(buf') \in Nat
    BY <2>1, ContentIs
  <2>4. CapacityBounded'
    BY <1>1, <1>4, <2>1, <2>3 DEF CapacityBounded
  <2>5. Content(buf)' = Content(buf')
    BY DEF Content, Peek, ReadableBytes
  <2> QED
    BY <2>1, <2>2, <2>4, <2>5
<1>5. ASSUME NEW n \in 0..(MaxContent + 1), WriteFd(n)
      PROVE  IndicesOrdered' /\ CapacityBounded' /\ Queue!Next
  <2>1. n \in Nat /\ n <= ReadableBytes(buf) /\ data' = Peek(buf, n) /\ UNCHANGED <<buf, peak>>
    BY <1>5, BufferAssumption DEF WriteFd
  <2>2. n \in 0..Len(Content(buf)) /\ data' = SubSeq(Content(buf), 1, n) /\ data' \in Seq(Bytes)
    BY <1>3, <2>1
  <2>3. IndicesOrdered' /\ CapacityBounded'
    BY <2>1, <2>2 DEF IndicesOrdered, CapacityBounded, ReadableBytes
  <2>4. UNCHANGED Content(buf)
    BY <2>1 DEF Content, Peek, ReadableBytes
  <2> QED
    BY <2>2, <2>3, <2>4
<1>6. ASSUME NEW n \in 0..(MaxContent + 1), RetrieveBytes(n)
      PROVE  IndicesOrdered' /\ CapacityBounded' /\ Queue!Next
  <2>1. n \in Nat /\ buf' = Retrieve(buf, n) /\ UNCHANGED <<data, peak>>
    BY <1>6, BufferAssumption DEF RetrieveBytes
  <2>2. /\ IndicesOrdered' /\ CapacityBounded'
        /\ \E m \in 0..Len(Content(buf)) :
             Content(buf)' = SubSeq(Content(buf), m + 1, Len(Content(buf)))
    BY <1>1, <1>4, <2>1
  <2>3. Queue!Remove
    BY <2>1, <2>2
  <2> QED
    BY <2>2, <2>3
<1>7. ASSUME NEW n \in 0..(MaxContent + 1), RetrieveAsString(n)
      PROVE  IndicesOrdered' /\ CapacityBounded' /\ Queue!Next
  <2>1. /\ n \in Nat /\ n <= ReadableBytes(buf) /\ data' = Peek(buf, n)
        /\ buf' = Retrieve(buf, n) /\ UNCHANGED peak
    BY <1>7, BufferAssumption DEF RetrieveAsString
  <2>2. n \in 0..Len(Content(buf)) /\ data' = SubSeq(Content(buf), 1, n) /\ data' \in Seq(Bytes)
    BY <1>3, <2>1
  <2>3. /\ IndicesOrdered' /\ CapacityBounded'
        /\ Content(buf)' = SubSeq(Content(buf), n + 1, Len(Content(buf)))
    BY <1>1, <1>4, <2>1, <2>2
  <2>4. Queue!Take
    BY <2>2, <2>3
  <2> QED
    BY <2>3, <2>4
<1> QED
  BY <1>2, <1>5, <1>6, <1>7 DEF Next

\* Both invariants hold in every state.
LEMMA Invariants == Spec => [](IndicesOrdered /\ CapacityBounded)
<1>1. Init => IndicesOrdered /\ CapacityBounded
  BY InitHolds
<1>2. IndicesOrdered /\ CapacityBounded /\ [Next]_vars => (IndicesOrdered /\ CapacityBounded)'
  <2>1. CASE Next
    BY <2>1, StepHolds
  <2>2. CASE UNCHANGED vars
    BY <2>2 DEF vars, IndicesOrdered, CapacityBounded, ReadableBytes
  <2> QED
    BY <2>1, <2>2
<1> QED
  BY <1>1, <1>2, PTL DEF Spec

\* Buffer::Append, ReadFd and the Retrieve functions keep the two positions in order
\* and behind the reserved cells, whatever the sizes and the calls.
THEOREM IndicesOrderedAlways == Spec => []IndicesOrdered
  BY Invariants, PTL

\* MakeSpace never lets the vector take more than twice the largest content.
THEOREM CapacityBoundedAlways == Spec => []CapacityBounded
  BY Invariants, PTL

\* The Buffer is a queue of bytes.
THEOREM BufferImplementsByteQueue == Spec => ImplementsByteQueue
<1>1. Init => Queue!Init
  BY InitHolds DEF Init, Queue!Init
<1>2. IndicesOrdered /\ CapacityBounded /\ [Next]_vars => [Queue!Next]_<<Content(buf), data>>
  <2>1. CASE Next
    BY <2>1, StepHolds
  <2>2. CASE UNCHANGED vars
    BY <2>2 DEF vars, Content, Peek, ReadableBytes
  <2> QED
    BY <2>1, <2>2
<1> QED
  BY <1>1, <1>2, Invariants, PTL DEF Spec, ImplementsByteQueue, Queue!Spec
=============================================================================
