---------------------------- MODULE BufferProofs ----------------------------
(***************************************************************************)
(* What holds of a Buffer for every set of bytes, every initial size and   *)
(* every size of call: the order of its indices, the room for a header,    *)
(* the bound on its growth, and that its readable bytes are those appended *)
(* and not yet retrieved, whatever is moved or prepended between.          *)
(***************************************************************************)
EXTENDS Buffer, SequenceTheorems, TLAPS

USE DEF vars, indices, Size, readableBytes, writableBytes, prependableBytes

-----------------------------------------------------------------------------
(* The two ways a vector changes. *)

LEMMA PutType ==
    ASSUME NEW b \in Seq(Byte), NEW at \in Nat, NEW d \in Seq(Byte)
    PROVE  Put(b, at, d) \in Seq(Byte) /\ Len(Put(b, at, d)) = Len(b)
<1> DEFINE p == Put(b, at, d)
<1>1. p \in [1 .. Len(b) -> Byte]
  <2>1. ASSUME NEW i \in 1 .. Len(b)
        PROVE  (IF i \in at + 1 .. at + Len(d) THEN d[i - at] ELSE b[i]) \in Byte
    <3>1. CASE i \in at + 1 .. at + Len(d)
      <4>1. i - at \in 1 .. Len(d)
        BY <3>1
      <4> QED
        BY <3>1, <4>1, ElementOfSeq
    <3>2. CASE i \notin at + 1 .. at + Len(d)
      BY <3>2, ElementOfSeq
    <3> QED
      BY <3>1, <3>2
  <2> QED
    BY <2>1 DEF Put
<1> HIDE DEF p
<1>2. p \in Seq(Byte) /\ Len(p) = Len(b)
  BY <1>1
<1> QED
  BY <1>2 DEF p

LEMMA ResizeType ==
    ASSUME NEW b \in Seq(Byte), NEW n \in Nat
    PROVE  Resize(b, n) \in Seq(Byte) /\ Len(Resize(b, n)) = n
<1> DEFINE p == Resize(b, n)
<1>1. p \in [1 .. n -> Byte]
  <2>1. ASSUME NEW i \in 1 .. n
        PROVE  (IF i <= Len(b) THEN b[i] ELSE Zero) \in Byte
    BY BufferAssumption, ElementOfSeq
  <2> QED
    BY <2>1 DEF Resize
<1> HIDE DEF p
<1>2. p \in Seq(Byte) /\ Len(p) = n
  BY <1>1
<1> QED
  BY <1>2 DEF p

-----------------------------------------------------------------------------
(***************************************************************************)
(* makeSpace leaves the room it was asked for, keeps the number of         *)
(* readable bytes, and grows only when moving would not have been enough.  *)
(***************************************************************************)
LEMMA SpaceMade ==
    ASSUME NEW b \in Seq(Byte), NEW w \in 0 .. Len(b), NEW r \in 0 .. w,
           NEW len \in Nat, Len(b) - w < len
    PROVE  LET m == makeSpace(Layout(b, r, w), len)
           IN  /\ m.buf \in Seq(Byte)
               /\ m.reader \in Nat
               /\ m.writer = m.reader + (w - r)
               /\ m.writer + len <= Len(m.buf)
               /\ \/ m.reader = kCheapPrepend /\ Len(m.buf) = Len(b)
                  \/ /\ m.reader = r
                     /\ r < kCheapPrepend + len
                     /\ Len(m.buf) = w + len
                     /\ Len(m.buf) >= Len(b)
<1> USE BufferAssumption
<1>1. CASE Len(b) - w + r < len + kCheapPrepend
  <2> DEFINE p == Resize(b, w + len)
  <2>1. makeSpace(Layout(b, r, w), len) = Layout(p, r, w)
    BY <1>1 DEF makeSpace, Layout
  <2>2. p \in Seq(Byte) /\ Len(p) = w + len
    <3>1. w + len \in Nat
      OBVIOUS
    <3> QED
      BY <3>1, ResizeType
  <2> HIDE DEF p
  <2>3. Len(p) >= Len(b) /\ r < kCheapPrepend + len
    BY <1>1, <2>2
  <2> DEFINE m == makeSpace(Layout(b, r, w), len)
  <2>4. m.buf = p /\ m.reader = r /\ m.writer = w
    BY <2>1 DEF Layout
  <2> HIDE DEF m
  <2>5. r \in Nat /\ w = r + (w - r)
    OBVIOUS
  <2> QED
    BY <2>2, <2>3, <2>4, <2>5 DEF m
<1>2. CASE ~(Len(b) - w + r < len + kCheapPrepend)
  <2> DEFINE kept == SubSeq(b, r + 1, w)
             p == Put(b, kCheapPrepend, kept)
  <2>1. makeSpace(Layout(b, r, w), len)
          = Layout(p, kCheapPrepend, kCheapPrepend + Len(kept))
    BY <1>2 DEF makeSpace, Layout
  <2>2. kept \in Seq(Byte) /\ Len(kept) = w - r
    <3>1. \A i \in r + 1 .. w : b[i] \in Byte
      BY ElementOfSeq
    <3> QED
      BY <3>1, SubSeqProperties, SMTT(30)
  <2>3. p \in Seq(Byte) /\ Len(p) = Len(b)
    BY <2>2, PutType
  <2> HIDE DEF kept, p
  <2> QED
    BY <1>2, <2>1, <2>2, <2>3 DEF Layout
<1> QED
  BY <1>1, <1>2

\* ensureWritableBytes, and append before it copies.
LEMMA RoomLayout ==
    ASSUME NEW b \in Seq(Byte), NEW w \in 0 .. Len(b), NEW r \in 0 .. w, NEW len \in Nat
    PROVE  LET k == WithRoom(Layout(b, r, w), len)
           IN  /\ k.buf \in Seq(Byte)
               /\ k.reader \in Nat
               /\ k.writer = k.reader + (w - r)
               /\ k.writer + len <= Len(k.buf)
               /\ \/ k.reader \in {r, kCheapPrepend} /\ Len(k.buf) = Len(b)
                  \/ /\ k.reader = r
                     /\ r < kCheapPrepend + len
                     /\ Len(k.buf) = w + len
                     /\ Len(k.buf) >= Len(b)
<1> DEFINE k == WithRoom(Layout(b, r, w), len)
<1>1. /\ k.buf \in Seq(Byte)
      /\ k.reader \in Nat
      /\ k.writer = k.reader + (w - r)
      /\ k.writer + len <= Len(k.buf)
      /\ \/ k.reader \in {r, kCheapPrepend} /\ Len(k.buf) = Len(b)
         \/ /\ k.reader = r
            /\ r < kCheapPrepend + len
            /\ Len(k.buf) = w + len
            /\ Len(k.buf) >= Len(b)
  <2>1. CASE Len(b) - w < len
    <3>1. k = makeSpace(Layout(b, r, w), len)
      BY <2>1 DEF WithRoom, Layout
    <3> HIDE DEF k
    <3> QED
      BY <2>1, <3>1, SpaceMade
  <2>2. CASE ~(Len(b) - w < len)
    <3>1. k = Layout(b, r, w)
      BY <2>2 DEF WithRoom, Layout
    <3> HIDE DEF k
    <3> QED
      BY <2>2, <3>1 DEF Layout
  <2> QED
    BY <2>1, <2>2
<1> QED
  BY <1>1

LEMMA AppendedLayout ==
    ASSUME NEW b \in Seq(Byte), NEW w \in 0 .. Len(b), NEW r \in 0 .. w,
           NEW d \in Seq(Byte)
    PROVE  LET m == Appended(Layout(b, r, w), d)
           IN  /\ m.buf \in Seq(Byte)
               /\ m.reader \in 0 .. m.writer
               /\ m.writer \in 0 .. Len(m.buf)
               /\ m.writer = m.reader + (w - r) + Len(d)
               /\ \/ m.reader \in {r, kCheapPrepend} /\ Len(m.buf) = Len(b)
                  \/ /\ m.reader = r
                     /\ r < kCheapPrepend + Len(d)
                     /\ Len(m.buf) = w + Len(d)
                     /\ Len(m.buf) >= Len(b)
<1> DEFINE k == WithRoom(Layout(b, r, w), Len(d))
<1>1. /\ k.buf \in Seq(Byte)
      /\ k.reader \in Nat
      /\ k.writer = k.reader + (w - r)
      /\ k.writer + Len(d) <= Len(k.buf)
      /\ \/ k.reader \in {r, kCheapPrepend} /\ Len(k.buf) = Len(b)
         \/ /\ k.reader = r
            /\ r < kCheapPrepend + Len(d)
            /\ Len(k.buf) = w + Len(d)
            /\ Len(k.buf) >= Len(b)
  BY RoomLayout
<1> DEFINE p == Put(k.buf, k.writer, d)
<1>2. Appended(Layout(b, r, w), d) = Layout(p, k.reader, k.writer + Len(d))
  BY DEF Appended
<1> HIDE DEF k
<1>3. p \in Seq(Byte) /\ Len(p) = Len(k.buf)
  BY <1>1, PutType
<1> HIDE DEF p
<1> QED
  BY <1>1, <1>2, <1>3 DEF Layout

-----------------------------------------------------------------------------
(* Every operation leaves one of these layouts. *)

\* The vector never shrinks below its first size.
NeverShrinks == kCheapPrepend + InitialSize <= Size

Inv == IndexOrder /\ HeaderFits /\ CapacityBound /\ NeverShrinks

\* What an operation that makes room for len more bytes may do to the indices.
Grown(len) ==
    /\ buf' \in Seq(Byte)
    /\ readerIndex' \in 0 .. writerIndex'
    /\ writerIndex' \in 0 .. Len(buf')
    /\ \/ readerIndex' \in {readerIndex, kCheapPrepend} /\ Len(buf') = Len(buf)
       \/ /\ readerIndex' = readerIndex
          /\ readerIndex < kCheapPrepend + len
          /\ Len(buf') = readerIndex + readableBytes + len
          /\ Len(buf') >= Len(buf)

LEMMA GrownKeepsInv ==
    ASSUME Inv, NEW len \in 0 .. MaxLen, Grown(len),
           peak' = Larger(peak, readableBytes + len),
           headed' = IF readerIndex' = kCheapPrepend THEN "no" ELSE headed,
           content' \in Seq(Byte)
    PROVE  Inv'
<1> USE BufferAssumption
<1>1. /\ readerIndex \in Nat /\ writerIndex \in Nat /\ Len(buf) \in Nat
      /\ readerIndex <= writerIndex /\ writerIndex <= Len(buf)
      /\ peak \in Nat /\ headed \in {"no", "yes"}
  BY DEF Inv, IndexOrder
<1>2. /\ readerIndex' \in Nat /\ writerIndex' \in Nat /\ Len(buf') \in Nat
      /\ readerIndex' <= writerIndex'
  BY DEF Grown
<1>3. /\ peak' \in Nat /\ peak' >= peak
      /\ peak' >= readableBytes + len
  <2>2. peak' = IF peak < readableBytes + len THEN readableBytes + len ELSE peak
    BY DEF Larger
  <2>3. readableBytes + len \in Nat
    BY <1>1
  <2> QED
    BY <1>1, <2>2, <2>3
<1>4. IndexOrder'
  BY <1>1, <1>3 DEF IndexOrder, Grown
<1>5. HeaderFits'
  BY <1>1, <1>2 DEF HeaderFits, Inv, Grown
<1>6. CapacityBound'
  <2>1. CASE Len(buf') = Len(buf)
    BY <1>1, <1>2, <1>3, <2>1, SMTT(30) DEF CapacityBound, Inv
  <2>2. CASE /\ readerIndex < kCheapPrepend + len
             /\ Len(buf') = readerIndex + readableBytes + len
    <3>1. /\ Len(buf') < kCheapPrepend + len + readableBytes + len
          /\ readableBytes + len <= peak' /\ len <= MaxLen
          /\ len \in Nat /\ MaxLen \in Nat
      BY <1>1, <1>3, <2>2
    <3>2. Len(buf') < kCheapPrepend + peak' + MaxLen
      BY <1>1, <1>2, <1>3, <3>1, SMTT(30)
    <3> QED
      BY <3>2 DEF CapacityBound
  <2> QED
    BY <2>1, <2>2 DEF Grown
<1>7. NeverShrinks'
  BY <1>1, <1>2 DEF NeverShrinks, Grown, Inv
<1> QED
  BY <1>4, <1>5, <1>6, <1>7 DEF Inv

LEMMA DataLength == \A d \in Data : d \in Seq(Byte) /\ Len(d) \in 1 .. MaxLen
<1> SUFFICES ASSUME NEW d \in Data PROVE d \in Seq(Byte) /\ Len(d) \in 1 .. MaxLen
  OBVIOUS
<1>1. PICK n \in 1 .. MaxLen : d \in [1 .. n -> Byte]
  BY DEF Data
<1> QED
  BY <1>1, BufferAssumption

LEMMA InvStep == Inv /\ [Next]_vars => Inv'
<1> SUFFICES ASSUME Inv, [Next]_vars PROVE Inv'
  OBVIOUS
<1> USE BufferAssumption
<1>0. /\ buf \in Seq(Byte) /\ content \in Seq(Byte)
      /\ writerIndex \in 0 .. Len(buf) /\ readerIndex \in 0 .. writerIndex
      /\ peak \in Nat /\ headed \in {"no", "yes"}
  BY DEF Inv, IndexOrder
<1>1. ASSUME NEW d \in Data, append(d) PROVE Inv'
  <2>1. d \in Seq(Byte) /\ Len(d) \in 1 .. MaxLen
    BY DataLength
  <2> DEFINE m == Appended(Layout(buf, readerIndex, writerIndex), d)
  <2>2. /\ buf' = m.buf /\ readerIndex' = m.reader /\ writerIndex' = m.writer
        /\ headed' = IF m.reader = kCheapPrepend THEN "no" ELSE headed
        /\ Held /\ content' = content \o d
    BY <1>1 DEF append, Become, Moved, Now
  <2>3. /\ m.buf \in Seq(Byte)
        /\ m.reader \in 0 .. m.writer
        /\ m.writer \in 0 .. Len(m.buf)
        /\ m.writer = m.reader + (writerIndex - readerIndex) + Len(d)
        /\ \/ m.reader \in {readerIndex, kCheapPrepend} /\ Len(m.buf) = Len(buf)
           \/ /\ m.reader = readerIndex
              /\ readerIndex < kCheapPrepend + Len(d)
              /\ Len(m.buf) = writerIndex + Len(d)
              /\ Len(m.buf) >= Len(buf)
    BY <1>0, <2>1, AppendedLayout
  <2> HIDE DEF m
  <2>4. Grown(Len(d))
    BY <1>0, <2>1, <2>2, <2>3 DEF Grown
  <2>5. content' \in Seq(Byte)
    BY <1>0, <2>1, <2>2
  <2>6. writerIndex' - readerIndex' = readableBytes + Len(d)
    BY <1>0, <2>1, <2>2, <2>3
  <2>7. peak' = Larger(peak, readableBytes + Len(d))
    BY <2>2, <2>6 DEF Held
  <2> QED
    BY <2>1, <2>2, <2>4, <2>5, <2>7, GrownKeepsInv
<1>2. ASSUME NEW d \in Data, readFd(d) PROVE Inv'
  <2>1. d \in Seq(Byte) /\ Len(d) \in 1 .. MaxLen
    BY DataLength
  <2>2. content' = content \o d /\ content' \in Seq(Byte)
    BY <1>0, <1>2, <2>1 DEF readFd
  <2>3. CASE Len(d) <= writableBytes
    <3> DEFINE p == Put(buf, writerIndex, d)
    <3>1. /\ buf' = p /\ readerIndex' = readerIndex
          /\ writerIndex' = writerIndex + Len(d)
          /\ headed' = IF readerIndex = kCheapPrepend THEN "no" ELSE headed
          /\ Held
      BY <1>2, <2>3 DEF readFd, Become, Moved, Layout
    <3>2. p \in Seq(Byte) /\ Len(p) = Len(buf)
      BY <1>0, <2>1, PutType
    <3> HIDE DEF p
    <3>3. Grown(Len(d))
      BY <1>0, <2>1, <2>3, <3>1, <3>2 DEF Grown
    <3>4. writerIndex' - readerIndex' = readableBytes + Len(d)
      BY <1>0, <2>1, <3>1
    <3>5. peak' = Larger(peak, readableBytes + Len(d))
      BY <3>1, <3>4 DEF Held
    <3> QED
      BY <2>1, <2>2, <3>1, <3>3, <3>5, GrownKeepsInv
  <2>4. CASE ~(Len(d) <= writableBytes)
    <3> DEFINE front == SubSeq(d, 1, writableBytes)
               p == Put(buf, writerIndex, front)
               rest == SubSeq(d, writableBytes + 1, Len(d))
               m == Appended(Layout(p, readerIndex, Len(buf)), rest)
    <3>1. /\ buf' = m.buf /\ readerIndex' = m.reader /\ writerIndex' = m.writer
          /\ headed' = IF m.reader = kCheapPrepend THEN "no" ELSE headed
          /\ Held
      BY <1>2, <2>4 DEF readFd, Become, Moved
    <3>2. /\ front \in Seq(Byte)
          /\ rest \in Seq(Byte) /\ Len(rest) = Len(d) - writableBytes
      <4>1. \A i \in 1 .. Len(d) : d[i] \in Byte
        BY <2>1, ElementOfSeq
      <4>2. writableBytes \in Nat /\ writableBytes + 1 <= Len(d)
        BY <1>0, <2>1, <2>4
      <4>3. front \in Seq(Byte)
        BY <4>1, <4>2, SubSeqProperties
      <4>4. rest \in Seq(Byte) /\ Len(rest) = Len(d) - writableBytes
        <5>1. \A i \in writableBytes + 1 .. Len(d) : d[i] \in Byte
          BY <4>1, <4>2
        <5> QED
          BY <2>1, <4>2, <5>1, SubSeqProperties, SMTT(30)
      <4> QED
        BY <4>3, <4>4
    <3> HIDE DEF front, rest
    <3>3. p \in Seq(Byte) /\ Len(p) = Len(buf)
      BY <1>0, <3>2, PutType
    <3> HIDE DEF p
    <3>4. /\ m.buf \in Seq(Byte)
          /\ m.reader \in 0 .. m.writer
          /\ m.writer \in 0 .. Len(m.buf)
          /\ m.writer = m.reader + (Len(buf) - readerIndex) + Len(rest)
          /\ \/ m.reader \in {readerIndex, kCheapPrepend} /\ Len(m.buf) = Len(p)
             \/ /\ m.reader = readerIndex
                /\ readerIndex < kCheapPrepend + Len(rest)
                /\ Len(m.buf) = Len(buf) + Len(rest)
                /\ Len(m.buf) >= Len(p)
      <4> DEFINE w == Len(buf)
      <4>1. w \in 0 .. Len(p) /\ readerIndex \in 0 .. w /\ rest \in Seq(Byte)
            /\ p \in Seq(Byte)
        BY <1>0, <3>2, <3>3
      <4> HIDE DEF w
      <4>2. LET k == Appended(Layout(p, readerIndex, w), rest)
            IN  /\ k.buf \in Seq(Byte)
                /\ k.reader \in 0 .. k.writer
                /\ k.writer \in 0 .. Len(k.buf)
                /\ k.writer = k.reader + (w - readerIndex) + Len(rest)
                /\ \/ k.reader \in {readerIndex, kCheapPrepend} /\ Len(k.buf) = Len(p)
                   \/ /\ k.reader = readerIndex
                      /\ readerIndex < kCheapPrepend + Len(rest)
                      /\ Len(k.buf) = w + Len(rest)
                      /\ Len(k.buf) >= Len(p)
        BY <4>1, AppendedLayout
      <4> QED
        BY <4>2 DEF w
    <3> HIDE DEF m
    <3>5. Grown(Len(d))
      BY <1>0, <2>1, <2>4, <3>1, <3>2, <3>3, <3>4, SMTT(30) DEF Grown
    <3>6. writerIndex' - readerIndex' = readableBytes + Len(d)
      BY <1>0, <2>1, <2>4, <3>1, <3>2, <3>4
    <3>7. peak' = Larger(peak, readableBytes + Len(d))
      BY <3>1, <3>6 DEF Held
    <3> QED
      BY <2>1, <2>2, <3>1, <3>5, <3>7, GrownKeepsInv
  <2> QED
    BY <2>3, <2>4
<1>3. ASSUME NEW d \in Data, prepend(d) PROVE Inv'
  <2>1. d \in Seq(Byte) /\ Len(d) \in 1 .. MaxLen
    BY DataLength
  <2>2. CASE Len(d) > prependableBytes
    BY <1>0, <1>3, <2>2
       DEF prepend, Inv, IndexOrder, HeaderFits, CapacityBound, NeverShrinks
  <2>3. CASE ~(Len(d) > prependableBytes)
    <3> DEFINE p == Put(buf, readerIndex - Len(d), d)
    <3>1. /\ buf' = p /\ readerIndex' = readerIndex - Len(d)
          /\ headed' = "yes" /\ content' = d \o content
          /\ writerIndex' = writerIndex /\ Held
      BY <1>3, <2>3 DEF prepend
    <3>2. p \in Seq(Byte) /\ Len(p) = Len(buf)
      BY <1>0, <2>1, <2>3, PutType
    <3> HIDE DEF p
    <3>3. peak' \in Nat /\ peak' >= peak
      BY <1>0, <2>1, <2>3, <3>1 DEF Held, Larger
    <3>4. IndexOrder'
      BY <1>0, <2>1, <2>3, <3>1, <3>2, <3>3 DEF IndexOrder
    <3>5. HeaderFits'
      BY <1>0, <2>1, <2>3, <3>1 DEF HeaderFits, Inv
    <3>6. CapacityBound'
      BY <1>0, <3>1, <3>2, <3>3, SMTT(30) DEF CapacityBound, Inv
    <3>7. NeverShrinks'
      BY <3>1, <3>2 DEF NeverShrinks, Inv
    <3> QED
      BY <3>4, <3>5, <3>6, <3>7 DEF Inv
  <2> QED
    BY <2>2, <2>3
<1>4. ASSUME NEW n \in Nat, retrieve(n) PROVE Inv'
  <2>1. content' \in Seq(Byte)
    <3>1. \A i \in 1 .. Len(content) : content[i] \in Byte
      BY <1>0, ElementOfSeq
    <3>2. content' = SubSeq(content, n + 1, Len(content))
      BY <1>4 DEF retrieve
    <3>3. \A i \in n + 1 .. Len(content) : content[i] \in Byte
      BY <1>0, <3>1
    <3> QED
      BY <1>0, <3>2, <3>3, SubSeqProperties
  <2>2. UNCHANGED <<buf, peak>>
    BY <1>4 DEF retrieve
  <2>3. CASE n < readableBytes
    <3>1. readerIndex' = readerIndex + n /\ UNCHANGED <<writerIndex, headed>>
      BY <1>4, <2>3 DEF retrieve
    <3> QED
      BY <1>0, <2>1, <2>2, <2>3, <3>1
         DEF Inv, IndexOrder, HeaderFits, CapacityBound, NeverShrinks
  <2>4. CASE ~(n < readableBytes)
    <3>1. /\ readerIndex' = kCheapPrepend /\ writerIndex' = kCheapPrepend
          /\ headed' = "no"
      BY <1>4, <2>4 DEF retrieve
    <3>2. kCheapPrepend <= Len(buf)
      BY <1>0 DEF Inv, NeverShrinks
    <3>3. IndexOrder'
      <4>1. readerIndex' \in 0 .. writerIndex' /\ writerIndex' \in 0 .. Len(buf')
        BY <1>0, <2>2, <3>1, <3>2
      <4>2. peak' \in Nat /\ headed' \in {"no", "yes"} /\ buf' \in Seq(Byte)
        BY <1>0, <2>2, <3>1
      <4> QED
        BY <2>1, <4>1, <4>2 DEF IndexOrder
    <3>4. HeaderFits' /\ CapacityBound' /\ NeverShrinks'
      BY <1>0, <2>2, <3>1 DEF Inv, HeaderFits, CapacityBound, NeverShrinks
    <3> QED
      BY <3>3, <3>4 DEF Inv
  <2> QED
    BY <2>3, <2>4
<1>5. CASE retrieveAll
  BY <1>0, <1>4, <1>5 DEF retrieveAll
<1>6. CASE UNCHANGED vars
  BY <1>0, <1>6 DEF Inv, IndexOrder, HeaderFits, CapacityBound, NeverShrinks
<1>7. ASSUME NEW n \in 0 .. MaxLen, ensureWritableBytes(n) PROVE Inv'
  <2>0. n \in Nat
    OBVIOUS
  <2> DEFINE k == WithRoom(Layout(buf, readerIndex, writerIndex), n)
  <2>1. /\ buf' = k.buf /\ readerIndex' = k.reader /\ writerIndex' = k.writer
        /\ headed' = IF k.reader = kCheapPrepend THEN "no" ELSE headed
        /\ peak' = Larger(peak, readableBytes + n) /\ content' = content
    BY <1>7 DEF ensureWritableBytes, Moved, Now
  <2>2. /\ k.buf \in Seq(Byte)
        /\ k.reader \in Nat
        /\ k.writer = k.reader + (writerIndex - readerIndex)
        /\ k.writer + n <= Len(k.buf)
        /\ \/ k.reader \in {readerIndex, kCheapPrepend} /\ Len(k.buf) = Len(buf)
           \/ /\ k.reader = readerIndex
              /\ readerIndex < kCheapPrepend + n
              /\ Len(k.buf) = writerIndex + n
              /\ Len(k.buf) >= Len(buf)
    BY <1>0, <2>0, RoomLayout
  <2> HIDE DEF k
  <2>3. /\ k.writer \in 0 .. Len(k.buf) /\ k.reader \in 0 .. k.writer
        /\ readerIndex + readableBytes = writerIndex
    <3>1. Len(k.buf) \in Nat
      BY <2>2
    <3> QED
      BY <1>0, <2>0, <2>2, <3>1
  <2>4. Grown(n)
    BY <2>1, <2>2, <2>3 DEF Grown
  <2> QED
    BY <1>0, <2>1, <2>4, GrownKeepsInv
<1> QED
  BY <1>1, <1>2, <1>3, <1>4, <1>5, <1>6, <1>7 DEF Next

LEMMA Invariance == Spec => []Inv
<1>1. Init => Inv
  <2> SUFFICES ASSUME Init PROVE Inv
    OBVIOUS
  <2> USE BufferAssumption
  <2> DEFINE n == kCheapPrepend + InitialSize
  <2>1. n \in Nat /\ buf = [i \in 1 .. n |-> Zero]
    BY DEF Init
  <2>2. buf \in [1 .. n -> Byte]
    BY <2>1
  <2>3. buf \in Seq(Byte) /\ Len(buf) = n
    <3> HIDE DEF n
    <3> QED
      BY <2>1, <2>2
  <2>4. << >> \in Seq(Byte)
    OBVIOUS
  <2>5. IndexOrder
    <3> HIDE DEF n
    <3>1. kCheapPrepend \in 0 .. Len(buf)
      BY <2>1, <2>3 DEF n
    <3>2. /\ readerIndex = kCheapPrepend /\ writerIndex = kCheapPrepend
          /\ content = << >> /\ peak = 0 /\ headed = "no"
      BY DEF Init
    <3> QED
      BY <2>3, <2>4, <3>1, <3>2 DEF IndexOrder
  <2> QED
    BY <2>3, <2>5
       DEF Init, Inv, HeaderFits, CapacityBound, NeverShrinks
<1> QED
  BY <1>1, InvStep, PTL DEF Spec

\* 0 <= readerIndex <= writerIndex <= size, the diagram in Buffer.h, whatever
\* the sizes of the calls.
THEOREM IndicesOrdered == Spec => []IndexOrder
<1>1. Inv => IndexOrder
  BY DEF Inv
<1> QED
  BY <1>1, Invariance, PTL

\* Room for kCheapPrepend bytes is kept in front until some are put there:
\* fillEmptyBuffer's one prepend is never the one that Buffer::prepend drops.
THEOREM RoomForHeader == Spec => []HeaderFits
<1>1. Inv => HeaderFits
  BY DEF Inv
<1> QED
  BY <1>1, Invariance, PTL

\* makeSpace grows the vector by less than kCheapPrepend and one call's bytes
\* beyond the most it had to hold.
THEOREM GrowthBounded == Spec => []CapacityBound
<1>1. Inv => CapacityBound
  BY DEF Inv
<1> QED
  BY <1>1, Invariance, PTL

-----------------------------------------------------------------------------
(***************************************************************************)
(* The bytes.  A layout holds c when c lies between its indices; this says *)
(* byte by byte what ContentKept says with SubSeq.                         *)
(***************************************************************************)
Holds(b, r, w, c) ==
    /\ c \in Seq(Byte) /\ Len(c) = w - r
    /\ \A i \in 1 .. w - r : b[r + i] = c[i]

\* e is c followed by d.
Joined(e, c, d) ==
    /\ e \in Seq(Byte) /\ Len(e) = Len(c) + Len(d)
    /\ \A i \in 1 .. Len(c) : e[i] = c[i]
    /\ \A i \in 1 .. Len(d) : e[Len(c) + i] = d[i]

LEMMA Joins ==
    ASSUME NEW c \in Seq(Byte), NEW d \in Seq(Byte)
    PROVE  Joined(c \o d, c, d)
<1>1. /\ c \o d \in Seq(Byte) /\ Len(c \o d) = Len(c) + Len(d)
      /\ \A i \in 1 .. Len(c) + Len(d) :
            (c \o d)[i] = IF i <= Len(c) THEN c[i] ELSE d[i - Len(c)]
  BY ConcatProperties, Zenon
<1> DEFINE e == c \o d
<1>2. /\ e \in Seq(Byte) /\ Len(e) = Len(c) + Len(d)
      /\ \A i \in 1 .. Len(c) + Len(d) : e[i] = IF i <= Len(c) THEN c[i] ELSE d[i - Len(c)]
  BY <1>1
<1> HIDE DEF e
<1>3. Len(c) \in Nat /\ Len(d) \in Nat
  OBVIOUS
<1>4. \A i \in 1 .. Len(c) : e[i] = c[i]
  BY <1>2, <1>3
<1>5. ASSUME NEW i \in 1 .. Len(d) PROVE e[Len(c) + i] = d[i]
  <2>1. Len(c) + i \in 1 .. Len(c) + Len(d) /\ ~(Len(c) + i <= Len(c)) /\ Len(c) + i - Len(c) = i
    BY <1>3
  <2> QED
    BY <1>2, <2>1
<1>6. Joined(e, c, d)
  BY <1>2, <1>4, <1>5 DEF Joined
<1> QED
  BY <1>6 DEF e

\* std::copy writes where it should and nowhere else.
LEMMA PutBytes ==
    ASSUME NEW b \in Seq(Byte), NEW at \in Nat, NEW d \in Seq(Byte), at + Len(d) <= Len(b)
    PROVE  /\ \A i \in 1 .. Len(d) : Put(b, at, d)[at + i] = d[i]
           /\ \A i \in 1 .. Len(b) :
                 i \notin at + 1 .. at + Len(d) => Put(b, at, d)[i] = b[i]
<1>1. Len(b) \in Nat /\ Len(d) \in Nat
  OBVIOUS
<1>2. \A i \in 1 .. Len(b) :
         Put(b, at, d)[i] = IF i \in at + 1 .. at + Len(d) THEN d[i - at] ELSE b[i]
  BY DEF Put
<1>3. ASSUME NEW i \in 1 .. Len(d) PROVE Put(b, at, d)[at + i] = d[i]
  <2>1. at + i \in 1 .. Len(b) /\ at + i \in at + 1 .. at + Len(d) /\ at + i - at = i
    BY <1>1
  <2> QED
    BY <1>2, <2>1
<1> QED
  BY <1>2, <1>3

\* makeSpace keeps the bytes, whether it moves them or grows the vector.
LEMMA SpaceKeeps ==
    ASSUME NEW b \in Seq(Byte), NEW w \in 0 .. Len(b), NEW r \in 0 .. w, NEW c,
           NEW len \in Nat, Len(b) - w < len, Holds(b, r, w, c)
    PROVE  LET m == makeSpace(Layout(b, r, w), len)
           IN  Holds(m.buf, m.reader, m.writer, c)
<1> USE BufferAssumption
<1>1. CASE Len(b) - w + r < len + kCheapPrepend
  <2> DEFINE p == Resize(b, w + len)
  <2>1. makeSpace(Layout(b, r, w), len) = Layout(p, r, w)
    BY <1>1 DEF makeSpace, Layout
  <2>2. \A i \in 1 .. w - r : p[r + i] = b[r + i]
    <3>1. \A i \in 1 .. w - r : r + i \in 1 .. w + len /\ r + i <= Len(b)
      OBVIOUS
    <3>2. \A i \in 1 .. w + len : i <= Len(b) => p[i] = b[i]
      BY DEF Resize
    <3> QED
      BY <3>1, <3>2
  <2> HIDE DEF p
  <2>3. Holds(p, r, w, c)
    BY <2>2 DEF Holds
  <2> DEFINE m == makeSpace(Layout(b, r, w), len)
  <2>4. m.buf = p /\ m.reader = r /\ m.writer = w
    BY <2>1 DEF Layout
  <2> QED
    BY <2>3, <2>4
<1>2. CASE ~(Len(b) - w + r < len + kCheapPrepend)
  <2> DEFINE kept == SubSeq(b, r + 1, w)
             p == Put(b, kCheapPrepend, kept)
             m == makeSpace(Layout(b, r, w), len)
  <2>1. m = Layout(p, kCheapPrepend, kCheapPrepend + Len(kept))
    BY <1>2 DEF makeSpace, Layout
  <2>2. kept \in Seq(Byte) /\ Len(kept) = w - r /\ \A i \in 1 .. w - r : kept[i] = b[r + i]
    <3>1. \A i \in r + 1 .. w : b[i] \in Byte
      BY ElementOfSeq
    <3>2. /\ kept \in Seq(Byte) /\ Len(kept) = IF r + 1 <= w THEN w - (r + 1) + 1 ELSE 0
          /\ \A i \in 1 .. w - (r + 1) + 1 : kept[i] = b[(r + 1) + i - 1]
      <4>1. PICK a : a = r + 1
        OBVIOUS
      <4>2. a \in Int /\ w \in Int /\ \A i \in a .. w : b[i] \in Byte
        BY <3>1, <4>1
      <4>3. /\ SubSeq(b, a, w) \in Seq(Byte)
            /\ Len(SubSeq(b, a, w)) = IF a <= w THEN w - a + 1 ELSE 0
            /\ \A i \in 1 .. w - a + 1 : SubSeq(b, a, w)[i] = b[a + i - 1]
        BY ONLY <4>2, SubSeqProperties, SMTT(30)
      <4> QED
        BY <4>1, <4>3, Zenon
    <3> HIDE DEF kept
    <3>3. \A i \in 1 .. w - r : i \in 1 .. w - (r + 1) + 1 /\ (r + 1) + i - 1 = r + i
      OBVIOUS
    <3> QED
      BY <3>2, <3>3
  <2> HIDE DEF kept
  <2>3. kCheapPrepend + Len(kept) <= Len(b)
    BY <1>2, <2>2
  <2>4. \A i \in 1 .. w - r : p[kCheapPrepend + i] = c[i]
    <3>1. \A i \in 1 .. Len(kept) : p[kCheapPrepend + i] = kept[i]
      BY <2>2, <2>3, PutBytes
    <3> HIDE DEF p
    <3> QED
      BY <2>2, <3>1 DEF Holds
  <2>5. kCheapPrepend + Len(kept) - kCheapPrepend = w - r
    BY <2>2
  <2> HIDE DEF p
  <2>6. Holds(p, kCheapPrepend, kCheapPrepend + Len(kept), c)
    BY <2>4, <2>5 DEF Holds
  <2>7. m.buf = p /\ m.reader = kCheapPrepend /\ m.writer = kCheapPrepend + Len(kept)
    BY <2>1 DEF Layout
  <2> QED
    BY <2>6, <2>7
<1> QED
  BY <1>1, <1>2

\* d written behind what a layout holds.
LEMMA PutBehind ==
    ASSUME NEW b \in Seq(Byte), NEW r \in Nat, NEW w \in Nat, r <= w, NEW d \in Seq(Byte),
           w + Len(d) <= Len(b), NEW c, Holds(b, r, w, c), NEW e, Joined(e, c, d)
    PROVE  Holds(Put(b, w, d), r, w + Len(d), e)
<1> DEFINE p == Put(b, w, d)
<1>1. Len(b) \in Nat /\ Len(d) \in Nat /\ Len(c) = w - r /\ e \in Seq(Byte)
  BY DEF Holds, Joined
<1>2. /\ \A i \in 1 .. Len(d) : p[w + i] = d[i]
      /\ \A i \in 1 .. Len(b) : i \notin w + 1 .. w + Len(d) => p[i] = b[i]
  BY PutBytes
<1> HIDE DEF p
<1>3. ASSUME NEW i \in 1 .. w + Len(d) - r PROVE p[r + i] = e[i]
  <2>1. CASE i <= w - r
    <3>1. i \in 1 .. w - r /\ r + i \in 1 .. Len(b) /\ r + i \notin w + 1 .. w + Len(d)
      BY <1>1, <2>1
    <3> QED
      BY <1>1, <1>2, <3>1 DEF Holds, Joined
  <2>2. CASE ~(i <= w - r)
    <3> DEFINE j == i - (w - r)
    <3>1. j \in 1 .. Len(d) /\ r + i = w + j /\ i = Len(c) + j
      BY <1>1, <2>2
    <3> HIDE DEF j
    <3>2. e[Len(c) + j] = d[j]
      BY <3>1 DEF Joined
    <3> QED
      BY <1>2, <3>1, <3>2
  <2> QED
    BY <2>1, <2>2
<1>4. Len(e) = w + Len(d) - r
  BY <1>1 DEF Joined
<1>5. Holds(p, r, w + Len(d), e)
  BY <1>1, <1>3, <1>4 DEF Holds
<1> QED
  BY <1>5 DEF p

\* ensureWritableBytes keeps the bytes.
LEMMA RoomKeeps ==
    ASSUME NEW b \in Seq(Byte), NEW w \in 0 .. Len(b), NEW r \in 0 .. w,
           NEW len \in Nat, NEW c, Holds(b, r, w, c)
    PROVE  LET k == WithRoom(Layout(b, r, w), len)
           IN  Holds(k.buf, k.reader, k.writer, c)
<1> DEFINE k == WithRoom(Layout(b, r, w), len)
           m == makeSpace(Layout(b, r, w), len)
<1>1. Holds(k.buf, k.reader, k.writer, c)
  <2>1. CASE Len(b) - w < len
    <3>1. k = m
      BY <2>1 DEF WithRoom, Layout
    <3>2. Holds(m.buf, m.reader, m.writer, c)
      BY <2>1, SpaceKeeps
    <3> HIDE DEF k, m
    <3> QED
      BY <3>1, <3>2
  <2>2. CASE ~(Len(b) - w < len)
    <3>1. k = Layout(b, r, w)
      BY <2>2 DEF WithRoom, Layout
    <3> HIDE DEF k
    <3>2. k.buf = b /\ k.reader = r /\ k.writer = w
      BY <3>1 DEF Layout
    <3> QED
      BY <3>2
  <2> QED
    BY <2>1, <2>2
<1> QED
  BY <1>1

\* append.
LEMMA AppendedKeeps ==
    ASSUME NEW b \in Seq(Byte), NEW w \in 0 .. Len(b), NEW r \in 0 .. w,
           NEW d \in Seq(Byte), NEW c, Holds(b, r, w, c), NEW e, Joined(e, c, d)
    PROVE  LET m == Appended(Layout(b, r, w), d)
           IN  Holds(m.buf, m.reader, m.writer, e)
<1> DEFINE k == WithRoom(Layout(b, r, w), Len(d))
<1>1. /\ k.buf \in Seq(Byte) /\ k.reader \in Nat /\ k.writer \in Nat
      /\ k.reader <= k.writer /\ k.writer + Len(d) <= Len(k.buf)
      /\ Holds(k.buf, k.reader, k.writer, c)
  <2>1. /\ k.buf \in Seq(Byte) /\ k.reader \in Nat /\ k.writer = k.reader + (w - r)
        /\ k.writer + Len(d) <= Len(k.buf)
    BY RoomLayout
  <2>2. Holds(k.buf, k.reader, k.writer, c)
    BY RoomKeeps
  <2> HIDE DEF k
  <2> QED
    BY <2>1, <2>2
<1> DEFINE m == Appended(Layout(b, r, w), d)
<1>2. m = Layout(Put(k.buf, k.writer, d), k.reader, k.writer + Len(d))
  BY DEF Appended
<1> HIDE DEF k
<1>3. Holds(Put(k.buf, k.writer, d), k.reader, k.writer + Len(d), e)
  BY <1>1, PutBehind
<1>4. /\ m.buf = Put(k.buf, k.writer, d) /\ m.reader = k.reader
      /\ m.writer = k.writer + Len(d)
  BY <1>2 DEF Layout
<1> QED
  BY <1>3, <1>4

-----------------------------------------------------------------------------
\* The buffer holds what its user should find in it.
Kept == Holds(buf, readerIndex, writerIndex, content)

LEMMA KeptStep ==
    ASSUME Inv, Kept, [Next]_vars
    PROVE  Kept'
<1>0. /\ buf \in Seq(Byte) /\ content \in Seq(Byte) /\ kCheapPrepend \in Nat
      /\ writerIndex \in 0 .. Len(buf) /\ readerIndex \in 0 .. writerIndex
      /\ Len(content) = writerIndex - readerIndex
      /\ readerIndex \in Nat /\ writerIndex \in Nat /\ Len(buf) \in Nat
  BY BufferAssumption DEF Inv, IndexOrder, Kept, Holds
<1>1. ASSUME NEW d \in Data, append(d) PROVE Kept'
  <2>1. d \in Seq(Byte) /\ Joined(content \o d, content, d)
    BY <1>0, DataLength, Joins
  <2> DEFINE m == Appended(Layout(buf, readerIndex, writerIndex), d)
  <2>2. /\ buf' = m.buf /\ readerIndex' = m.reader /\ writerIndex' = m.writer
        /\ content' = content \o d
    BY <1>1 DEF append, Become, Moved, Now
  <2>3. Holds(m.buf, m.reader, m.writer, content \o d)
    BY <1>0, <2>1, AppendedKeeps DEF Kept
  <2> HIDE DEF m
  <2> QED
    BY <2>2, <2>3 DEF Kept
<1>2. ASSUME NEW d \in Data, readFd(d) PROVE Kept'
  <2>1. /\ d \in Seq(Byte) /\ content' = content \o d /\ Len(d) \in Nat
        /\ Joined(content \o d, content, d)
    BY <1>0, <1>2, DataLength, Joins DEF readFd
  <2>2. CASE Len(d) <= writableBytes
    <3>1. /\ buf' = Put(buf, writerIndex, d) /\ readerIndex' = readerIndex
          /\ writerIndex' = writerIndex + Len(d)
      BY <1>2, <2>2 DEF readFd, Become, Moved, Layout
    <3>2. writerIndex + Len(d) <= Len(buf) /\ readerIndex <= writerIndex
      BY <1>0, <2>1, <2>2
    <3>3. Holds(Put(buf, writerIndex, d), readerIndex, writerIndex + Len(d), content \o d)
      BY <1>0, <2>1, <3>2, PutBehind DEF Kept
    <3> QED
      BY <2>1, <3>1, <3>3 DEF Kept
  <2>3. CASE ~(Len(d) <= writableBytes)
    <3>1. PICK n : n = writableBytes
      OBVIOUS
    <3>2. PICK front : front = SubSeq(d, 1, n)
      OBVIOUS
    <3>3. PICK rest : rest = SubSeq(d, n + 1, Len(d))
      OBVIOUS
    <3>4. n \in Nat /\ n < Len(d) /\ writerIndex + n = Len(buf)
      BY <1>0, <2>1, <2>3, <3>1
    <3>5. /\ front \in Seq(Byte) /\ Len(front) = n
          /\ \A i \in 1 .. n : front[i] = d[i]
      <4>1. \A i \in 1 .. n : d[i] \in Byte
        BY <2>1, <3>4, ElementOfSeq
      <4>2. /\ SubSeq(d, 1, n) \in Seq(Byte)
            /\ Len(SubSeq(d, 1, n)) = IF 1 <= n THEN n - 1 + 1 ELSE 0
            /\ \A i \in 1 .. n - 1 + 1 : SubSeq(d, 1, n)[i] = d[1 + i - 1]
        BY ONLY <3>4, <4>1, SubSeqProperties, SMTT(30)
      <4>3. n - 1 + 1 = n /\ \A i \in 1 .. n : 1 + i - 1 = i
        BY <3>4
      <4> QED
        BY <3>2, <3>4, <4>2, <4>3
    <3>6. /\ rest \in Seq(Byte) /\ Len(rest) = Len(d) - n
          /\ \A i \in 1 .. Len(d) - n : rest[i] = d[n + i]
      <4>1. PICK a : a = n + 1
        OBVIOUS
      <4>2. PICK l \in Nat : l = Len(d)
        BY <2>1
      <4>3. a \in Int /\ l \in Int /\ \A i \in a .. l : d[i] \in Byte
        BY <2>1, <3>4, <4>1, <4>2, ElementOfSeq
      <4>4. /\ SubSeq(d, a, l) \in Seq(Byte)
            /\ Len(SubSeq(d, a, l)) = IF a <= l THEN l - a + 1 ELSE 0
            /\ \A i \in 1 .. l - a + 1 : SubSeq(d, a, l)[i] = d[a + i - 1]
        BY ONLY <4>3, SubSeqProperties, SMTT(30)
      <4>5. rest = SubSeq(d, a, l)
        BY <3>3, <4>1, <4>2
      <4>6. /\ a <= l /\ l - a + 1 = Len(d) - n
            /\ \A i \in 1 .. Len(d) - n : i \in 1 .. l - a + 1 /\ a + i - 1 = n + i
        BY <3>4, <4>1, <4>2
      <4> QED
        BY <4>4, <4>5, <4>6
    <3>7. PICK p : p = Put(buf, writerIndex, front)
      OBVIOUS
    <3>8. /\ p \in Seq(Byte) /\ Len(p) = Len(buf)
          /\ Holds(p, readerIndex, Len(buf), content \o front)
      <4>1. Joined(content \o front, content, front)
        BY <1>0, <3>5, Joins
      <4>2. Holds(p, readerIndex, writerIndex + Len(front), content \o front)
        <5>1. readerIndex <= writerIndex /\ writerIndex + Len(front) <= Len(buf)
          BY <1>0, <3>4, <3>5
        <5> QED
          BY <1>0, <3>5, <3>7, <4>1, <5>1, PutBehind DEF Kept
      <4> QED
        BY <1>0, <3>4, <3>5, <3>7, <4>2, PutType
    <3>9. Joined(content \o d, content \o front, rest)
      <4>1. PICK e, g : e = content \o d /\ g = content \o front
        OBVIOUS
      <4>2. Joined(e, content, d) /\ Joined(g, content, front)
        BY <1>0, <2>1, <3>5, <4>1, Joins
      <4>3. /\ e \in Seq(Byte) /\ Len(g) = Len(content) + n
            /\ Len(e) = Len(g) + Len(rest)
        BY <1>0, <2>1, <3>4, <3>5, <3>6, <4>2 DEF Joined
      <4>4. ASSUME NEW i \in 1 .. Len(g) PROVE e[i] = g[i]
        <5>1. CASE i \in 1 .. Len(content)
          BY <4>2, <5>1 DEF Joined
        <5>2. CASE i \notin 1 .. Len(content)
          <6>1. PICK j \in 1 .. n : i = Len(content) + j
            <7>1. i - Len(content) \in 1 .. n /\ i = Len(content) + (i - Len(content))
              BY <1>0, <3>4, <4>3, <5>2
            <7> QED
              BY <7>1
          <6>2. j \in 1 .. Len(d) /\ j \in 1 .. Len(front)
            BY <2>1, <3>4, <3>5
          <6>3. e[Len(content) + j] = d[j] /\ g[Len(content) + j] = front[j]
            BY <4>2, <6>2 DEF Joined
          <6> QED
            BY <3>5, <6>1, <6>3
        <5> QED
          BY <5>1, <5>2
      <4>5. ASSUME NEW i \in 1 .. Len(rest) PROVE e[Len(g) + i] = rest[i]
        <5>1. n + i \in 1 .. Len(d) /\ Len(g) + i = Len(content) + (n + i)
          BY <1>0, <2>1, <3>4, <3>6, <4>3
        <5>2. e[Len(content) + (n + i)] = d[n + i]
          BY <4>2, <5>1 DEF Joined
        <5> QED
          BY <3>6, <5>1, <5>2
      <4> QED
        BY <4>1, <4>3, <4>4, <4>5 DEF Joined
    <3>10. PICK m : m = Appended(Layout(p, readerIndex, Len(buf)), rest)
      OBVIOUS
    <3>11. /\ buf' = m.buf /\ readerIndex' = m.reader /\ writerIndex' = m.writer
      BY <1>2, <2>3, <3>1, <3>2, <3>3, <3>7, <3>10 DEF readFd, Become, Moved
    <3>12. Holds(m.buf, m.reader, m.writer, content \o d)
      <4>1. PICK l : l = Len(buf)
        OBVIOUS
      <4>2. l \in 0 .. Len(p) /\ readerIndex \in 0 .. l
        BY <1>0, <3>8, <4>1
      <4>3. Holds(p, readerIndex, l, content \o front) /\ m = Appended(Layout(p, readerIndex, l), rest)
        BY <3>8, <3>10, <4>1
      <4> QED
        BY <3>6, <3>8, <3>9, <4>2, <4>3, AppendedKeeps
    <3> QED
      BY <2>1, <3>11, <3>12 DEF Kept
  <2> QED
    BY <2>2, <2>3
<1>3. ASSUME NEW d \in Data, prepend(d) PROVE Kept'
  <2>1. d \in Seq(Byte) /\ Len(d) \in Nat /\ Joined(d \o content, d, content)
    BY <1>0, DataLength, Joins
  <2>2. CASE Len(d) > prependableBytes
    BY <1>3, <2>2 DEF prepend, Kept
  <2>3. CASE ~(Len(d) > prependableBytes)
    <3>1. PICK a : a = readerIndex - Len(d)
      OBVIOUS
    <3>2. PICK p : p = Put(buf, a, d)
      OBVIOUS
    <3>3. PICK e : e = d \o content
      OBVIOUS
    <3>4. /\ buf' = p /\ readerIndex' = a /\ writerIndex' = writerIndex /\ content' = e
      BY <1>3, <2>3, <3>1, <3>2, <3>3 DEF prepend
    <3>5. /\ a \in Nat /\ a + Len(d) = readerIndex /\ a + Len(d) <= Len(buf)
      BY <1>0, <2>1, <2>3, <3>1
    <3>6. /\ \A i \in 1 .. Len(d) : p[a + i] = d[i]
          /\ \A i \in 1 .. Len(buf) : i \notin a + 1 .. a + Len(d) => p[i] = buf[i]
      BY <1>0, <2>1, <3>2, <3>5, PutBytes
    <3>7. /\ e \in Seq(Byte) /\ Len(e) = writerIndex - a
      <4>1. e \in Seq(Byte) /\ Len(e) = Len(d) + Len(content)
        BY <2>1, <3>3 DEF Joined
      <4>2. /\ Len(content) = writerIndex - readerIndex /\ a = readerIndex - Len(d)
            /\ readerIndex \in Nat /\ writerIndex \in Nat
        BY <1>0, <3>1
      <4>3. PICK k \in Nat, c \in Nat : k = Len(d) /\ c = Len(content)
        BY <1>0, <2>1
      <4>4. k + c = writerIndex - a
        BY ONLY <4>2, <4>3
      <4> QED
        BY <4>1, <4>3, <4>4
    <3>8. ASSUME NEW i \in 1 .. writerIndex - a PROVE p[a + i] = e[i]
      <4>1. CASE i \in 1 .. Len(d)
        BY <2>1, <3>3, <3>6, <4>1 DEF Joined
      <4>2. CASE i \notin 1 .. Len(d)
        <5>1. PICK j \in 1 .. Len(content) : i = Len(d) + j
          <6>1. i - Len(d) \in 1 .. Len(content) /\ i = Len(d) + (i - Len(d))
            BY <1>0, <2>1, <3>5, <4>2
          <6> QED
            BY <6>1
        <5>2. e[Len(d) + j] = content[j]
          BY <2>1, <3>3 DEF Joined
        <5>3. /\ a + i = readerIndex + j /\ readerIndex + j \in 1 .. Len(buf)
              /\ readerIndex + j \notin a + 1 .. a + Len(d) /\ j \in 1 .. writerIndex - readerIndex
          <6>1. PICK k \in Nat : k = Len(d)
            BY <2>1
          <6>2. /\ j \in 1 .. writerIndex - readerIndex /\ a + k = readerIndex /\ i = k + j
                /\ readerIndex \in Nat /\ writerIndex \in Nat /\ a \in Nat
                /\ writerIndex <= Len(buf) /\ Len(buf) \in Nat
            BY <1>0, <3>5, <5>1, <6>1
          <6>3. /\ a + i = readerIndex + j /\ readerIndex + j \in 1 .. Len(buf)
                /\ readerIndex + j \notin a + 1 .. a + k
            BY ONLY <6>1, <6>2
          <6> QED
            BY <6>1, <6>2, <6>3
        <5>4. buf[readerIndex + j] = content[j]
          BY <5>3 DEF Kept, Holds
        <5> QED
          BY <3>6, <5>1, <5>2, <5>3, <5>4
      <4> QED
        BY <4>1, <4>2
    <3> QED
      BY <3>4, <3>7, <3>8 DEF Kept, Holds
  <2> QED
    BY <2>2, <2>3
<1>4. ASSUME NEW n \in Nat, retrieve(n) PROVE Kept'
  <2>1. PICK l \in Nat : l = Len(content)
    BY <1>0
  <2>2. PICK a : a = n + 1
    OBVIOUS
  <2>3. PICK e : e = SubSeq(content, a, l)
    OBVIOUS
  <2>4. content' = e /\ buf' = buf
    BY <1>4, <2>1, <2>2, <2>3 DEF retrieve
  <2>5. /\ e \in Seq(Byte) /\ Len(e) = IF a <= l THEN l - a + 1 ELSE 0
        /\ \A i \in 1 .. l - a + 1 : e[i] = content[a + i - 1]
    <3>1. a \in Int /\ l \in Int /\ \A i \in a .. l : content[i] \in Byte
      BY <1>0, <2>1, <2>2, ElementOfSeq
    <3> QED
      BY ONLY <2>3, <3>1, SubSeqProperties, SMTT(30)
  <2>6. CASE n < readableBytes
    <3>1. readerIndex' = readerIndex + n /\ writerIndex' = writerIndex
      BY <1>4, <2>6 DEF retrieve
    <3>2. Len(e) = writerIndex - (readerIndex + n)
      BY <1>0, <2>1, <2>2, <2>5, <2>6
    <3>3. ASSUME NEW i \in 1 .. writerIndex - (readerIndex + n)
          PROVE  buf[(readerIndex + n) + i] = e[i]
      <4>1. /\ i \in 1 .. l - a + 1 /\ a + i - 1 = n + i /\ n + i \in 1 .. writerIndex - readerIndex
            /\ (readerIndex + n) + i = readerIndex + (n + i)
        BY <1>0, <2>1, <2>2
      <4>2. buf[readerIndex + (n + i)] = content[n + i]
        BY <4>1 DEF Kept, Holds
      <4> QED
        BY <2>5, <4>1, <4>2
    <3> QED
      BY <2>4, <2>5, <3>1, <3>2, <3>3 DEF Kept, Holds
  <2>7. CASE ~(n < readableBytes)
    <3>1. readerIndex' = kCheapPrepend /\ writerIndex' = kCheapPrepend
      BY <1>4, <2>7 DEF retrieve
    <3>2. Len(e) = 0 /\ kCheapPrepend - kCheapPrepend = 0
      BY <1>0, <2>1, <2>2, <2>5, <2>7
    <3> QED
      BY <2>4, <2>5, <3>1, <3>2 DEF Kept, Holds
  <2> QED
    BY <2>6, <2>7
<1>5. CASE retrieveAll
  BY <1>0, <1>4, <1>5 DEF retrieveAll
<1>6. CASE UNCHANGED vars
  BY <1>6 DEF Kept
<1>7. \A n \in 0 .. MaxLen : n \in Nat
  OBVIOUS
<1>8. ASSUME NEW n \in 0 .. MaxLen, ensureWritableBytes(n) PROVE Kept'
  <2> DEFINE k == WithRoom(Layout(buf, readerIndex, writerIndex), n)
  <2>1. buf' = k.buf /\ readerIndex' = k.reader /\ writerIndex' = k.writer /\ content' = content
    BY <1>8 DEF ensureWritableBytes, Moved, Now
  <2>2. Holds(k.buf, k.reader, k.writer, content)
    BY <1>0, <1>7, RoomKeeps DEF Kept
  <2> HIDE DEF k
  <2> QED
    BY <2>1, <2>2 DEF Kept
<1> QED
  BY <1>1, <1>2, <1>3, <1>4, <1>5, <1>6, <1>7, <1>8 DEF Next

\* What a user finds in the buffer is what was put into it, in order and
\* unchanged, whichever way makeSpace made room and wherever readFd put the
\* bytes that did not fit.
THEOREM BytesKept == Spec => []ContentKept
<1>1. Init => Kept
  <2> SUFFICES ASSUME Init PROVE Kept
    OBVIOUS
  <2>1. content = << >> /\ writerIndex - readerIndex = 0
    BY BufferAssumption DEF Init
  <2>2. content \in Seq(Byte) /\ Len(content) = 0
    BY <2>1
  <2> QED
    BY <2>1, <2>2 DEF Kept, Holds
<1>2. Inv /\ Kept => ContentKept
  <2> SUFFICES ASSUME Inv, Kept PROVE Readable = content
    BY DEF ContentKept
  <2>1. /\ buf \in Seq(Byte) /\ content \in Seq(Byte) /\ Len(content) = writerIndex - readerIndex
        /\ writerIndex \in 0 .. Len(buf) /\ readerIndex \in 0 .. writerIndex
        /\ readerIndex \in Nat /\ writerIndex \in Nat
    BY DEF Inv, IndexOrder, Kept, Holds
  <2>2. PICK a, w, e : a = readerIndex + 1 /\ w = writerIndex /\ e = SubSeq(buf, a, w)
    OBVIOUS
  <2>3. a \in Int /\ w \in Int /\ \A i \in a .. w : buf[i] \in Byte
    BY <2>1, <2>2, ElementOfSeq
  <2>4. /\ e \in Seq(Byte) /\ Len(e) = IF a <= w THEN w - a + 1 ELSE 0
        /\ \A i \in 1 .. w - a + 1 : e[i] = buf[a + i - 1]
    BY ONLY <2>2, <2>3, SubSeqProperties, SMTT(30)
  <2>5. Len(e) = writerIndex - readerIndex
    BY <2>1, <2>2, <2>4
  <2>6. ASSUME NEW i \in 1 .. writerIndex - readerIndex PROVE e[i] = content[i]
    <3>1. i \in 1 .. w - a + 1 /\ a + i - 1 = readerIndex + i
      BY <2>1, <2>2
    <3> QED
      BY <2>4, <3>1 DEF Kept, Holds
  <2>7. e = content
    BY <2>1, <2>4, <2>5, <2>6
  <2> QED
    BY <2>2, <2>7 DEF Readable
<1>3. Inv /\ Kept /\ [Next]_vars => Kept'
  BY KeptStep
<1> QED
  BY <1>1, <1>2, <1>3, Invariance, PTL DEF Spec
=============================================================================
