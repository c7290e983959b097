------------------------------ MODULE Buffer -------------------------------
(***************************************************************************)
(* Buffer: one vector, cut by two indices into room for a header, the      *)
(* bytes to be read and room to write.  When the room to write is short,   *)
(* makeSpace either moves the readable bytes down or grows the vector.     *)
(*                                                                         *)
(* The vector's element i is buf[i + 1].                                   *)
(***************************************************************************)
EXTENDS Naturals, Sequences

CONSTANTS Byte,
          Zero,           \* what resize() fills with
          kCheapPrepend,
          InitialSize,
          ExtraLen,       \* sizeof extrabuf in readFd
          MaxLen,         \* bound: bytes of one call
          MaxReadable     \* bound: bytes held at once

ASSUME BufferAssumption ==
    /\ Zero \in Byte
    /\ kCheapPrepend \in Nat /\ InitialSize \in Nat
    /\ ExtraLen \in Nat \ {0}
    /\ MaxLen \in Nat /\ MaxReadable \in Nat

VARIABLES buf, readerIndex, writerIndex,
          content,   \* history: the bytes the user should find
          peak,      \* history: the most bytes held, or made room for, at once
          headed     \* history: "yes" once bytes were put in front, until
                     \* readerIndex returns to kCheapPrepend

indices == <<readerIndex, writerIndex>>
vars == <<buf, indices, content, peak, headed>>

Size == Len(buf)
readableBytes == writerIndex - readerIndex
writableBytes == Size - writerIndex
prependableBytes == readerIndex
Readable == SubSeq(buf, readerIndex + 1, writerIndex)

Data == UNION {[1 .. n -> Byte] : n \in 1 .. MaxLen}

\* d copied into b from index at on (std::copy, readv).
Put(b, at, d) ==
    [i \in 1 .. Len(b) |-> IF i \in at + 1 .. at + Len(d) THEN d[i - at] ELSE b[i]]
Resize(b, n) ==
    [i \in 1 .. n |-> IF i <= Len(b) THEN b[i] ELSE Zero]

Init ==
    /\ buf = [i \in 1 .. kCheapPrepend + InitialSize |-> Zero]
    /\ readerIndex = kCheapPrepend /\ writerIndex = kCheapPrepend
    /\ content = << >> /\ peak = 0 /\ headed = "no"

Larger(m, n) == IF m < n THEN n ELSE m
Held == peak' = Larger(peak, writerIndex' - readerIndex')

-----------------------------------------------------------------------------
(***************************************************************************)
(* makeSpace(len) as a function of the vector and its indices, so that the *)
(* operations that call it half way can go on from its result.             *)
(***************************************************************************)
Layout(b, r, w) == [buf |-> b, reader |-> r, writer |-> w]

Bug_alwaysGrows(l, len) ==
    Layout(Resize(l.buf, l.writer + len), l.reader, l.writer)

Bug_movesToZero(l, len) ==
    IF Len(l.buf) - l.writer + l.reader < len + kCheapPrepend
    THEN Layout(Resize(l.buf, l.writer + len), l.reader, l.writer)
    ELSE LET kept == SubSeq(l.buf, l.reader + 1, l.writer)
         IN  Layout(Put(l.buf, 0, kept), 0, Len(kept))

makeSpace(l, len) ==
    IF Len(l.buf) - l.writer + l.reader < len + kCheapPrepend
    THEN Layout(Resize(l.buf, l.writer + len), l.reader, l.writer)
    ELSE LET kept == SubSeq(l.buf, l.reader + 1, l.writer)
         IN  Layout(Put(l.buf, kCheapPrepend, kept),
                    kCheapPrepend, kCheapPrepend + Len(kept))

\* The first half of append.
WithRoom(l, len) ==
    IF Len(l.buf) - l.writer < len THEN makeSpace(l, len) ELSE l

Appended(l, d) ==
    LET m == WithRoom(l, Len(d))
    IN  Layout(Put(m.buf, m.writer, d), m.reader, m.writer + Len(d))

Moved(l) ==
    /\ buf' = l.buf /\ readerIndex' = l.reader /\ writerIndex' = l.writer
    /\ headed' = IF l.reader = kCheapPrepend THEN "no" ELSE headed
Become(l) == Moved(l) /\ Held

Now == Layout(buf, readerIndex, writerIndex)

-----------------------------------------------------------------------------
append(d) ==
    /\ readableBytes + Len(d) <= MaxReadable
    /\ content' = content \o d
    /\ Become(Appended(Now, d))

\* serializeToBuffer asks for room for the message and its checksum, and then
\* writes the message there: an append that finds room.
ensureWritableBytes(len) ==
    /\ readableBytes + len <= MaxReadable
    /\ Moved(WithRoom(Now, len))
    /\ peak' = Larger(peak, readableBytes + len)
    /\ UNCHANGED content

\* readv fills the room to write first, then extrabuf, which is appended.
Bug_extraForgotten(d) ==
    /\ readableBytes + Len(d) <= MaxReadable
    /\ Len(d) <= writableBytes + (IF writableBytes < ExtraLen THEN ExtraLen ELSE 0)
    /\ content' = content \o d
    /\ IF Len(d) <= writableBytes
       THEN Become(Layout(Put(buf, writerIndex, d), readerIndex, writerIndex + Len(d)))
       ELSE Become(Layout(Put(buf, writerIndex, SubSeq(d, 1, writableBytes)),
                          readerIndex, Size))

readFd(d) ==
    /\ readableBytes + Len(d) <= MaxReadable
    /\ Len(d) <= writableBytes + (IF writableBytes < ExtraLen THEN ExtraLen ELSE 0)
    /\ content' = content \o d
    /\ IF Len(d) <= writableBytes
       THEN Become(Layout(Put(buf, writerIndex, d), readerIndex, writerIndex + Len(d)))
       ELSE Become(Appended(Layout(Put(buf, writerIndex, SubSeq(d, 1, writableBytes)),
                                   readerIndex, Size),
                            SubSeq(d, writableBytes + 1, Len(d))))

\* A header that does not fit is dropped with a message on the console.
prepend(d) ==
    /\ readableBytes + Len(d) <= MaxReadable
    /\ IF Len(d) > prependableBytes
       THEN UNCHANGED vars
       ELSE /\ buf' = Put(buf, readerIndex - Len(d), d)
            /\ readerIndex' = readerIndex - Len(d)
            /\ headed' = "yes"
            /\ content' = d \o content
            /\ UNCHANGED writerIndex
            /\ Held

\* retrieve, retrieveAsString.
retrieve(n) ==
    /\ content' = SubSeq(content, n + 1, Len(content))
    /\ IF n < readableBytes
       THEN /\ readerIndex' = readerIndex + n
            /\ UNCHANGED <<writerIndex, headed>>
       ELSE /\ readerIndex' = kCheapPrepend /\ writerIndex' = kCheapPrepend
            /\ headed' = "no"
    /\ UNCHANGED <<buf, peak>>

retrieveAll == retrieve(readableBytes)

-----------------------------------------------------------------------------
Next == \/ \E d \in Data : append(d) \/ readFd(d) \/ prepend(d)
        \/ \E n \in 0 .. MaxLen : retrieve(n) \/ ensureWritableBytes(n)
        \/ retrieveAll

Spec == Init /\ [][Next]_vars

-----------------------------------------------------------------------------
(***************************************************************************)
(* Properties.                                                             *)
(***************************************************************************)
\* The diagram in Buffer.h: 0 <= readerIndex <= writerIndex <= size, kept by
\* every operation although each trusts its caller's lengths.
IndexOrder ==
    /\ buf \in Seq(Byte)
    /\ readerIndex \in 0 .. writerIndex
    /\ writerIndex \in 0 .. Size
    /\ peak \in Nat
    /\ headed \in {"no", "yes"}
    /\ content \in Seq(Byte)

\* Unless bytes were already put in front, there is room there for
\* kCheapPrepend: the codec's fillEmptyBuffer prepends the size last, after
\* any number of appends, and prepend would drop it with no error.
HeaderFits == headed = "no" => readerIndex >= kCheapPrepend

\* The vector never outgrows what it had to have room for: growing without moving
\* (makeSpace's FIXME) wastes less than kCheapPrepend and one call's bytes.
CapacityBound ==
    \/ Size = kCheapPrepend + InitialSize
    \/ Size < kCheapPrepend + peak + MaxLen

\* The readable bytes are those the calls put in and did not take out, in
\* order: none is lost, repeated or garbled, wherever makeSpace moves them.
ContentKept == Readable = content
=============================================================================
