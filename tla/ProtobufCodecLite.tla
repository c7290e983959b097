------------------------- MODULE ProtobufCodecLite -------------------------
(***************************************************************************)
(* The codec: messages become frames <<size, tag, payload, checksum>> on   *)
(* one side, and the bytes of a connection, which arrive in pieces of any  *)
(* size, become messages again on the other.                               *)
(*                                                                         *)
(* A byte is known by the frame it belongs to and its place there.  A size *)
(* read where no frame starts may come out as anything, and a body that is *)
(* not one frame's fails the checksum, the tag or the parse.               *)
(***************************************************************************)
EXTENDS Naturals, Sequences

CONSTANTS Payloads,        \* lengths a serialized message may have
          TagLen,
          kHeaderLen, kChecksumLen, kMaxMessageLen,
          ReadMax,         \* the most bytes one readFd brings
          MaxFrames        \* bound: frames sent

ASSUME CodecAssumption ==
    /\ Payloads \subseteq Nat
    /\ TagLen \in Nat /\ kHeaderLen \in Nat \ {0} /\ kChecksumLen \in Nat \ {0}
    /\ kMaxMessageLen \in Nat
    /\ ReadMax \in Nat \ {0} /\ MaxFrames \in Nat

VARIABLES sent,       \* history: of each frame sent, the value of its size field
          wire,       \* bytes on the way
          inBuf,      \* the connection's _inBuf
          pc,         \* onMessage: "out", at its "while", or in the "callback"
          delivered,  \* history: frames handed to _messageCallback
          exited      \* defaultErrorCallback has called exit(-1)

codecVars == <<sent, wire, inBuf, pc, delivered, exited>>

kMinMessageLen == TagLen + kChecksumLen
retrieve(s, n) == SubSeq(s, n + 1, Len(s))

FrameByte == [frame : 1 .. MaxFrames, pos : Nat]
Frame(i, len) == [k \in 1 .. kHeaderLen + len |-> [frame |-> i, pos |-> k]]

CodecInit ==
    /\ sent = << >> /\ wire = << >> /\ inBuf = << >>
    /\ pc = "out" /\ delivered = << >> /\ exited = FALSE

-----------------------------------------------------------------------------
(* The sender: nothing checks the length of what is serialized. *)

send(p) ==
    /\ Len(sent) < MaxFrames
    /\ LET len == TagLen + p + kChecksumLen
       IN  /\ sent' = Append(sent, len)
           /\ wire' = wire \o Frame(Len(sent) + 1, len)
    /\ UNCHANGED <<inBuf, pc, delivered, exited>>

\* TcpConnection::handleRead: some bytes arrive and onMessage is called.
handleRead ==
    /\ ~exited /\ pc = "out"
    /\ \E n \in 1 .. Len(wire) :
          /\ n <= ReadMax
          /\ inBuf' = inBuf \o SubSeq(wire, 1, n)
          /\ wire' = retrieve(wire, n)
    /\ pc' = "while"
    /\ UNCHANGED <<sent, delivered, exited>>

-----------------------------------------------------------------------------
(* The receiver's loop. *)

\* What the first bytes, read as a size, may come out as.
FrameStarts ==
    \A k \in 1 .. kHeaderLen : inBuf[k] = [frame |-> inBuf[1].frame, pos |-> k]
Sizes == IF FrameStarts THEN {sent[inBuf[1].frame]} ELSE 0 .. kMaxMessageLen + 1

ValidLength(len) == kMinMessageLen <= len /\ len <= kMaxMessageLen

\* parse(): the body is a frame's, whole.
Parses(len) ==
    /\ FrameStarts /\ len = sent[inBuf[1].frame]
    /\ \A k \in 1 .. kHeaderLen + len : inBuf[k].frame = inBuf[1].frame /\ inBuf[k].pos = k

\* The loop ends: too little for any frame, or for this one.
Bug_needsOneMore ==
    /\ ~exited /\ pc = "while"
    /\ \/ Len(inBuf) <= kMinMessageLen + kHeaderLen
       \/ /\ Len(inBuf) > kMinMessageLen + kHeaderLen
          /\ \E len \in Sizes : ValidLength(len) /\ Len(inBuf) < kHeaderLen + len
    /\ pc' = "out"
    /\ UNCHANGED <<sent, wire, inBuf, delivered, exited>>

leaveLoop ==
    /\ ~exited /\ pc = "while"
    /\ \/ Len(inBuf) < kMinMessageLen + kHeaderLen
       \/ /\ Len(inBuf) >= kMinMessageLen + kHeaderLen
          /\ \E len \in Sizes : ValidLength(len) /\ Len(inBuf) < kHeaderLen + len
    /\ pc' = "out"
    /\ UNCHANGED <<sent, wire, inBuf, delivered, exited>>

\* A frame is there: its message goes to the callback, its bytes stay.
deliver ==
    /\ ~exited /\ pc = "while" /\ Len(inBuf) >= kMinMessageLen + kHeaderLen
    /\ \E len \in Sizes :
          ValidLength(len) /\ Len(inBuf) >= kHeaderLen + len /\ Parses(len)
    /\ delivered' = Append(delivered, inBuf[1].frame)
    /\ pc' = "callback"
    /\ UNCHANGED <<sent, wire, inBuf, exited>>

\* The callback returns and the frame's bytes are taken out.
Bug_keepsFrame ==
    /\ pc = "callback"
    /\ pc' = "while"
    /\ UNCHANGED <<sent, wire, inBuf, delivered, exited>>

callbackReturns ==
    /\ pc = "callback"
    /\ inBuf' = retrieve(inBuf, kHeaderLen + sent[inBuf[1].frame])
    /\ pc' = "while"
    /\ UNCHANGED <<sent, wire, delivered, exited>>

\* Nothing of the kind: the error callback ends the process.
defaultErrorCallback ==
    /\ ~exited /\ pc = "while" /\ Len(inBuf) >= kMinMessageLen + kHeaderLen
    /\ \E len \in Sizes :
          \/ ~ValidLength(len)
          \/ Len(inBuf) >= kHeaderLen + len /\ ~Parses(len)
    /\ exited' = TRUE
    /\ UNCHANGED <<sent, wire, inBuf, pc, delivered>>

-----------------------------------------------------------------------------
onMessage == leaveLoop \/ deliver \/ callbackReturns \/ defaultErrorCallback

CodecNext == \/ \E p \in Payloads : send(p)
        \/ handleRead
        \/ onMessage

\* The loop reads what arrives, and onMessage and its callbacks return.
CodecFairness == WF_codecVars(handleRead) /\ WF_codecVars(onMessage)

CodecSpec == CodecInit /\ [][CodecNext]_codecVars /\ CodecFairness

-----------------------------------------------------------------------------
(***************************************************************************)
(* Properties.                                                             *)
(***************************************************************************)
\* Messages are handed up once each and in the order they were sent, however
\* the bytes were cut on the way.
FramesInOrder == \A i \in DOMAIN delivered : delivered[i] = i

\* Every message sent is handed up, unless the process has ended for one, this
\* one or an earlier, that is too long to receive.
EveryMessageDelivered ==
    \A i \in 1 .. MaxFrames :
        Len(sent) >= i ~> \/ Len(delivered) >= i
                          \/ exited /\ \E j \in 1 .. i : sent[j] > kMaxMessageLen
=============================================================================
