-------------------------------- MODULE Transport --------------------------------
(***************************************************************************)
(* One direction of a connection: frames are encoded, written to a TCP     *)
(* socket in as many pieces as send takes, read from it in as many pieces  *)
(* as recv returns, and decoded.  Either process can go away between any   *)
(* two pieces.  TCP delivers the bytes in order; a byte is a position in   *)
(* its frame, and what the decoder looks at is a field of the frame.       *)
(*                                                                         *)
(* encode_frame writes the magic, the version, the type and the checksum   *)
(* as the decoder wants them.  Frames may also hold what a peer of another *)
(* version, or none of this program, would write.                          *)
(***************************************************************************)
EXTENDS Naturals, Sequences

CONSTANTS
    Frames,             \* what can be written to the connection
    MessageType,        \* the type codes that decode_frame knows
    kProtoMaxPayload,
    MaxFrames           \* bound on the frames sent over the connection

ASSUME TransportAssumption ==
    /\ Frames \subseteq [magic : BOOLEAN, version : Nat, type : Nat, payload : Nat,
                         checksum : BOOLEAN]
    /\ kProtoMaxPayload \in Nat /\ MaxFrames \in Nat

VARIABLES
    sent,       \* frames given to send_frame
    written,    \* bytes of the last of them that the socket has taken
    up,         \* the sender has not closed the connection
    receiver,   \* recv_frame is reading the "HEADER" or the "PAYLOAD", or has "FAILED"
    got,        \* bytes read of the frame that comes next
    delivered   \* frames returned by recv_frame

transportVars == <<sent, written, up, receiver, got, delivered>>

kProtoVersion == 1
kProtoHeaderSize == 16

\* The length of the frame on the wire: twelve bytes up to the length of the
\* payload, the payload, and the checksum behind it.
encode_frame(f) == 12 + f.payload + 4

\* The receiver counts the checksum to the header: what it calls header are
\* the first sixteen bytes, the payload's first four perhaps among them.
FrameEnd_Fault(f) == kProtoHeaderSize + f.payload + 4

FrameEnd(f) == kProtoHeaderSize + f.payload

\* What recv_frame tests of the header before it makes room for the rest.
HeaderAllowed_Fault(f) == f.magic /\ f.version = kProtoVersion

HeaderAllowed(f) ==
    f.magic /\ f.version = kProtoVersion /\ f.payload <= kProtoMaxPayload

\* decode_frame tests the header again, then the checksum and the type.
decode_frame_Fault(f) == HeaderAllowed(f) /\ f.type \in MessageType

decode_frame(f) == HeaderAllowed(f) /\ f.checksum /\ f.type \in MessageType

-------------------------------------------------------------------------------
(* The sender. *)
Sending == sent # <<>> /\ written < encode_frame(sent[Len(sent)])

send_frame(f) ==
    /\ up /\ ~Sending
    /\ Len(sent) < MaxFrames
    /\ sent' = Append(sent, f)
    /\ written' = 0
    /\ UNCHANGED <<up, receiver, got, delivered>>

\* One call of send takes n bytes.
send_piece(n) ==
    /\ up /\ Sending
    /\ written + n <= encode_frame(sent[Len(sent)])
    /\ written' = written + n
    /\ UNCHANGED <<sent, up, receiver, got, delivered>>

\* The connection is closed, or its process dies, perhaps inside a frame.
close ==
    /\ up
    /\ up' = FALSE
    /\ UNCHANGED <<sent, written, receiver, got, delivered>>

-------------------------------------------------------------------------------
(* The receiver. *)
Current == Len(delivered) + 1

\* Bytes of the current frame that have reached the receiver's socket.
Arrived ==
    IF Current > Len(sent) THEN 0
    ELSE IF Current = Len(sent) THEN written ELSE encode_frame(sent[Current])

Fail == receiver' = "FAILED" /\ UNCHANGED <<got, delivered>>

\* The frame has been read to the end.
Decode ==
    IF decode_frame(sent[Current])
    THEN /\ delivered' = Append(delivered, sent[Current])
         /\ receiver' = "HEADER" /\ got' = 0
    ELSE Fail

\* The header has been read to the end.
ReadHeader ==
    IF ~HeaderAllowed(sent[Current]) THEN Fail
    ELSE IF sent[Current].payload = 0 THEN Decode
    ELSE receiver' = "PAYLOAD" /\ got' = kProtoHeaderSize /\ UNCHANGED delivered

\* One turn of recv_all: recv returned k bytes of the part of the frame that
\* ends at byte `end`, which the loop reads to the end.
recv_all_Fault(k, end) ==
    /\ got + k <= end /\ got + k <= Arrived
    /\ IF got + k < end THEN Fail
       ELSE IF receiver = "HEADER" THEN ReadHeader ELSE Decode

recv_all(k, end) ==
    /\ got + k <= end /\ got + k <= Arrived
    /\ IF got + k < end THEN got' = got + k /\ UNCHANGED <<receiver, delivered>>
       ELSE IF receiver = "HEADER" THEN ReadHeader ELSE Decode

recv_frame(k) ==
    /\ \/ receiver = "HEADER" /\ recv_all(k, kProtoHeaderSize)
       \/ receiver = "PAYLOAD" /\ recv_all(k, FrameEnd(sent[Current]))
    /\ UNCHANGED <<sent, written, up>>

\* recv finds the connection closed, perhaps inside a frame; after a reset
\* what had arrived and was not read yet is lost.
recv_closed ==
    /\ receiver # "FAILED"
    /\ ~up
    /\ Fail
    /\ UNCHANGED <<sent, written, up>>

-------------------------------------------------------------------------------
TransportInit ==
    /\ sent = <<>> /\ written = 0 /\ up = TRUE
    /\ receiver = "HEADER" /\ got = 0 /\ delivered = <<>>

Piece == 1 .. kProtoHeaderSize + kProtoMaxPayload + 1
SendLoop == \E n \in Piece : send_piece(n)
ReceiveLoop == (\E k \in Piece : recv_frame(k)) \/ recv_closed

TransportNext ==
    \/ \E f \in Frames : send_frame(f)
    \/ SendLoop
    \/ close
    \/ ReceiveLoop

TransportSafety == TransportInit /\ [][TransportNext]_transportVars

\* Both loops go on while the socket takes and gives bytes; nobody has to
\* send another frame or to close.
TransportSpec ==
    TransportSafety /\ WF_transportVars(SendLoop) /\ WF_transportVars(ReceiveLoop)

-------------------------------------------------------------------------------
(* Properties. *)

\* What protocol.hpp says decode accepts.
Acceptable(f) ==
    /\ f.magic /\ f.version = 1 /\ f.checksum
    /\ f.type \in MessageType /\ f.payload <= kProtoMaxPayload

Channel == INSTANCE FrameChannel WITH ended <- receiver = "FAILED"

\* However the bytes are cut into pieces and wherever the sender stops, the
\* connection is a queue of whole frames: encode_frame, send_frame, recv_all,
\* recv_frame and decode_frame together are the channel that the server and
\* the worker client take for granted.
ImplementsChannel == Channel!Spec

\* The receiver gives up only for a reason: the sender is gone, or the frame
\* it has come to is not acceptable.  A short read is no reason.
FailureHasACause ==
    receiver = "FAILED" =>
      ~up \/ (Current <= Len(sent) /\ ~Acceptable(sent[Current]))

\* recv_frame makes room for a header and the largest payload at most,
\* whatever length a header announces.
ReceiveBufferIsBounded ==
    receiver = "PAYLOAD" => sent[Current].payload <= kProtoMaxPayload

\* As long as the sender stays connected, a frame that it has been given
\* arrives, unless one before it was not acceptable: both sides agree on how
\* long a frame is, also when it is empty.
SentFramesArrive ==
    \A i \in 1..MaxFrames :
        (/\ i <= Len(sent)
         /\ \A j \in 1..i : j <= Len(sent) /\ Acceptable(sent[j]))
        ~> (~up \/ Len(delivered) >= i)
===============================================================================
