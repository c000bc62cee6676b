----------------------------- MODULE TransportProofs -----------------------------
(***************************************************************************)
(* The transport for frames of any number, type and length: however the    *)
(* bytes are cut into pieces, the connection is a queue of whole frames,   *)
(* the receiver gives up for a reason only, and its buffer is bounded.     *)
(***************************************************************************)
EXTENDS Transport, SequenceTheorems, TLAPS

\* A frame is delivered at most once and in order, and the receiver reads the
\* payload of a frame only if that frame exists and its header was accepted.
ReceiverInv ==
    /\ sent \in Seq(Frames) /\ delivered \in Seq(Frames)
    /\ written \in Nat /\ got \in Nat /\ up \in BOOLEAN
    /\ receiver \in {"HEADER", "PAYLOAD", "FAILED"}
    /\ Len(delivered) <= Len(sent)
    /\ receiver = "PAYLOAD" => Len(delivered) < Len(sent) /\ HeaderAllowed(sent[Current])
    /\ FailureHasACause

-------------------------------------------------------------------------------
\* The decoder accepts what protocol.hpp says it accepts: the tests that
\* recv_frame and decode_frame make add up to it.
LEMMA DecoderIsExact ==
    \A f \in Frames : decode_frame(f) <=> Acceptable(f)
  BY DEF decode_frame, Acceptable, HeaderAllowed, kProtoVersion

\* A header that recv_frame refuses is of a frame that is not acceptable.
LEMMA RefusedHeader ==
    \A f \in Frames : ~HeaderAllowed(f) => ~Acceptable(f)
  BY DEF Acceptable, HeaderAllowed, kProtoVersion

\* What a call of recv can do to the receiver: it reads on, it goes on to the
\* payload of an accepted header, it delivers the next frame, or it fails on
\* that frame.
LEMMA ReceiverSteps ==
  ASSUME ReceiverInv, NEW k \in Piece, recv_frame(k)
  PROVE  /\ UNCHANGED <<sent, written, up>>
         /\ receiver # "FAILED"
         /\ Len(delivered) < Len(sent)
         /\ \/ got' = got + k /\ UNCHANGED <<receiver, delivered>>
            \/ /\ receiver' = "PAYLOAD" /\ HeaderAllowed(sent[Current])
               /\ got' = kProtoHeaderSize /\ UNCHANGED delivered
            \/ /\ Acceptable(sent[Current])
               /\ delivered' = Append(delivered, sent[Current])
               /\ receiver' = "HEADER" /\ got' = 0
            \/ /\ ~Acceptable(sent[Current])
               /\ receiver' = "FAILED" /\ UNCHANGED <<got, delivered>>
<1> USE DEF ReceiverInv
<1>1. UNCHANGED <<sent, written, up>>
  BY DEF recv_frame
<1>2. PICK end : /\ recv_all(k, end)
                 /\ receiver \in {"HEADER", "PAYLOAD"}
  BY DEF recv_frame
<1>3. Len(delivered) < Len(sent)
  <2>1. k \in Nat \ {0}
    BY TransportAssumption DEF Piece, kProtoHeaderSize
  <2>2. got + k <= Arrived
    BY <1>2 DEF recv_all
  <2>3. Len(sent) \in Nat /\ Len(delivered) \in Nat
    OBVIOUS
  <2>4. CASE Current > Len(sent)
    <3>1. Arrived = 0
      BY <2>4 DEF Arrived
    <3>2. QED
      BY <3>1, <2>1, <2>2
  <2>5. CASE ~(Current > Len(sent))
    BY <2>5, <2>3 DEF Current
  <2>6. QED
    BY <2>4, <2>5
<1>4. sent[Current] \in Frames
  BY <1>3, ElementOfSeq DEF Current
<1>5. CASE got + k < end
  BY <1>1, <1>2, <1>3, <1>5 DEF recv_all
<1>6. ASSUME Decode
      PROVE  \/ /\ Acceptable(sent[Current])
                /\ delivered' = Append(delivered, sent[Current])
                /\ receiver' = "HEADER" /\ got' = 0
             \/ /\ ~Acceptable(sent[Current])
                /\ receiver' = "FAILED" /\ UNCHANGED <<got, delivered>>
  BY <1>4, <1>6, DecoderIsExact DEF Decode, Fail
<1>7. CASE ~(got + k < end) /\ receiver = "HEADER"
  <2>1. ReadHeader
    BY <1>2, <1>7 DEF recv_all
  <2>2. CASE ~HeaderAllowed(sent[Current])
    BY <1>1, <1>2, <1>3, <1>4, <2>1, <2>2, RefusedHeader DEF ReadHeader, Fail
  <2>3. CASE HeaderAllowed(sent[Current]) /\ sent[Current].payload = 0
    BY <1>1, <1>2, <1>3, <1>6, <2>1, <2>3 DEF ReadHeader
  <2>4. CASE HeaderAllowed(sent[Current]) /\ sent[Current].payload # 0
    BY <1>1, <1>2, <1>3, <2>1, <2>4 DEF ReadHeader
  <2>5. QED
    BY <2>2, <2>3, <2>4
<1>8. CASE ~(got + k < end) /\ receiver # "HEADER"
  <2>1. Decode
    BY <1>2, <1>8 DEF recv_all
  <2>2. QED
    BY <1>1, <1>2, <1>3, <1>6, <2>1
<1>9. QED
  BY <1>5, <1>7, <1>8

-------------------------------------------------------------------------------
LEMMA InitReceiver == TransportInit => ReceiverInv
  BY EmptySeq DEF TransportInit, ReceiverInv, FailureHasACause

LEMMA StepReceiver == ReceiverInv /\ [TransportNext]_transportVars => ReceiverInv'
<1> SUFFICES ASSUME ReceiverInv, [TransportNext]_transportVars
             PROVE  ReceiverInv'
  OBVIOUS
<1> USE DEF ReceiverInv
<1>1. ASSUME NEW f \in Frames, send_frame(f)
      PROVE  ReceiverInv'
  <2>1. sent' = Append(sent, f) /\ sent' \in Seq(Frames) /\ Len(sent') = Len(sent) + 1
    BY <1>1, AppendProperties DEF send_frame
  <2>2. UNCHANGED <<up, receiver, got, delivered>> /\ written' = 0
    BY <1>1 DEF send_frame
  <2>3. \A i \in 1..Len(sent) : sent'[i] = sent[i]
    BY <2>1, AppendProperties
  <2>4. Current \in Nat \ {0} /\ Current' = Current
    BY <2>2 DEF Current
  <2>5. Current <= Len(sent) => sent'[Current'] = sent[Current]
    BY <2>3, <2>4
  <2>6. (receiver = "PAYLOAD" => Len(delivered) < Len(sent) /\ HeaderAllowed(sent[Current]))'
    BY <2>1, <2>2, <2>4, <2>5 DEF HeaderAllowed, Current
  <2>7. FailureHasACause'
    BY <2>1, <2>2, <2>4, <2>5 DEF FailureHasACause, Acceptable
  <2>8. (Len(delivered) <= Len(sent))'
    BY <2>1, <2>2
  <2>9. QED
    BY <2>1, <2>2, <2>6, <2>7, <2>8
<1>2. ASSUME NEW n \in Piece, send_piece(n)
      PROVE  ReceiverInv'
  <2>1. n \in Nat
    BY <1>2, TransportAssumption DEF Piece, kProtoHeaderSize
  <2>2. QED
    BY <1>2, <2>1 DEF send_piece, FailureHasACause, HeaderAllowed, Acceptable, Current
<1>3. CASE close
  BY <1>3 DEF close, FailureHasACause, HeaderAllowed, Acceptable, Current
<1>4. ASSUME NEW k \in Piece, recv_frame(k)
      PROVE  ReceiverInv'
  <2> DEFINE f == sent[Current]
  <2>1. k \in Nat
    BY <1>4, TransportAssumption DEF Piece, kProtoHeaderSize
  <2>2. UNCHANGED <<sent, written, up>> /\ receiver # "FAILED" /\ Len(delivered) < Len(sent)
    BY <1>4, ReceiverSteps
  <2>3. f \in Frames
    BY <2>2, ElementOfSeq DEF Current
  <2>4. CASE got' = got + k /\ UNCHANGED <<receiver, delivered>>
    BY <2>1, <2>2, <2>4 DEF FailureHasACause, HeaderAllowed, Current
  <2>5. CASE /\ receiver' = "PAYLOAD" /\ HeaderAllowed(sent[Current])
             /\ got' = kProtoHeaderSize /\ UNCHANGED delivered
    BY <2>2, <2>5 DEF FailureHasACause, HeaderAllowed, Current, kProtoHeaderSize
  <2>6. CASE /\ delivered' = Append(delivered, f)
             /\ receiver' = "HEADER" /\ got' = 0
    BY <2>2, <2>3, <2>6, AppendProperties DEF FailureHasACause
  <2>7. CASE /\ ~Acceptable(f)
             /\ receiver' = "FAILED" /\ UNCHANGED <<got, delivered>>
    BY <2>2, <2>7 DEF FailureHasACause, Acceptable, Current
  <2>8. QED
    BY <1>4, <2>4, <2>5, <2>6, <2>7, ReceiverSteps
<1>5. CASE recv_closed
  BY <1>5 DEF recv_closed, Fail, FailureHasACause
<1>6. CASE UNCHANGED transportVars
  BY <1>6 DEF transportVars, FailureHasACause, HeaderAllowed, Acceptable, Current
<1>7. QED
  BY <1>1, <1>2, <1>3, <1>4, <1>5, <1>6 DEF TransportNext, SendLoop, ReceiveLoop

\* The invariant holds in every state of a connection.
THEOREM ReceiverIsSound == TransportSpec => []ReceiverInv
  BY InitReceiver, StepReceiver, PTL DEF TransportSpec, TransportSafety

\* recv_frame fails only on a connection that ended or on a frame that is not
\* acceptable, for frames of every length cut in every way.
THEOREM FailuresHaveCauses == TransportSpec => []FailureHasACause
<1>1. ReceiverInv => FailureHasACause
  BY DEF ReceiverInv
<1>2. QED
  BY <1>1, ReceiverIsSound, PTL

\* recv_frame never makes room for more than the largest payload.
THEOREM BufferStaysBounded == TransportSpec => []ReceiveBufferIsBounded
<1>1. ReceiverInv => ReceiveBufferIsBounded
  BY DEF ReceiverInv, ReceiveBufferIsBounded, HeaderAllowed
<1>2. QED
  BY <1>1, ReceiverIsSound, PTL

-------------------------------------------------------------------------------
(* The refinement. *)
LEMMA InitChannel == TransportInit => Channel!Init
  BY DEF TransportInit, Channel!Init

\* Sending a frame, delivering one and failing are the steps of the channel;
\* all others happen inside of it.
LEMMA StepChannel ==
    ReceiverInv /\ [TransportNext]_transportVars => [Channel!Next]_(Channel!channelVars)
<1> SUFFICES ASSUME ReceiverInv, [TransportNext]_transportVars
             PROVE  [Channel!Next]_(Channel!channelVars)
  OBVIOUS
<1> USE DEF Channel!channelVars
<1>1. ASSUME NEW f \in Frames, send_frame(f)
      PROVE  Channel!Send
  BY <1>1 DEF send_frame, Channel!Send
<1>2. ASSUME NEW n \in Piece, send_piece(n)
      PROVE  UNCHANGED Channel!channelVars
  BY <1>2 DEF send_piece
<1>3. CASE close
  BY <1>3 DEF close
<1>4. ASSUME NEW k \in Piece, recv_frame(k)
      PROVE  Channel!Deliver \/ Channel!End \/ UNCHANGED Channel!channelVars
  <2>1. UNCHANGED sent /\ receiver # "FAILED" /\ Len(delivered) < Len(sent)
    BY <1>4, ReceiverSteps
  <2>2. CASE UNCHANGED delivered /\ receiver' # "FAILED"
    BY <2>1, <2>2
  <2>3. CASE /\ Acceptable(sent[Current])
             /\ delivered' = Append(delivered, sent[Current])
             /\ receiver' = "HEADER"
    BY <2>1, <2>3 DEF Channel!Deliver, Current
  <2>4. CASE receiver' = "FAILED" /\ UNCHANGED delivered
    BY <2>1, <2>4 DEF Channel!End
  <2>5. QED
    BY <1>4, <2>1, <2>2, <2>3, <2>4, ReceiverSteps
<1>5. ASSUME recv_closed
      PROVE  Channel!End
  BY <1>5 DEF recv_closed, Fail, Channel!End
<1>6. CASE UNCHANGED transportVars
  BY <1>6 DEF transportVars
<1>7. QED
  BY <1>1, <1>2, <1>3, <1>4, <1>5, <1>6
     DEF TransportNext, SendLoop, ReceiveLoop, Channel!Next

\* The transport is a queue of whole frames, in the order they were sent.
THEOREM TransportImplementsChannel == TransportSpec => ImplementsChannel
  BY ReceiverIsSound, InitChannel, StepChannel, PTL
     DEF TransportSpec, TransportSafety, ImplementsChannel, Channel!Spec
===============================================================================
