------------------------------ MODULE FrameChannel ------------------------------
(***************************************************************************)
(* What the transport promises to the server and to the worker client: a   *)
(* connection is a queue of whole frames.  Frames arrive in the order they *)
(* were sent, none twice and none that was not sent; a frame that is not   *)
(* acceptable ends the connection, and nothing is taken from a connection  *)
(* that ended.                                                             *)
(***************************************************************************)
EXTENDS Naturals, Sequences
CONSTANTS
    Frames,         \* what can be sent
    Acceptable(_)   \* what the receiver takes
VARIABLES
    sent,       \* frames given to send_frame
    delivered,  \* frames returned by recv_frame
    ended       \* the receiver has given the connection up

channelVars == <<sent, delivered, ended>>

Init == sent = <<>> /\ delivered = <<>> /\ ended = FALSE

Send ==
    /\ \E f \in Frames : sent' = Append(sent, f)
    /\ UNCHANGED <<delivered, ended>>

Deliver ==
    /\ ~ended
    /\ Len(delivered) < Len(sent)
    /\ LET f == sent[Len(delivered) + 1]
       IN  Acceptable(f) /\ delivered' = Append(delivered, f)
    /\ UNCHANGED <<sent, ended>>

End ==
    /\ ~ended
    /\ ended' = TRUE
    /\ UNCHANGED <<sent, delivered>>

Next == Send \/ Deliver \/ End

Spec == Init /\ [][Next]_channelVars
===============================================================================
