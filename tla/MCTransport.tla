------------------------------ MODULE MCTransport ------------------------------
(***************************************************************************)
(* A small instance of the transport for TLC.                              *)
(***************************************************************************)
EXTENDS Transport

Frame(type, payload) ==
    [magic |-> TRUE, version |-> 1, type |-> type, payload |-> payload, checksum |-> TRUE]

\* An empty READY, a HELLO with a payload, and the ways to be rejected: a
\* damaged HELLO, a type that is not in the table, another version, another
\* protocol, an answer longer than the limit.
MCFrames ==
    {Frame(7, 0), Frame(1, 3), [Frame(1, 2) EXCEPT !.checksum = FALSE], Frame(39, 1),
     [Frame(1, 1) EXCEPT !.version = 2], [Frame(1, 0) EXCEPT !.magic = FALSE],
     Frame(40, kProtoMaxPayload + 1)}

\* The codes of protocol.hpp.
MCMessageType == (1..9) \cup {40, 41}
===============================================================================
