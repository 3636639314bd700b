------------------------------- MODULE Frames -------------------------------
(***************************************************************************)
(* What the framing of V2GTP packets promises: the packets handed on are   *)
(* those one finds by going through the byte stream from its beginning,    *)
(* header by header, whatever pieces the stream came in.                   *)
(*                                                                         *)
(* Bytes are not modelled: header[p] is what the HEADER_SIZE bytes from    *)
(* position p on say when they are read as a header.  A header that is     *)
(* refused is skipped and nothing else is: the bytes behind it are read as *)
(* the next header.                                                        *)
(***************************************************************************)
EXTENDS Integers, Sequences

CONSTANTS
    HEADER_SIZE,        \* SdpPacket::V2GTP_HEADER_SIZE
    BUFFER_SIZE,        \* sizeof(SdpPacket::buffer)
    PayloadLengths,     \* the payload lengths headers announce
    MaxBytes            \* bound: bytes in the stream

VARIABLES
    header,             \* the headers the stream can be read as
    pos,                \* where the next header begins
    delivered           \* the packets handed on: [at, length]

framesVars == <<header, pos, delivered>>

Starts == 0..(MaxBytes - HEADER_SIZE)

\* Of a header with an unknown version nothing else is looked at.
Headers == [version_ok : {TRUE}, payload : PayloadLengths]
               \cup {[version_ok |-> FALSE, payload |-> 0]}

\* A packet is taken when its version is known and it fits into the buffer.
Accepted(h) == h.version_ok /\ h.payload + HEADER_SIZE <= BUFFER_SIZE

FramesInit ==
    /\ header \in [Starts -> Headers]
    /\ pos = 0
    /\ delivered = <<>>

Deliver ==
    /\ pos \in Starts
    /\ Accepted(header[pos])
    /\ LET length == header[pos].payload + HEADER_SIZE
       IN /\ delivered' = Append(delivered, [at |-> pos, length |-> length])
          /\ pos' = pos + length
    /\ UNCHANGED header

Skip ==
    /\ pos \in Starts
    /\ ~Accepted(header[pos])
    /\ pos' = pos + HEADER_SIZE
    /\ UNCHANGED <<header, delivered>>

FramesNext == Deliver \/ Skip

FramesSpec == FramesInit /\ [][FramesNext]_framesVars

=============================================================================
