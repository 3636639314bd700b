----------------------------- MODULE SdpReader -----------------------------
(***************************************************************************)
(* SdpPacket and read_single_sdp_packet: how Session::poll cuts the byte   *)
(* stream of a connection into V2GTP packets.                              *)
(*                                                                         *)
(* The peer's bytes arrive at any time, also between the two reads of one  *)
(* poll().  A plain connection reads from the socket.  A TLS connection    *)
(* reads from the record that OpenSSL decrypted last and pulls the next    *)
(* one from the socket only when that is used up: bytes it pulled and did  *)
(* not hand out are announced by no further event of the socket.  The peer *)
(* cuts its bytes into records as it likes.  Errors of a connection are    *)
(* part of IsoSession.                                                     *)
(***************************************************************************)
EXTENDS Integers, Sequences

CONSTANTS
    HEADER_SIZE,        \* SdpPacket::V2GTP_HEADER_SIZE
    BUFFER_SIZE,        \* sizeof(SdpPacket::buffer)
    MAX_U32,            \* the largest uint32_t
    PayloadLengths,     \* the payload lengths headers announce
    MaxBytes            \* bound: bytes in the stream

ASSUME SizeAssumption ==
    /\ HEADER_SIZE \in Nat \ {0}
    /\ BUFFER_SIZE \in Nat
    /\ MAX_U32 \in Nat
    /\ HEADER_SIZE <= BUFFER_SIZE
    /\ BUFFER_SIZE <= MAX_U32
    /\ PayloadLengths \subseteq 0..MAX_U32
    /\ MaxBytes \in Nat
    /\ HEADER_SIZE <= MaxBytes

VARIABLES
    header,             \* the content of the stream, see Frames
    tls,                \* the connection is a ConnectionSSL
    arrived,            \* bytes that arrived at the socket
    pulled,             \* of them, bytes pulled from the socket
    consumed,           \* of them, bytes the session has read
    new_data,           \* SessionState::new_data
    packet,             \* Session::packet
    pc,                 \* where the event loop is
    delivered           \* history: the packets handed to set_request

readerVars == <<header, tls, arrived, pulled, consumed, new_data, packet, pc,
                delivered>>

\* The packet in work begins where the bytes it holds begin.
Start == consumed - packet.bytes_read

Abstract == INSTANCE Frames WITH pos <- Start

-----------------------------------------------------------------------------
(* SdpPacket *)

\* length has no initial value in the code; nothing reads it before the header is
\* parsed.
EmptyPacket == [state |-> "EMPTY", bytes_read |-> 0, length |-> 0]

\* The sum of two uint32_t.
Add32(a, b) == IF a + b > MAX_U32 THEN a + b - MAX_U32 - 1 ELSE a + b

\* Mutant: the sum with the header size may overflow.
parse_header_overflows(p, h) ==
    LET length == Add32(h.payload, HEADER_SIZE)
    IN CASE ~h.version_ok -> [p EXCEPT !.state = "INVALID_HEADER"]
         [] h.version_ok /\ length > BUFFER_SIZE ->
              [p EXCEPT !.state = "PAYLOAD_TO_LONG", !.length = length]
         [] OTHER -> [p EXCEPT !.state = "HEADER_READ", !.length = length]

parse_header(p, h) ==
    LET length == Add32(h.payload, HEADER_SIZE)
        invalid == ~h.version_ok \/ h.payload > MAX_U32 - HEADER_SIZE
    IN CASE invalid -> [p EXCEPT !.state = "INVALID_HEADER"]
         [] ~invalid /\ length > BUFFER_SIZE ->
              [p EXCEPT !.state = "PAYLOAD_TO_LONG", !.length = length]
         [] OTHER -> [p EXCEPT !.state = "HEADER_READ", !.length = length]

\* Mutant: a header that came in pieces is asked for as a whole again.
get_remaining_bytes_to_read_whole(p) ==
    CASE p.state = "EMPTY"       -> HEADER_SIZE
      [] p.state = "HEADER_READ" -> p.length - p.bytes_read
      [] OTHER                   -> 0

get_remaining_bytes_to_read(p) ==
    CASE p.state = "EMPTY"       -> HEADER_SIZE - p.bytes_read
      [] p.state = "HEADER_READ" -> p.length - p.bytes_read
      [] OTHER                   -> 0

\* n more bytes of the packet that begins at position `start`.
update_read_bytes(p, n, start) ==
    LET read == [p EXCEPT !.bytes_read = @ + n]
        parsed == IF read.state = "EMPTY" /\ read.bytes_read = HEADER_SIZE
                  THEN parse_header(read, header[start]) ELSE read
    IN CASE p.state \notin {"EMPTY", "HEADER_READ"} -> p
         [] /\ p.state \in {"EMPTY", "HEADER_READ"}
            /\ parsed.state = "HEADER_READ"
            /\ parsed.bytes_read = parsed.length -> [parsed EXCEPT !.state = "COMPLETE"]
         [] OTHER -> parsed

-----------------------------------------------------------------------------
(* The connection *)

\* The ends of the piece the next read takes its bytes from.
Pieces ==
    CASE ~tls                                          -> {arrived}
      [] tls /\ pulled > consumed                      -> {pulled}
      [] tls /\ pulled = consumed /\ arrived > pulled  -> (pulled + 1)..arrived
      [] OTHER                                         -> {pulled}

\* Whether poll() on the socket finds it readable.
Readable == IF tls THEN arrived > pulled ELSE arrived > consumed

\* IConnection::read(len): n bytes; it would block when that are fewer than len.
Read(len, n) ==
    \E end \in Pieces :
        /\ n = IF len <= end - consumed THEN len ELSE end - consumed
        /\ consumed' = consumed + n
        /\ pulled' = IF tls THEN end ELSE consumed + n

-----------------------------------------------------------------------------

\* Mutant: a refused packet is only logged.
log_invalid_packet_error_keeps(p) == p

\* A packet whose header is refused is dropped.
log_invalid_packet_error(p) == EmptyPacket

ReaderInit ==
    /\ header \in [Abstract!Starts -> Abstract!Headers]
    /\ tls \in BOOLEAN
    /\ arrived = 0
    /\ pulled = 0
    /\ consumed = 0
    /\ new_data = FALSE
    /\ packet = EmptyPacket
    /\ pc = "callbacks"
    /\ delivered = <<>>

Arrive ==
    /\ \E k \in 1..(MaxBytes - arrived) : arrived' = arrived + k
    /\ UNCHANGED <<header, tls, pulled, consumed, new_data, packet, pc, delivered>>

\* PollManager::poll calls handle_data when the socket is readable.
HandleData ==
    /\ pc = "callbacks"
    /\ new_data' = (new_data \/ Readable)
    /\ pc' = "first"
    /\ UNCHANGED <<header, tls, arrived, pulled, consumed, packet, delivered>>

\* The first read of read_single_sdp_packet.
FirstTry ==
    /\ pc = "first"
    /\ new_data
    /\ LET len == get_remaining_bytes_to_read(packet)
       IN \E n \in 0..len :
             /\ Read(len, n)
             /\ LET p == update_read_bytes(packet, n, Start)
                IN \/ /\ n < len
                      /\ packet' = p
                      /\ new_data' = FALSE
                      /\ pc' = "take"
                   \/ /\ n = len
                      /\ p.state = "COMPLETE"
                      /\ packet' = p
                      /\ pc' = "take"
                      /\ UNCHANGED new_data
                   \/ /\ n = len
                      /\ p.state = "HEADER_READ"
                      /\ packet' = p
                      /\ pc' = "second"
                      /\ UNCHANGED new_data
                   \/ /\ n = len
                      /\ p.state \notin {"COMPLETE", "HEADER_READ"}
                      /\ packet' = log_invalid_packet_error(p)
                      /\ pc' = "take"
                      /\ UNCHANGED new_data
    /\ UNCHANGED <<header, tls, arrived, delivered>>

NoData ==
    /\ pc = "first"
    /\ ~new_data
    /\ pc' = "take"
    /\ UNCHANGED <<header, tls, arrived, pulled, consumed, new_data, packet,
                   delivered>>

\* Mutant: new_data is cleared although more may be there.
SecondTry_clears ==
    /\ pc = "second"
    /\ LET len == get_remaining_bytes_to_read(packet)
       IN \E n \in 0..len :
             /\ Read(len, n)
             /\ packet' = update_read_bytes(packet, n, Start)
             /\ new_data' = FALSE
    /\ pc' = "take"
    /\ UNCHANGED <<header, tls, arrived, delivered>>

\* The second read, for the payload.  That the packet is complete when it does not
\* block is checked once more.
SecondTry ==
    /\ pc = "second"
    /\ LET len == get_remaining_bytes_to_read(packet)
       IN \E n \in 0..len :
             /\ Read(len, n)
             /\ LET p == update_read_bytes(packet, n, Start)
                IN packet' = IF n = len /\ p.state # "COMPLETE"
                             THEN log_invalid_packet_error(p) ELSE p
             /\ new_data' = (n = len)
    /\ pc' = "take"
    /\ UNCHANGED <<header, tls, arrived, delivered>>

\* Mutant: a packet that was handed on is not reset.
Take_keeps ==
    /\ pc = "take"
    /\ delivered' = IF packet.state = "COMPLETE"
                    THEN Append(delivered, [at |-> Start, length |-> packet.length])
                    ELSE delivered
    /\ pc' = "callbacks"
    /\ UNCHANGED <<header, tls, arrived, pulled, consumed, new_data, packet>>

\* A complete packet is handed on, and the next one begins.
Take ==
    /\ pc = "take"
    /\ IF packet.state = "COMPLETE"
       THEN /\ delivered' = Append(delivered, [at |-> Start, length |-> packet.length])
            /\ packet' = EmptyPacket
       ELSE UNCHANGED <<delivered, packet>>
    /\ pc' = "callbacks"
    /\ UNCHANGED <<header, tls, arrived, pulled, consumed, new_data>>

LoopStep == HandleData \/ FirstTry \/ NoData \/ SecondTry \/ Take

ReaderNext == Arrive \/ LoopStep

ReaderSpec == ReaderInit /\ [][ReaderNext]_readerVars

\* The event loop runs on, whatever the peer does.
FairReaderSpec == ReaderSpec /\ WF_readerVars(LoopStep)

-----------------------------------------------------------------------------
(* Properties *)

\* The type of every variable, and where the state of the packet can be found.
ReaderTypeOK ==
    /\ header \in [Abstract!Starts -> Abstract!Headers]
    /\ tls \in BOOLEAN
    /\ arrived \in 0..MaxBytes
    /\ consumed \in 0..arrived
    /\ pulled \in consumed..arrived
    /\ new_data \in BOOLEAN
    /\ packet \in [state : {"EMPTY", "HEADER_READ", "COMPLETE"},
                   bytes_read : 0..consumed, length : Nat]
    /\ pc \in {"callbacks", "first", "second", "take"}
    /\ delivered \in Seq([at : Nat, length : Nat])

\* No read writes behind the end of the packet's buffer, and the number of bytes to
\* read, a difference of two size_t, does not wrap around, whatever the header says.
BufferRespected ==
    /\ get_remaining_bytes_to_read(packet) >= 0
    /\ packet.bytes_read + get_remaining_bytes_to_read(packet) <= BUFFER_SIZE

\* The assertion at the start of read_single_sdp_packet, and that it always has
\* something to read: a read of 0 bytes never counts as blocking.
ReadsSomething ==
    /\ pc = "first" => packet.state \in {"EMPTY", "HEADER_READ"}
    /\ pc \in {"first", "second"} => get_remaining_bytes_to_read(packet) > 0

\* Bytes that left the socket but were not read yet are announced by no event of the
\* socket any more: as long as there are some, new_data stays set.
PulledIsRead == pulled > consumed => new_data

\* Whatever the pieces the stream comes in, exactly the packets of the stream are
\* handed on, in order.
FramesKept == Abstract!FramesSpec

\* Once the peer pauses, everything that arrived is read at last, without a
\* further byte from the peer.
ArrivedIsRead == consumed < arrived ~> consumed = arrived

=============================================================================
