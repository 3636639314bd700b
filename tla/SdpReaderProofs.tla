-------------------------- MODULE SdpReaderProofs --------------------------
(***************************************************************************)
(* For every header size, buffer size and byte stream: the reader keeps    *)
(* within its buffer, reads on as long as it has bytes, and hands on       *)
(* exactly the packets of the stream.                                      *)
(***************************************************************************)
EXTENDS SdpReader, TLAPS

\* A packet in work is the beginning of the frame at `start`: fewer bytes than a
\* header, or an accepted header and part of its payload.
PacketOK(p, start) ==
    /\ p.state = "EMPTY" => p.bytes_read < HEADER_SIZE
    /\ p.state \in {"HEADER_READ", "COMPLETE"} =>
          /\ start \in Abstract!Starts
          /\ Abstract!Accepted(header[start])
          /\ p.length = header[start].payload + HEADER_SIZE
    /\ p.state = "HEADER_READ" => HEADER_SIZE <= p.bytes_read /\ p.bytes_read < p.length
    /\ p.state = "COMPLETE" => p.bytes_read = p.length

PacketInv ==
    /\ PacketOK(packet, Start)
    /\ packet.state = "COMPLETE" => pc = "take"
    /\ pc = "second" => packet.state = "HEADER_READ" /\ new_data

\* A plain connection pulls no more than it hands out.
PulledInv == ~tls => pulled = consumed

ReaderInv == ReaderTypeOK /\ PacketInv /\ PulledInv /\ PulledIsRead

-----------------------------------------------------------------------------

\* The record type of a packet, without the bounds of its fields.
Packets == [state : {"EMPTY", "HEADER_READ", "COMPLETE"}, bytes_read : Nat, length : Nat]

LEMMA PacketType ==
    ASSUME ReaderInv
    PROVE  /\ packet \in Packets
           /\ consumed \in Nat
           /\ packet.bytes_read \in Nat /\ packet.length \in Nat
           /\ packet.bytes_read <= consumed
<1>1. arrived \in Nat
  BY SizeAssumption DEF ReaderInv, ReaderTypeOK
<1>2. consumed \in Nat
  BY <1>1 DEF ReaderInv, ReaderTypeOK
<1>3. packet \in [state : {"EMPTY", "HEADER_READ", "COMPLETE"},
                  bytes_read : 0..consumed, length : Nat]
  BY DEF ReaderInv, ReaderTypeOK
<1>4. packet.bytes_read \in Nat /\ packet.bytes_read <= consumed
  BY <1>2, <1>3
<1>5. packet = [state |-> packet.state, bytes_read |-> packet.bytes_read,
                length |-> packet.length]
  BY <1>3
<1>6. packet.state \in {"EMPTY", "HEADER_READ", "COMPLETE"} /\ packet.length \in Nat
  BY <1>3
<1> QED
  BY <1>2, <1>4, <1>5, <1>6 DEF Packets

LEMMA HeaderType ==
    ASSUME NEW h \in Abstract!Headers
    PROVE  h.version_ok \in BOOLEAN /\ h.payload \in 0..MAX_U32
<1>1. CASE h \in [version_ok : {TRUE}, payload : PayloadLengths]
  <2>1. h.version_ok = TRUE
    BY <1>1
  <2>2. h.payload \in PayloadLengths
    BY <1>1
  <2>3. h.payload \in 0..MAX_U32
    BY <2>2, SizeAssumption
  <2> QED
    BY <2>1, <2>3
<1>2. CASE h = [version_ok |-> FALSE, payload |-> 0]
  <2>1. h.version_ok = FALSE /\ h.payload = 0
    BY <1>2
  <2>2. 0 \in 0..MAX_U32
    BY SizeAssumption
  <2> QED
    BY <2>1, <2>2
<1> QED
  BY <1>1, <1>2 DEF Abstract!Headers

\* get_remaining_bytes_to_read: between 1 and what completes the header or the
\* packet, as long as the packet is not complete.
LEMMA Remaining ==
    ASSUME ReaderInv, packet.state # "COMPLETE"
    PROVE  /\ get_remaining_bytes_to_read(packet) \in Nat \ {0}
           /\ packet.state = "EMPTY" =>
                get_remaining_bytes_to_read(packet) = HEADER_SIZE - packet.bytes_read
           /\ packet.state = "HEADER_READ" =>
                get_remaining_bytes_to_read(packet) = packet.length - packet.bytes_read
<1>1. packet.bytes_read \in Nat /\ packet.length \in Nat
  BY DEF ReaderInv, ReaderTypeOK
<1>2. packet.state \in {"EMPTY", "HEADER_READ"}
  BY DEF ReaderInv, ReaderTypeOK
<1> QED
  BY <1>1, <1>2, SizeAssumption DEF ReaderInv, PacketInv, PacketOK, get_remaining_bytes_to_read

\* IConnection::read: as many bytes as asked for or as the piece has, and a read that
\* would block leaves nothing pulled behind.
LEMMA ReadGives ==
    ASSUME ReaderInv, NEW len \in Nat \ {0}, NEW n \in 0..len, Read(len, n),
           UNCHANGED <<arrived, tls>>
    PROVE  /\ consumed' = consumed + n
           /\ consumed' \in 0..arrived
           /\ pulled' \in consumed'..arrived
           /\ n < len => pulled' = consumed'
           /\ ~tls => pulled' = consumed'
<1>1. /\ arrived \in Nat /\ consumed \in Nat /\ pulled \in Nat
      /\ consumed <= pulled /\ pulled <= arrived
  BY SizeAssumption DEF ReaderInv, ReaderTypeOK
<1>2. PICK end \in Pieces :
        /\ n = IF len <= end - consumed THEN len ELSE end - consumed
        /\ consumed' = consumed + n
        /\ pulled' = IF tls THEN end ELSE consumed + n
  BY DEF Read
<1>3. end \in Nat /\ consumed <= end /\ end <= arrived
  BY <1>1, <1>2 DEF Pieces, ReaderInv, ReaderTypeOK
<1>4. tls \in BOOLEAN
  BY DEF ReaderInv, ReaderTypeOK
<1> QED
  BY <1>1, <1>2, <1>3, <1>4

\* parse_header accepts exactly the headers of Frames, with the right length.
LEMMA Parse ==
    ASSUME NEW p \in Packets,
           NEW h \in Abstract!Headers
    PROVE  /\ Abstract!Accepted(h) =>
                parse_header(p, h) = [p EXCEPT !.state = "HEADER_READ",
                                               !.length = h.payload + HEADER_SIZE]
           /\ ~Abstract!Accepted(h) =>
                parse_header(p, h).state \in {"INVALID_HEADER", "PAYLOAD_TO_LONG"}
<1>1. h.version_ok \in BOOLEAN /\ h.payload \in 0..MAX_U32
  BY HeaderType
<1>2. CASE ~h.version_ok \/ h.payload > MAX_U32 - HEADER_SIZE
  <2>1. ~Abstract!Accepted(h)
    BY <1>1, <1>2, SizeAssumption DEF Abstract!Accepted
  <2>2. parse_header(p, h) = [p EXCEPT !.state = "INVALID_HEADER"]
    BY <1>2 DEF parse_header
  <2> QED
    BY <2>1, <2>2 DEF Packets
<1>3. CASE ~(~h.version_ok \/ h.payload > MAX_U32 - HEADER_SIZE)
  <2>1. Add32(h.payload, HEADER_SIZE) = h.payload + HEADER_SIZE
    BY <1>1, <1>3, SizeAssumption DEF Add32
  <2>2. Abstract!Accepted(h) <=> ~(h.payload + HEADER_SIZE > BUFFER_SIZE)
    BY <1>1, <1>3, SizeAssumption DEF Abstract!Accepted
  <2> QED
    BY <1>3, <2>1, <2>2 DEF parse_header, Packets
<1> QED
  BY <1>2, <1>3

\* update_read_bytes while the header is read: more of the header, or an accepted
\* header, or a refused one.
LEMMA UpdateEmpty ==
    ASSUME ReaderInv, packet.state = "EMPTY",
           NEW n \in 0..(HEADER_SIZE - packet.bytes_read), consumed + n <= MaxBytes,
           NEW p, p = update_read_bytes(packet, n, Start)
    PROVE  /\ n < HEADER_SIZE - packet.bytes_read =>
                p = [packet EXCEPT !.bytes_read = @ + n]
           /\ n = HEADER_SIZE - packet.bytes_read =>
                /\ Start \in Abstract!Starts
                /\ Abstract!Accepted(header[Start]) =>
                     p = [state |-> IF header[Start].payload = 0 THEN "COMPLETE"
                                    ELSE "HEADER_READ",
                          bytes_read |-> HEADER_SIZE,
                          length |-> header[Start].payload + HEADER_SIZE]
                /\ ~Abstract!Accepted(header[Start]) =>
                     p.state \in {"INVALID_HEADER", "PAYLOAD_TO_LONG"}
<1> DEFINE read == [packet EXCEPT !.bytes_read = @ + n]
<1>1. /\ packet \in Packets
      /\ packet.bytes_read \in Nat /\ packet.bytes_read < HEADER_SIZE
      /\ packet.bytes_read <= consumed /\ consumed \in Nat
  BY PacketType DEF ReaderInv, PacketInv, PacketOK
<1>2. n \in Nat
  BY <1>1, SizeAssumption
<1>3. /\ read \in Packets
      /\ read.state = "EMPTY" /\ read.bytes_read = packet.bytes_read + n
  BY <1>1, <1>2 DEF Packets
<1>4. CASE n < HEADER_SIZE - packet.bytes_read
  <2>1. read.bytes_read # HEADER_SIZE
    BY <1>1, <1>2, <1>3, <1>4, SizeAssumption
  <2>2. p = read
    BY <1>3, <2>1 DEF update_read_bytes
  <2> QED
    BY <1>1, <1>2, <1>4, <2>2, SizeAssumption
<1>5. CASE n = HEADER_SIZE - packet.bytes_read
  <2>1. read.bytes_read = HEADER_SIZE
    BY <1>1, <1>3, <1>5, SizeAssumption
  <2>2. Start \in Abstract!Starts
    BY <1>1, <1>2, <1>5, SizeAssumption DEF Start, Abstract!Starts
  <2>3. header[Start] \in Abstract!Headers
    BY <2>2 DEF ReaderInv, ReaderTypeOK
  <2> DEFINE parsed == parse_header(read, header[Start])
  <2>4. /\ Abstract!Accepted(header[Start]) =>
             parsed = [read EXCEPT !.state = "HEADER_READ",
                                   !.length = header[Start].payload + HEADER_SIZE]
        /\ ~Abstract!Accepted(header[Start]) =>
             parsed.state \in {"INVALID_HEADER", "PAYLOAD_TO_LONG"}
    BY <1>3, <2>3, Parse
  <2>5. p = IF parsed.state = "HEADER_READ" /\ parsed.bytes_read = parsed.length
            THEN [parsed EXCEPT !.state = "COMPLETE"] ELSE parsed
    BY <1>3, <2>1 DEF update_read_bytes
  <2>6. CASE Abstract!Accepted(header[Start])
    <3>1. header[Start].payload \in Nat
      BY <2>3, HeaderType, SizeAssumption
    <3>2. parsed = [state |-> "HEADER_READ", bytes_read |-> HEADER_SIZE,
                    length |-> header[Start].payload + HEADER_SIZE]
      BY <1>3, <2>1, <2>4, <2>6 DEF Packets
    <3> HIDE DEF parsed
    <3>3. parsed.bytes_read = parsed.length <=> header[Start].payload = 0
      BY <3>1, <3>2, SizeAssumption
    <3> QED
      BY <1>5, <2>2, <2>5, <2>6, <3>2, <3>3
  <2>7. CASE ~Abstract!Accepted(header[Start])
    <3>1. p = parsed
      BY <2>4, <2>5, <2>7
    <3> QED
      BY <1>5, <2>2, <2>4, <2>7, <3>1
  <2> QED
    BY <2>6, <2>7
<1> QED
  BY <1>1, <1>2, <1>4, <1>5, SizeAssumption

\* update_read_bytes while the payload is read.
LEMMA UpdateHeaderRead ==
    ASSUME ReaderInv, packet.state = "HEADER_READ",
           NEW n \in 0..(packet.length - packet.bytes_read),
           NEW p, p = update_read_bytes(packet, n, Start)
    PROVE  p = [state |-> IF n = packet.length - packet.bytes_read THEN "COMPLETE"
                          ELSE "HEADER_READ",
                bytes_read |-> packet.bytes_read + n, length |-> packet.length]
<1> DEFINE read == [packet EXCEPT !.bytes_read = @ + n]
<1>1. packet \in [state : {"EMPTY", "HEADER_READ", "COMPLETE"},
                  bytes_read : Nat, length : Nat]
  BY PacketType DEF Packets
<1>2. read = [state |-> "HEADER_READ", bytes_read |-> packet.bytes_read + n,
              length |-> packet.length]
  BY <1>1
<1>3. p = IF read.bytes_read = read.length
          THEN [read EXCEPT !.state = "COMPLETE"] ELSE read
  BY <1>2 DEF update_read_bytes
<1>4. read.bytes_read = read.length <=> n = packet.length - packet.bytes_read
  BY <1>1, <1>2
<1> QED
  BY <1>2, <1>3, <1>4

\* One read and the update of the packet: the packet in work is still the beginning
\* of the frame at Start, or its header is complete and refused.
LEMMA ReadUpdates ==
    ASSUME ReaderInv, packet.state # "COMPLETE",
           NEW n \in 0..get_remaining_bytes_to_read(packet),
           consumed + n <= MaxBytes,
           NEW p, p = update_read_bytes(packet, n, Start)
    PROVE  \/ /\ p \in Packets
              /\ p.bytes_read = packet.bytes_read + n
              /\ PacketOK(p, Start)
              /\ n < get_remaining_bytes_to_read(packet) => p.state = packet.state
              /\ n = get_remaining_bytes_to_read(packet) => p.state # "EMPTY"
           \/ /\ p.state \in {"INVALID_HEADER", "PAYLOAD_TO_LONG"}
              /\ n = get_remaining_bytes_to_read(packet)
              /\ packet.bytes_read + n = HEADER_SIZE
              /\ Start \in Abstract!Starts
              /\ ~Abstract!Accepted(header[Start])
<1>1. /\ packet \in Packets
      /\ packet.bytes_read \in Nat /\ packet.length \in Nat
  BY PacketType
<1>2. CASE packet.state = "EMPTY"
  <2>1. get_remaining_bytes_to_read(packet) = HEADER_SIZE - packet.bytes_read
    BY <1>2, Remaining
  <2>2. packet.bytes_read < HEADER_SIZE
    BY <1>2 DEF ReaderInv, PacketInv, PacketOK
  <2>3. n \in 0..(HEADER_SIZE - packet.bytes_read)
    BY <2>1
  <2>4. CASE n < HEADER_SIZE - packet.bytes_read
    <3>1. p = [packet EXCEPT !.bytes_read = @ + n]
      BY <1>2, <2>3, <2>4, UpdateEmpty
    <3>2. n \in Nat
      BY <2>3, <1>1, SizeAssumption
    <3>3. p \in Packets /\ p.bytes_read = packet.bytes_read + n /\ p.state = "EMPTY"
      BY <1>1, <1>2, <3>1, <3>2 DEF Packets
    <3>4. packet.bytes_read + n < HEADER_SIZE
      BY <1>1, <3>2, <2>4, SizeAssumption
    <3>5. n # get_remaining_bytes_to_read(packet)
      BY <2>1, <2>4, <1>1, <3>2, SizeAssumption
    <3> QED
      BY <1>2, <3>3, <3>4, <3>5 DEF PacketOK
  <2>5. CASE n = HEADER_SIZE - packet.bytes_read
    <3>1. packet.bytes_read + n = HEADER_SIZE
      BY <1>1, <2>5, SizeAssumption
    <3>2. Start \in Abstract!Starts
      BY <1>2, <2>3, <2>5, UpdateEmpty
    <3>3. CASE Abstract!Accepted(header[Start])
      <4>1. p = [state |-> IF header[Start].payload = 0 THEN "COMPLETE"
                           ELSE "HEADER_READ",
                 bytes_read |-> HEADER_SIZE,
                 length |-> header[Start].payload + HEADER_SIZE]
        BY <1>2, <2>3, <2>5, <3>3, UpdateEmpty
      <4>2. header[Start] \in Abstract!Headers
        BY <3>2 DEF ReaderInv, ReaderTypeOK
      <4>3. header[Start].payload \in Nat
        BY <4>2, HeaderType, SizeAssumption
      <4>4. p \in Packets /\ p.state \in {"HEADER_READ", "COMPLETE"}
        BY <4>1, <4>3, SizeAssumption DEF Packets
      <4>5. PacketOK(p, Start)
        BY <3>2, <3>3, <4>1, <4>3, SizeAssumption DEF PacketOK
      <4> QED
        BY <2>1, <2>5, <3>1, <4>1, <4>4, <4>5, SizeAssumption, <1>1
    <3>4. CASE ~Abstract!Accepted(header[Start])
      BY <1>2, <2>1, <2>3, <2>5, <3>1, <3>2, <3>4, UpdateEmpty
    <3> QED
      BY <3>3, <3>4
  <2> QED
    BY <1>1, <2>2, <2>3, <2>4, <2>5, SizeAssumption
<1>3. CASE packet.state = "HEADER_READ"
  <2>1. get_remaining_bytes_to_read(packet) = packet.length - packet.bytes_read
    BY <1>3, Remaining
  <2>2. /\ HEADER_SIZE <= packet.bytes_read /\ packet.bytes_read < packet.length
        /\ Start \in Abstract!Starts
        /\ Abstract!Accepted(header[Start])
        /\ packet.length = header[Start].payload + HEADER_SIZE
    BY <1>3 DEF ReaderInv, PacketInv, PacketOK
  <2>3. n \in 0..(packet.length - packet.bytes_read)
    BY <2>1
  <2>4. n \in Nat /\ n <= packet.length - packet.bytes_read
    BY <1>1, <2>3
  <2>5. p = [state |-> IF n = packet.length - packet.bytes_read THEN "COMPLETE"
                       ELSE "HEADER_READ",
             bytes_read |-> packet.bytes_read + n, length |-> packet.length]
    BY <1>3, <2>3, UpdateHeaderRead
  <2>6. p \in Packets
    BY <1>1, <2>4, <2>5 DEF Packets
  <2>7. PacketOK(p, Start)
    BY <1>1, <2>2, <2>4, <2>5, SizeAssumption DEF PacketOK
  <2> QED
    BY <1>1, <1>3, <2>1, <2>4, <2>5, <2>6, <2>7
<1> QED
  BY <1>1, <1>2, <1>3 DEF Packets

-----------------------------------------------------------------------------

\* The step of the abstract specification that a step of the reader implements.
FramesStep == [Abstract!FramesNext]_(Abstract!framesVars)

\* A step that keeps the frame in work is a stuttering step of Frames.
LEMMA Stutter ==
    ASSUME UNCHANGED <<header, delivered>>, Start' = Start
    PROVE  FramesStep
BY DEF FramesStep, Abstract!framesVars

\* What FirstTry and SecondTry share: a read, and a packet that is still the
\* beginning of the frame at Start.
LEMMA ReadKeeps ==
    ASSUME ReaderInv, packet.state # "COMPLETE",
           NEW n \in 0..get_remaining_bytes_to_read(packet),
           Read(get_remaining_bytes_to_read(packet), n),
           UNCHANGED <<header, tls, arrived, delivered>>,
           packet' \in Packets,
           packet'.bytes_read = packet.bytes_read + n,
           PacketOK(packet', Start),
           packet'.state = "COMPLETE" => pc' = "take",
           pc' = "second" => packet'.state = "HEADER_READ" /\ new_data',
           pc' \in {"second", "take"},
           new_data' \in BOOLEAN,
           n = get_remaining_bytes_to_read(packet) => new_data'
    PROVE  ReaderInv' /\ FramesStep
<1> DEFINE len == get_remaining_bytes_to_read(packet)
<1>1. len \in Nat \ {0}
  BY Remaining
<1>2. /\ consumed' = consumed + n
      /\ consumed' \in 0..arrived
      /\ pulled' \in consumed'..arrived
      /\ n < len => pulled' = consumed'
      /\ ~tls => pulled' = consumed'
  BY <1>1, ReadGives
<1>3. consumed \in Nat /\ packet.bytes_read \in Nat /\ packet.bytes_read <= consumed
  BY PacketType
<1>4. n \in Nat /\ (n < len \/ n = len)
  BY <1>1
<1>5. Start' = Start
  BY <1>2, <1>3, <1>4 DEF Start
<1>6. ReaderTypeOK'
  <2>1. packet'.bytes_read \in 0..consumed'
    BY <1>2, <1>3, <1>4
  <2>2. packet' \in [state : {"EMPTY", "HEADER_READ", "COMPLETE"},
                     bytes_read : 0..consumed', length : Nat]
    BY <2>1 DEF Packets
  <2> QED
    BY <1>2, <2>2 DEF ReaderInv, ReaderTypeOK
<1>7. PacketInv'
  BY <1>5 DEF PacketInv, PacketOK
<1>8. PulledInv'
  BY <1>2 DEF PulledInv
<1>9. PulledIsRead'
  <2>1. CASE n < len
    BY <1>2, <2>1 DEF PulledIsRead
  <2>2. CASE n = len
    BY <2>2 DEF PulledIsRead
  <2> QED
    BY <1>4, <2>1, <2>2
<1>10. FramesStep
  BY <1>5, Stutter
<1> QED
  BY <1>6, <1>7, <1>8, <1>9, <1>10 DEF ReaderInv

LEMMA FirstTryStep ==
    ASSUME ReaderInv, FirstTry
    PROVE  ReaderInv' /\ FramesStep
<1> DEFINE len == get_remaining_bytes_to_read(packet)
<1>1. packet.state # "COMPLETE" /\ new_data
  BY DEF ReaderInv, PacketInv, FirstTry
<1>2. len \in Nat \ {0}
  BY <1>1, Remaining
<1>3. UNCHANGED <<header, tls, arrived, delivered>>
  BY DEF FirstTry
<1>4. PICK n \in 0..len :
        /\ Read(len, n)
        /\ LET p == update_read_bytes(packet, n, Start)
           IN \/ n < len /\ packet' = p /\ new_data' = FALSE /\ pc' = "take"
              \/ /\ n = len /\ p.state = "COMPLETE" /\ packet' = p
                 /\ pc' = "take" /\ UNCHANGED new_data
              \/ /\ n = len /\ p.state = "HEADER_READ" /\ packet' = p
                 /\ pc' = "second" /\ UNCHANGED new_data
              \/ /\ n = len /\ p.state \notin {"COMPLETE", "HEADER_READ"}
                 /\ packet' = EmptyPacket /\ pc' = "take" /\ UNCHANGED new_data
  BY DEF FirstTry, log_invalid_packet_error
<1> DEFINE p == update_read_bytes(packet, n, Start)
<1>5. /\ consumed' = consumed + n
      /\ consumed' \in 0..arrived
      /\ pulled' \in consumed'..arrived
      /\ ~tls => pulled' = consumed'
  BY <1>2, <1>3, <1>4, ReadGives
<1>6. arrived \in 0..MaxBytes
  BY DEF ReaderInv, ReaderTypeOK
<1>7. consumed + n <= MaxBytes
  BY <1>5, <1>6, SizeAssumption
<1>8. n \in Nat /\ (n < len \/ n = len) /\ ~(n < len /\ n = len)
  BY <1>2, <1>4
<1>9. CASE p.state \in {"INVALID_HEADER", "PAYLOAD_TO_LONG"}
  <2>1. /\ n = len
        /\ packet.bytes_read + n = HEADER_SIZE
        /\ Start \in Abstract!Starts
        /\ ~Abstract!Accepted(header[Start])
    BY <1>1, <1>4, <1>7, <1>9, ReadUpdates DEF Packets
  <2>2. packet' = EmptyPacket /\ pc' = "take" /\ new_data' = new_data
    BY <1>4, <1>8, <1>9, <2>1
  <2>3. consumed \in Nat /\ packet.bytes_read \in Nat /\ packet.bytes_read <= consumed
    BY PacketType
  <2>4. Start' = Start + HEADER_SIZE
    BY <1>5, <1>8, <2>1, <2>2, <2>3, SizeAssumption DEF Start, EmptyPacket
  <2>5. ReaderTypeOK'
    <3>1. 0 \in 0..consumed' /\ 0 \in Nat
      BY <1>5, <1>6, SizeAssumption
    <3>2. packet' \in [state : {"EMPTY", "HEADER_READ", "COMPLETE"},
                       bytes_read : 0..consumed', length : Nat]
      BY <2>2, <3>1 DEF EmptyPacket
    <3> QED
      BY <1>3, <1>5, <2>2, <3>2 DEF ReaderInv, ReaderTypeOK
  <2>6. PacketInv'
    BY <2>2, SizeAssumption DEF PacketInv, PacketOK, EmptyPacket
  <2>7. PulledInv' /\ PulledIsRead'
    BY <1>1, <1>3, <1>5, <2>2 DEF PulledInv, PulledIsRead
  <2>8. Abstract!Skip
    BY <1>3, <2>1, <2>4 DEF Abstract!Skip
  <2> QED
    BY <2>5, <2>6, <2>7, <2>8 DEF ReaderInv, FramesStep, Abstract!FramesNext
<1>10. CASE p.state \notin {"INVALID_HEADER", "PAYLOAD_TO_LONG"}
  <2>1. /\ p \in Packets
        /\ p.bytes_read = packet.bytes_read + n
        /\ PacketOK(p, Start)
        /\ n < len => p.state = packet.state
        /\ n = len => p.state # "EMPTY"
    BY <1>1, <1>4, <1>7, <1>10, ReadUpdates
  <2>2. p.state \in {"EMPTY", "HEADER_READ", "COMPLETE"}
    BY <2>1 DEF Packets
  <2> HIDE DEF p
  <2>3. /\ packet' = p
        /\ pc' \in {"second", "take"}
        /\ packet'.state = "COMPLETE" => pc' = "take"
        /\ pc' = "second" => packet'.state = "HEADER_READ" /\ new_data'
        /\ new_data' \in BOOLEAN
        /\ n = len => new_data'
    BY <1>1, <1>4, <1>8, <2>1, <2>2 DEF p
  <2> QED
    BY <1>1, <1>3, <1>4, <2>1, <2>3, ReadKeeps
<1> QED
  BY <1>9, <1>10

LEMMA SecondTryStep ==
    ASSUME ReaderInv, SecondTry
    PROVE  ReaderInv' /\ FramesStep
<1> DEFINE len == get_remaining_bytes_to_read(packet)
<1>1. packet.state = "HEADER_READ" /\ UNCHANGED <<header, tls, arrived, delivered>>
  BY DEF ReaderInv, PacketInv, SecondTry
<1>2. len \in Nat \ {0} /\ len = packet.length - packet.bytes_read
  BY <1>1, Remaining
<1>3. PICK n \in 0..len :
        /\ Read(len, n)
        /\ LET p == update_read_bytes(packet, n, Start)
           IN packet' = IF n = len /\ p.state # "COMPLETE"
                        THEN log_invalid_packet_error(p) ELSE p
        /\ new_data' = (n = len)
        /\ pc' = "take"
  BY DEF SecondTry
<1> DEFINE p == update_read_bytes(packet, n, Start)
<1>4. consumed + n <= MaxBytes
  <2>1. consumed' = consumed + n /\ consumed' \in 0..arrived
    BY <1>1, <1>2, <1>3, ReadGives
  <2> QED
    BY <2>1, SizeAssumption DEF ReaderInv, ReaderTypeOK
<1>5. p = [state |-> IF n = packet.length - packet.bytes_read THEN "COMPLETE"
                     ELSE "HEADER_READ",
           bytes_read |-> packet.bytes_read + n, length |-> packet.length]
  BY <1>1, <1>2, <1>3, UpdateHeaderRead
<1>6. p.state \in {"HEADER_READ", "COMPLETE"} /\ (n = len => p.state = "COMPLETE")
  BY <1>2, <1>5
<1>7. /\ p \in Packets
      /\ p.bytes_read = packet.bytes_read + n
      /\ PacketOK(p, Start)
  BY <1>1, <1>3, <1>4, <1>6, ReadUpdates
<1>8. packet' = p
  BY <1>3, <1>6
<1> HIDE DEF p
<1> QED
  BY <1>1, <1>3, <1>7, <1>8, ReadKeeps

LEMMA TakeStep ==
    ASSUME ReaderInv, Take
    PROVE  ReaderInv' /\ FramesStep
<1>1. /\ UNCHANGED <<header, tls, arrived, pulled, consumed, new_data>>
      /\ pc' = "callbacks"
  BY DEF Take
<1>2. /\ consumed \in Nat /\ packet.bytes_read \in Nat /\ packet.length \in Nat
      /\ packet.bytes_read <= consumed
  BY PacketType
<1>3. CASE packet.state # "COMPLETE"
  <2>1. UNCHANGED <<packet, delivered>>
    BY <1>3 DEF Take
  <2>2. Start' = Start
    BY <1>1, <2>1 DEF Start
  <2>3. ReaderTypeOK'
    BY <1>1, <2>1 DEF ReaderInv, ReaderTypeOK
  <2>4. PacketInv'
    BY <1>1, <1>3, <2>1, <2>2 DEF ReaderInv, PacketInv, PacketOK
  <2>5. PulledInv' /\ PulledIsRead'
    BY <1>1 DEF ReaderInv, PulledInv, PulledIsRead
  <2> QED
    BY <1>1, <2>1, <2>2, <2>3, <2>4, <2>5, Stutter DEF ReaderInv
<1>4. CASE packet.state = "COMPLETE"
  <2>1. /\ delivered' = Append(delivered, [at |-> Start, length |-> packet.length])
        /\ packet' = EmptyPacket
    BY <1>4 DEF Take
  <2>2. /\ Start \in Abstract!Starts
        /\ Abstract!Accepted(header[Start])
        /\ packet.length = header[Start].payload + HEADER_SIZE
        /\ packet.bytes_read = packet.length
    BY <1>4 DEF ReaderInv, PacketInv, PacketOK
  <2>3. Start \in Nat /\ Start' = Start + packet.length
    BY <1>1, <1>2, <2>1, <2>2 DEF Start, EmptyPacket
  <2>4. ReaderTypeOK'
    <3>1. delivered' \in Seq([at : Nat, length : Nat])
      BY <1>2, <2>1, <2>3 DEF ReaderInv, ReaderTypeOK
    <3>2. 0 \in 0..consumed' /\ 0 \in Nat
      BY <1>1, <1>2
    <3>3. packet' \in [state : {"EMPTY", "HEADER_READ", "COMPLETE"},
                       bytes_read : 0..consumed', length : Nat]
      BY <2>1, <3>2 DEF EmptyPacket
    <3> QED
      BY <1>1, <3>1, <3>3 DEF ReaderInv, ReaderTypeOK
  <2>5. PacketInv'
    BY <1>1, <2>1, SizeAssumption DEF PacketInv, PacketOK, EmptyPacket
  <2>6. PulledInv' /\ PulledIsRead'
    BY <1>1 DEF ReaderInv, PulledInv, PulledIsRead
  <2>7. Abstract!Deliver
    BY <1>1, <2>1, <2>2, <2>3 DEF Abstract!Deliver
  <2> QED
    BY <2>4, <2>5, <2>6, <2>7 DEF ReaderInv, FramesStep, Abstract!FramesNext
<1> QED
  BY <1>3, <1>4

LEMMA ReaderStep ==
    ASSUME ReaderInv, [ReaderNext]_readerVars
    PROVE  ReaderInv' /\ FramesStep
<1>1. CASE Arrive
  <2>1. PICK k \in 1..(MaxBytes - arrived) : arrived' = arrived + k
    BY <1>1 DEF Arrive
  <2>2. /\ UNCHANGED <<header, tls, pulled, consumed, new_data, packet, pc, delivered>>
        /\ Start' = Start
    BY <1>1 DEF Arrive, Start
  <2>3. arrived \in 0..MaxBytes /\ consumed \in 0..arrived /\ pulled \in consumed..arrived
    BY DEF ReaderInv, ReaderTypeOK
  <2>4. /\ arrived' \in 0..MaxBytes /\ consumed' \in 0..arrived'
        /\ pulled' \in consumed'..arrived'
    BY <2>1, <2>2, <2>3, SizeAssumption
  <2>5. ReaderTypeOK'
    BY <2>2, <2>4 DEF ReaderInv, ReaderTypeOK
  <2>6. PacketInv' /\ PulledInv' /\ PulledIsRead'
    BY <2>2 DEF ReaderInv, PacketInv, PacketOK, PulledInv, PulledIsRead
  <2> QED
    BY <2>2, <2>5, <2>6, Stutter DEF ReaderInv
<1>2. CASE HandleData
  <2>1. /\ UNCHANGED <<header, tls, arrived, pulled, consumed, packet, delivered>>
        /\ new_data' = (new_data \/ Readable) /\ pc = "callbacks" /\ pc' = "first"
        /\ Start' = Start
    BY <1>2 DEF HandleData, Start
  <2>2. new_data \in BOOLEAN /\ new_data' \in BOOLEAN /\ (new_data => new_data')
    BY <2>1, Zenon DEF ReaderInv, ReaderTypeOK
  <2>3. ReaderTypeOK'
    BY <2>1, <2>2 DEF ReaderInv, ReaderTypeOK
  <2>4. PacketInv'
    BY <2>1 DEF ReaderInv, PacketInv, PacketOK
  <2>5. PulledInv' /\ PulledIsRead'
    BY <2>1, <2>2 DEF ReaderInv, PulledInv, PulledIsRead
  <2> QED
    BY <2>1, <2>3, <2>4, <2>5, Stutter DEF ReaderInv
<1>3. CASE FirstTry
  BY <1>3, FirstTryStep
<1>4. CASE NoData
  <2>1. /\ UNCHANGED <<header, tls, arrived, pulled, consumed, new_data, packet, delivered>>
        /\ pc = "first" /\ pc' = "take" /\ Start' = Start
    BY <1>4 DEF NoData, Start
  <2>2. ReaderTypeOK'
    BY <2>1 DEF ReaderInv, ReaderTypeOK
  <2>3. PacketInv' /\ PulledInv' /\ PulledIsRead'
    BY <2>1 DEF ReaderInv, PacketInv, PacketOK, PulledInv, PulledIsRead
  <2> QED
    BY <2>1, <2>2, <2>3, Stutter DEF ReaderInv
<1>5. CASE SecondTry
  BY <1>5, SecondTryStep
<1>6. CASE Take
  BY <1>6, TakeStep
<1>7. CASE UNCHANGED readerVars
  <2>1. /\ UNCHANGED <<header, tls, arrived, pulled, consumed, new_data, packet, pc,
                       delivered>>
        /\ Start' = Start
    BY <1>7 DEF readerVars, Start
  <2>2. ReaderTypeOK'
    BY <2>1 DEF ReaderInv, ReaderTypeOK
  <2>3. PacketInv' /\ PulledInv' /\ PulledIsRead'
    BY <2>1 DEF ReaderInv, PacketInv, PacketOK, PulledInv, PulledIsRead
  <2> QED
    BY <2>1, <2>2, <2>3, Stutter DEF ReaderInv
<1> QED
  BY <1>1, <1>2, <1>3, <1>4, <1>5, <1>6, <1>7 DEF ReaderNext, LoopStep

LEMMA ReaderStarts ==
    ASSUME ReaderInit
    PROVE  ReaderInv /\ Abstract!FramesInit
<1>1. Start = 0
  BY DEF ReaderInit, Start, EmptyPacket
<1>2. ReaderTypeOK
  <2>1. 0 \in 0..MaxBytes /\ 0 \in 0..0 /\ 0 \in Nat
    BY SizeAssumption
  <2>2. packet \in [state : {"EMPTY", "HEADER_READ", "COMPLETE"},
                    bytes_read : 0..consumed, length : Nat]
    BY <2>1 DEF ReaderInit, EmptyPacket
  <2>3. delivered \in Seq([at : Nat, length : Nat])
    BY DEF ReaderInit
  <2>4. arrived \in 0..MaxBytes /\ consumed \in 0..arrived /\ pulled \in consumed..arrived
    BY <2>1 DEF ReaderInit
  <2> QED
    BY <2>2, <2>3, <2>4 DEF ReaderInit, ReaderTypeOK
<1>3. PacketInv
  BY SizeAssumption DEF ReaderInit, PacketInv, PacketOK, EmptyPacket
<1>4. PulledInv /\ PulledIsRead
  BY DEF ReaderInit, PulledInv, PulledIsRead
<1> QED
  BY <1>1, <1>2, <1>3, <1>4 DEF ReaderInv, ReaderInit, Abstract!FramesInit

-----------------------------------------------------------------------------

\* The inductive invariant of the reader.
THEOREM ReaderInvariant == ReaderSpec => []ReaderInv
<1>1. ReaderInit => ReaderInv
  BY ReaderStarts
<1>2. ReaderInv /\ [ReaderNext]_readerVars => ReaderInv'
  BY ReaderStep
<1> QED
  BY <1>1, <1>2, PTL DEF ReaderSpec

\* Every variable of the reader has its type.
THEOREM ReaderTypeCorrect == ReaderSpec => []ReaderTypeOK
<1>1. ReaderInv => ReaderTypeOK
  BY DEF ReaderInv
<1> QED
  BY <1>1, ReaderInvariant, PTL

\* get_remaining_bytes_to_read never asks for more than the buffer has room for, and
\* its subtraction never wraps around, whatever lengths the headers announce.
THEOREM BufferIsRespected == ReaderSpec => []BufferRespected
<1>1. ReaderInv => BufferRespected
  <2> SUFFICES ASSUME ReaderInv PROVE BufferRespected
    OBVIOUS
  <2>1. packet.bytes_read \in Nat /\ packet.length \in Nat
    BY PacketType
  <2>2. packet.state \in {"EMPTY", "HEADER_READ", "COMPLETE"}
    BY DEF ReaderInv, ReaderTypeOK
  <2>3. CASE packet.state = "EMPTY"
    BY <2>1, <2>3, Remaining, SizeAssumption DEF BufferRespected
  <2>4. CASE packet.state \in {"HEADER_READ", "COMPLETE"}
    <3>1. /\ Start \in Abstract!Starts
          /\ Abstract!Accepted(header[Start])
          /\ packet.length = header[Start].payload + HEADER_SIZE
          /\ packet.state = "COMPLETE" => packet.bytes_read = packet.length
      BY <2>4 DEF ReaderInv, PacketInv, PacketOK
    <3>2. packet.length <= BUFFER_SIZE
      BY <3>1 DEF Abstract!Accepted
    <3>3. CASE packet.state = "HEADER_READ"
      BY <2>1, <3>2, <3>3, Remaining, SizeAssumption DEF BufferRespected
    <3>4. CASE packet.state = "COMPLETE"
      <4>1. get_remaining_bytes_to_read(packet) = 0
        BY <3>4 DEF get_remaining_bytes_to_read
      <4> QED
        BY <2>1, <3>1, <3>2, <3>4, <4>1, SizeAssumption DEF BufferRespected
    <3> QED
      BY <2>4, <3>3, <3>4
  <2> QED
    BY <2>2, <2>3, <2>4
<1> QED
  BY <1>1, ReaderInvariant, PTL

\* The assertion of read_single_sdp_packet holds, and no read asks for 0 bytes.
THEOREM AlwaysReadsSomething == ReaderSpec => []ReadsSomething
<1>1. ReaderInv => ReadsSomething
  <2> SUFFICES ASSUME ReaderInv PROVE ReadsSomething
    OBVIOUS
  <2>1. packet.state \in {"EMPTY", "HEADER_READ", "COMPLETE"}
    BY DEF ReaderInv, ReaderTypeOK
  <2>2. CASE packet.state = "COMPLETE"
    BY <2>2 DEF ReaderInv, PacketInv, ReadsSomething
  <2>3. CASE packet.state # "COMPLETE"
    <3>1. get_remaining_bytes_to_read(packet) \in Nat \ {0}
      BY <2>3, Remaining
    <3> QED
      BY <2>1, <2>3, <3>1 DEF ReadsSomething
  <2> QED
    BY <2>2, <2>3
<1> QED
  BY <1>1, ReaderInvariant, PTL

\* new_data stays set as long as bytes were pulled from the socket and not read.
THEOREM PulledBytesAreRead == ReaderSpec => []PulledIsRead
<1>1. ReaderInv => PulledIsRead
  BY DEF ReaderInv
<1> QED
  BY <1>1, ReaderInvariant, PTL

\* However the stream is cut into pieces and records, the reader hands on the packets
\* that Frames finds in it, each once and in order.
THEOREM ReaderKeepsFrames == ReaderSpec => FramesKept
<1>1. ReaderInit => Abstract!FramesInit
  BY ReaderStarts
<1>2. ReaderInv /\ [ReaderNext]_readerVars => [Abstract!FramesNext]_(Abstract!framesVars)
  BY ReaderStep DEF FramesStep
<1> QED
  BY <1>1, <1>2, ReaderInvariant, PTL DEF ReaderSpec, FramesKept, Abstract!FramesSpec

=============================================================================
