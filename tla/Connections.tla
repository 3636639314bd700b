---------------------------- MODULE Connections ----------------------------
(***************************************************************************)
(* The descriptors of the program: TbdController::loop with its            *)
(* PollManager, the socket of the SDP server, and the connection of the    *)
(* one session, plain (ConnectionPlain) or TLS (ConnectionSSL).  The       *)
(* session itself is reduced to what it does with its connection; see      *)
(* IsoSession for the rest of it.                                          *)
(***************************************************************************)
EXTENDS Naturals, FiniteSetsExt

CONSTANTS
    MaxFd,              \* the descriptors a process may have (RLIMIT_NOFILE)
    MaxConnections      \* bound: connections made

ASSUME ConnectionsAssumption ==
    /\ MaxFd \in Nat \ {0}
    /\ MaxConnections \in Nat \ {0}

VARIABLES
    enable_sdp_server,  \* config
    strategy,           \* config.tls_negotiation_strategy
    pc,                 \* where loop() is
    open,               \* the descriptors the process has
    readable,           \* those with something to read, or to accept
    registered_fds,     \* PollManager::registered_fds: fd -> callback
    revents,            \* the descriptors of poll_set still to be looked at
    conn,               \* the connection of the session, or NoConn
    connected,          \* Session::state.connected
    new_data,           \* Session::state.new_data
    talked,             \* the session has read from its connection
    announced,          \* the security named in the last SDP response
    made,               \* history: connections made
    left                \* history: what was destroyed without being closed

config == <<enable_sdp_server, strategy>>
kernel == <<open, readable>>
pollManager == <<registered_fds, revents>>
session == <<conn, connected, new_data, talked, announced, made>>
connVars == <<config, pc, kernel, pollManager, session, left>>

Fds == 1..MaxFd
Strategies == {"ACCEPT_CLIENT_OFFER", "ENFORCE_TLS", "ENFORCE_NO_TLS"}
Securities == {"TLS", "NO_TRANSPORT_SECURITY", "unknown"}

\* fd is the listening socket and, once the EV is accepted, its socket; open is
\* connection_open of the plain and handshake_complete of the TLS connection.
NoConn == [id |-> 0, tls |-> FALSE, fd |-> 0, open |-> FALSE]

\* The callback of a descriptor: a handler of the connection with this id, of
\* which there may be none any more; 0 is the controller.
Callback(id, handler) == [id |-> id, handler |-> handler]

-----------------------------------------------------------------------------
(* The kernel and the PollManager *)

\* socket() and accept() give the least free number.
NextFd(o) == Min(Fds \ o)

\* emplace: a descriptor that is registered keeps its callback.
register_fd(r, f, cb) ==
    [g \in DOMAIN r \cup {f} |-> IF g \in DOMAIN r THEN r[g] ELSE cb]

unregister_fd(r, f) == [g \in DOMAIN r \ {f} |-> r[g]]

\* After every change the poll set is built anew, with no revents: a loop over the
\* old one finds nothing more to do.
create_poll_set_keeps == revents
create_poll_set == {}

\* Something arrives: a datagram, a vehicle that connects, bytes or the end of a
\* stream.
Arrives ==
    /\ \E f \in (open \cap DOMAIN registered_fds) \ readable :
          readable' = readable \cup {f}
    /\ UNCHANGED <<config, pc, open, pollManager, session, left>>

\* ::poll reports what is readable; a number that is not open has no POLLIN.
Wait ==
    /\ pc = "poll"
    /\ pc' = "dispatch"
    /\ revents' = readable \cap DOMAIN registered_fds
    /\ UNCHANGED <<config, kernel, registered_fds, session, left>>

\* ::poll fails, for instance because of a signal, and loop() ends.
PollFails ==
    /\ pc = "poll"
    /\ pc' = "ended"
    /\ UNCHANGED <<config, kernel, pollManager, session, left>>

\* The loop over the poll set is at f and calls the handler of the object id.
Called(f, id, handler) ==
    /\ pc = "dispatch"
    /\ revents # {}
    /\ f = Min(revents)
    /\ registered_fds[f] = Callback(id, handler)

\* A handler returned, and the loop goes on after f.
Handled_first(f) == revents' = {}
Handled(f) == revents' = revents \ {f}

Dispatched ==
    /\ pc = "dispatch"
    /\ revents = {}
    /\ pc' = "session"
    /\ UNCHANGED <<config, kernel, pollManager, session, left>>

\* The handler of a connection that was destroyed: anything may happen.
CallsDestroyed ==
    /\ \E f \in revents, handler \in {"connect", "data"} :
          \E id \in (1..made) \ {conn.id} : Called(f, id, handler)
    /\ pc' = "undefined"
    /\ UNCHANGED <<config, kernel, pollManager, session, left>>

-----------------------------------------------------------------------------
(* Connections *)

\* The constructors of the connections and of Session, when the process has the
\* descriptors o and the callbacks r.
Constructed(tls, o, r) ==
    /\ o # Fds
    /\ LET f == NextFd(o) IN
          /\ open' = o \cup {f}
          /\ registered_fds' = register_fd(r, f, Callback(made + 1, "connect"))
          /\ conn' = [id |-> made + 1, tls |-> tls, fd |-> f, open |-> FALSE]
    /\ revents' = create_poll_set
    /\ made' = made + 1
    /\ connected' = FALSE
    /\ new_data' = FALSE
    /\ talked' = FALSE

\* They throw: before there is a socket, or with one that nobody closes.
ConstructorThrows(o, l) ==
    \/ open' = o /\ left' = l
    \/ o # Fds /\ open' = o \cup {NextFd(o)} /\ left' = l \cup {"socket"}

\* The listening socket f is exchanged for that of the vehicle, g.
Exchanged_open(f, g) ==
    /\ open' = open \cup {g}
    /\ readable' = readable
    /\ registered_fds' = register_fd(unregister_fd(registered_fds, f), g,
                                     Callback(conn.id, "data"))
    /\ revents' = create_poll_set

Exchanged_swapped(f, g) ==
    /\ open' = (open \ {f}) \cup {g}
    /\ readable' = readable \ {f}
    /\ registered_fds' = unregister_fd(register_fd(registered_fds, g,
                                       Callback(conn.id, "data")), g)
    /\ revents' = create_poll_set

Exchanged(f, g) ==
    /\ open' = (open \ {f}) \cup {g}
    /\ readable' = readable \ {f}
    /\ registered_fds' = register_fd(unregister_fd(registered_fds, f), g,
                                     Callback(conn.id, "data"))
    /\ revents' = create_poll_set

\* handle_connect: ACCEPTED, and OPEN at once if there is no handshake.
HandleConnect(f) ==
    /\ Called(f, conn.id, "connect")
    /\ open # Fds
    /\ Exchanged(f, NextFd(open))
    /\ conn' = [conn EXCEPT !.fd = NextFd(open), !.open = ~conn.tls]
    /\ connected' = TRUE
    /\ UNCHANGED <<config, pc, new_data, talked, announced, made, left>>

\* accept4 or BIO_accept_ex fails, always if there is no free descriptor; the
\* exception goes through PollManager::poll and ends loop().
AcceptFails(f) ==
    /\ Called(f, conn.id, "connect")
    /\ pc' = "ended"
    /\ UNCHANGED <<config, kernel, pollManager, session, left>>

\* handle_data of an open connection.
HandleData(f) ==
    /\ Called(f, conn.id, "data")
    /\ conn.open
    /\ new_data' = TRUE
    /\ Handled(f)
    /\ UNCHANGED <<config, pc, kernel, registered_fds, conn, connected, talked,
                   announced, made, left>>

\* handle_data in the handshake: SSL_accept wants more.
HandshakeGoesOn_falls(f) ==
    /\ Called(f, conn.id, "data")
    /\ ~conn.open
    /\ readable' = readable \ {f}
    /\ new_data' = TRUE
    /\ Handled(f)
    /\ UNCHANGED <<config, pc, open, registered_fds, conn, connected, talked,
                   announced, made, left>>

HandshakeGoesOn(f) ==
    /\ Called(f, conn.id, "data")
    /\ ~conn.open
    /\ readable' = readable \ {f}
    /\ Handled(f)
    /\ UNCHANGED <<config, pc, open, registered_fds, session, left>>

\* It is complete; what came after it is reported by the next poll.
HandshakeComplete(f) ==
    /\ Called(f, conn.id, "data")
    /\ ~conn.open
    /\ conn' = [conn EXCEPT !.open = TRUE]
    /\ readable' \in {readable, readable \ {f}}
    /\ Handled(f)
    /\ UNCHANGED <<config, pc, open, registered_fds, connected, new_data, talked,
                   announced, made, left>>

\* It fails, and the exception ends loop().
HandshakeFails(f) ==
    /\ Called(f, conn.id, "data")
    /\ ~conn.open
    /\ pc' = "ended"
    /\ UNCHANGED <<config, kernel, pollManager, session, left>>

-----------------------------------------------------------------------------
(* TbdController *)

\* handle_sdp_server_input takes one datagram; there may be another.
DatagramTaken(f) ==
    /\ Called(f, 0, "sdp")
    /\ readable' \in {readable, readable \ {f}}

\* It is not a request, or there is a session.
SdpIgnored(f) ==
    /\ DatagramTaken(f)
    /\ Handled(f)
    /\ UNCHANGED <<config, pc, open, registered_fds, session, left>>

Negotiated_offer(security) == security
Negotiated(security) ==
    CASE strategy = "ACCEPT_CLIENT_OFFER" -> security
      [] strategy = "ENFORCE_TLS" -> "TLS"
      [] strategy = "ENFORCE_NO_TLS" -> "NO_TRANSPORT_SECURITY"

\* SdpServer::send_response; the endpoint is that of the one connection.
send_response(security) == announced' = security

\* A request makes a connection and a session, and the response tells the vehicle
\* where to connect.
SdpConnect(f, security) ==
    /\ DatagramTaken(f)
    /\ conn = NoConn
    /\ made < MaxConnections
    /\ Constructed(Negotiated(security) = "TLS", open, registered_fds)
    /\ send_response(Negotiated(security))
    /\ UNCHANGED <<config, pc, left>>

\* There is none: the request is ignored.
SdpConnectFails(f) ==
    /\ DatagramTaken(f)
    /\ conn = NoConn
    /\ ConstructorThrows(open, left)
    /\ Handled(f)
    /\ UNCHANGED <<config, pc, registered_fds, session>>

NoSession ==
    /\ pc = "session"
    /\ ~connected
    /\ pc' = "poll"
    /\ UNCHANGED <<config, kernel, pollManager, session, left>>

\* Session::poll() returns and the session is not finished.  With new_data it read
\* until the connection had no more, or a packet and perhaps less than there was.
SessionGoesOn ==
    /\ pc = "session"
    /\ connected
    /\ talked' = (talked \/ new_data)
    /\ \/ /\ new_data
          /\ new_data' = FALSE
          /\ readable' = readable \ {conn.fd}
       \/ /\ new_data' = new_data
          /\ readable' \in IF new_data THEN {readable, readable \ {conn.fd}}
                                       ELSE {readable}
    /\ pc' = "poll"
    /\ UNCHANGED <<config, open, pollManager, conn, connected, announced, made, left>>

\* The session is destroyed, which leaves the descriptors o and the callbacks r.
\* Without an SDP server the next one is made at once; if this throws, loop() does.
Destroyed(o, r, l) ==
    /\ pc = "session"
    /\ connected
    /\ talked \/ new_data
    /\ readable' = readable \cap o
    /\ \/ /\ ~enable_sdp_server
          /\ made < MaxConnections
          /\ Constructed(FALSE, o, r)
          /\ pc' = "poll"
          /\ left' = l
       \/ /\ IF enable_sdp_server
             THEN pc' = "poll" /\ open' = o /\ left' = l
             ELSE pc' = "ended" /\ ConstructorThrows(o, l)
          /\ registered_fds' = r
          /\ conn' = NoConn
          /\ connected' = FALSE
          /\ new_data' = FALSE
          /\ talked' = FALSE
          /\ UNCHANGED <<revents, made>>
    /\ UNCHANGED <<config, announced>>

\* Session::poll() stopped or paused the session: the connection is destroyed as it
\* is.  Only the TLS one frees its socket (SSL_free, BIO_CLOSE), and none takes its
\* callback back.
SessionFinished ==
    Destroyed(IF conn.tls THEN open \ {conn.fd} ELSE open, registered_fds,
              left \cup {IF conn.tls THEN "tls" ELSE "plain"})

\* close() of the connections gives the descriptor back, and takes the callback back.
\* That SSL_free closes the number once more has no effect here.
close_open == open \ {conn.fd}

close_registered_keeps == registered_fds
close_registered == unregister_fd(registered_fds, conn.fd)

\* Session::poll() throws: Session::close closes the connection first.
SessionThrows == Destroyed(close_open, close_registered, left)

-----------------------------------------------------------------------------

\* The constructor of TbdController and the first lines of loop().
ConnInit ==
    /\ enable_sdp_server \in BOOLEAN
    /\ strategy \in Strategies
    /\ pc = "poll"
    /\ open = {1}
    /\ readable = {}
    /\ registered_fds = [f \in {1} |-> IF enable_sdp_server THEN Callback(0, "sdp")
                                                            ELSE Callback(1, "connect")]
    /\ revents = {}
    /\ conn = IF enable_sdp_server
              THEN NoConn
              ELSE [id |-> 1, tls |-> FALSE, fd |-> 1, open |-> FALSE]
    /\ connected = FALSE
    /\ new_data = FALSE
    /\ talked = FALSE
    /\ announced = "none"
    /\ made = conn.id
    /\ left = {}

\* loop() at a callback of the descriptor f.
Calls(f) ==
    \/ SdpIgnored(f)
    \/ \E s \in Securities : SdpConnect(f, s)
    \/ SdpConnectFails(f)
    \/ HandleConnect(f) \/ AcceptFails(f)
    \/ HandleData(f)
    \/ HandshakeGoesOn(f) \/ HandshakeComplete(f) \/ HandshakeFails(f)

Loop ==
    \/ Wait \/ PollFails
    \/ \E f \in revents : Calls(f)
    \/ CallsDestroyed
    \/ Dispatched
    \/ NoSession \/ SessionGoesOn \/ SessionFinished \/ SessionThrows

ConnNext == Arrives \/ Loop

ConnSpec == ConnInit /\ [][ConnNext]_connVars

\* loop() is one thread that is never blocked for longer than its poll timeout;
\* nothing is assumed of the vehicle.
FairConnSpec == ConnSpec /\ WF_connVars(Loop)

-----------------------------------------------------------------------------
(* Properties *)

\* Types; what is readable is open, and the loop over the poll set only meets
\* descriptors that are registered (its callbacks are pointers into the map).
ConnTypeOK ==
    /\ enable_sdp_server \in BOOLEAN
    /\ strategy \in Strategies
    /\ pc \in {"poll", "dispatch", "session", "ended", "undefined"}
    /\ open \subseteq Fds
    /\ readable \subseteq open
    /\ DOMAIN registered_fds \subseteq Fds
    /\ \A f \in DOMAIN registered_fds :
          registered_fds[f] \in [id : 0..MaxConnections,
                                handler : {"sdp", "connect", "data"}]
    /\ revents \subseteq DOMAIN registered_fds
    /\ conn \in [id : 0..MaxConnections, tls : BOOLEAN, fd : Fds \cup {0}, open : BOOLEAN]
    /\ connected \in BOOLEAN
    /\ new_data \in BOOLEAN
    /\ talked \in BOOLEAN
    /\ announced \in Securities \cup {"none"}
    /\ made \in 0..MaxConnections
    /\ left \subseteq {"tls", "plain", "socket"}

\* Until a session is destroyed with its connection open (tbd_controller.cpp:70), no
\* callback outlives its object: all belong to the controller or to the connection of
\* the session, through every accept, error and new session.
CallbacksLive ==
    left \cap {"tls", "plain"} = {} =>
        /\ pc # "undefined"
        /\ \A f \in DOMAIN registered_fds :
              registered_fds[f] = Callback(0, "sdp")
              \/ (registered_fds[f].id = conn.id /\ f = conn.fd)

\* The connection of the session is always watched, with the handler of its phase:
\* its socket is open and registered for handle_connect before the vehicle is
\* accepted and for handle_data after it.  A plain connection that was left open
\* does not disturb the next one; a TLS one does, because its number is free again
\* and register_fd does not replace the old callback.
AlwaysWatched ==
    (conn # NoConn /\ "tls" \notin left) =>
        /\ conn.fd \in open \cap DOMAIN registered_fds
        /\ registered_fds[conn.fd] =
              Callback(conn.id, IF connected THEN "data" ELSE "connect")

\* The assertions of the code: NEW_DATA and OPEN come after ACCEPTED, a session reads
\* and writes only when connection_open or handshake_complete, handle_data of a plain
\* connection is called only when it is open.
AssertionsHold ==
    /\ new_data \/ conn.open => connected
    /\ new_data \/ talked => conn.open
    /\ connected /\ ~conn.tls => conn.open

\* Until something is destroyed without being closed, the process has the socket of
\* the SDP server and that of its connection, and no other.
NothingLeaks ==
    left = {} => open = (IF enable_sdp_server THEN {1} ELSE {})
                            \cup (IF conn = NoConn THEN {} ELSE {conn.fd})

\* With the SDP server, a session is made with the security that was announced to the
\* vehicle, and never reads from a connection the strategy does not allow.
SecurityKept ==
    (enable_sdp_server /\ conn # NoConn) =>
        /\ conn.tls <=> announced = "TLS"
        /\ strategy = "ENFORCE_TLS" => conn.tls
        /\ strategy = "ENFORCE_NO_TLS" => ~conn.tls

\* Whatever arrives for the connection of the session is taken, however many SDP
\* requests arrive meanwhile: the loop over the poll set gives every descriptor its
\* turn, and a callback that rebuilds the set only delays the others to the next poll.
ArrivedIsTaken ==
    (conn # NoConn /\ conn.fd \in readable)
        ~> (conn.fd \notin readable \/ new_data \/ pc \in {"ended", "undefined"})

=============================================================================
