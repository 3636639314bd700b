------------------------- MODULE ConnectionsProofs -------------------------
(***************************************************************************)
(* Theorems about the descriptors of the program, for every number of      *)
(* descriptors and of connections.                                         *)
(***************************************************************************)
EXTENDS Connections, WellFoundedInduction, TLAPS

-----------------------------------------------------------------------------
(* The least free descriptor *)

LEMMA LeastNatural ==
    ASSUME NEW T, T \subseteq Nat, T # {}
    PROVE  Min(T) \in T
<1>. DEFINE less == OpToRel(<, Nat)
<1>1. \A m, n \in Nat : m < n => <<m, n>> \in less
  BY Zenon DEF OpToRel
<1>2. IsWellFoundedOn(less, Nat)
  BY NatLessThanWellFounded
<1>. HIDE DEF less
<1>3. PICK n \in T : \A m \in T : ~(<<m, n>> \in less)
  BY <1>2, WFMin
<1>4. ASSUME NEW m \in T PROVE n <= m
  <2>1. m \in Nat /\ n \in Nat
    OBVIOUS
  <2>2. ~(m < n)
    BY <1>1, <1>3, <2>1, Zenon
  <2>. QED BY <2>1, <2>2
<1>. QED BY <1>4 DEF Min

-----------------------------------------------------------------------------
(* The inductive invariant *)

\* poll_set has no revents but while the loop over it runs.
LoopInv == pc \in {"poll", "session"} => revents = {}

\* The connection of the session is the last one made, and only its session has
\* been connected.
SessionConnInv ==
    /\ conn = NoConn => ~connected /\ ~new_data /\ ~talked
    /\ conn # NoConn => conn.id = made /\ conn.id # 0 /\ conn.fd # 0

\* A callback belongs to the controller or to a connection that was made; that of the
\* connection of the session is the one for its socket, with the handler of its phase.
CallbackInv ==
    \A f \in DOMAIN registered_fds :
        LET cb == registered_fds[f]
        IN  /\ cb.id <= made
            /\ cb.id = 0 <=> cb.handler = "sdp"
            /\ (conn # NoConn /\ cb.id = conn.id) =>
                  /\ f = conn.fd
                  /\ cb.handler = IF connected THEN "data" ELSE "connect"

\* As long as no TLS connection was left open, no number that is registered can be
\* given to a new socket.
RegisteredOpen == "tls" \notin left => DOMAIN registered_fds \subseteq open

\* Nothing takes the socket of the SDP server away.
SdpInv == enable_sdp_server => 1 \in open /\ conn.fd # 1

ConnInv ==
    /\ ConnTypeOK
    /\ LoopInv
    /\ SessionConnInv
    /\ CallbackInv
    /\ RegisteredOpen
    /\ SdpInv
    /\ AssertionsHold
    /\ AlwaysWatched
    /\ CallbacksLive
    /\ NothingLeaks
    /\ SecurityKept

-----------------------------------------------------------------------------
(* What the operations do *)

LEMMA NextFdFree ==
    ASSUME NEW o \in SUBSET Fds, o # Fds
    PROVE  NextFd(o) \in Fds \ o
<1>1. Fds \subseteq Nat
  BY ConnectionsAssumption DEF Fds
<1>2. Fds \ o # {}
  OBVIOUS
<1>. QED BY <1>1, <1>2, LeastNatural DEF NextFd

LEMMA CallbackMembers ==
    ASSUME NEW id, NEW handler
    PROVE  Callback(id, handler).id = id /\ Callback(id, handler).handler = handler
BY DEF Callback

LEMMA ConnInvInit == ConnInit => ConnInv
<1>. SUFFICES ASSUME ConnInit PROVE ConnInv
  OBVIOUS
<1>. USE ConnectionsAssumption DEF ConnInit
<1>1. DOMAIN registered_fds = {1} /\ 1 \in Fds /\ 1 \in 0..MaxConnections
  BY DEF Fds
<1>2. CASE enable_sdp_server
  <2>1. conn = NoConn /\ registered_fds[1] = Callback(0, "sdp") /\ made = 0
    BY <1>2 DEF NoConn
  <2>2. ConnTypeOK
    <3>1. conn \in [id : 0..MaxConnections, tls : BOOLEAN, fd : Fds \cup {0},
                   open : BOOLEAN]
      BY <1>1, <2>1 DEF NoConn
    <3>2. registered_fds[1] \in [id : 0..MaxConnections,
                                handler : {"sdp", "connect", "data"}]
      BY <1>1, <2>1 DEF Callback
    <3>3. made \in 0..MaxConnections
      BY <2>1
    <3>. QED BY <1>1, <3>1, <3>2, <3>3 DEF ConnTypeOK
  <2>3. LoopInv /\ SessionConnInv /\ CallbackInv
    BY <1>1, <2>1 DEF LoopInv, SessionConnInv, CallbackInv, Callback
  <2>4. RegisteredOpen /\ SdpInv /\ AssertionsHold /\ AlwaysWatched
    BY <1>1, <2>1 DEF RegisteredOpen, SdpInv, AssertionsHold, AlwaysWatched, NoConn
  <2>5. CallbacksLive /\ NothingLeaks /\ SecurityKept
    BY <1>1, <1>2, <2>1 DEF CallbacksLive, NothingLeaks, SecurityKept
  <2>. QED BY <2>2, <2>3, <2>4, <2>5 DEF ConnInv
<1>3. CASE ~enable_sdp_server
  <2>1. /\ conn = [id |-> 1, tls |-> FALSE, fd |-> 1, open |-> FALSE]
        /\ registered_fds[1] = Callback(1, "connect")
        /\ made = 1
        /\ conn # NoConn
    BY <1>3 DEF NoConn
  <2>2. ConnTypeOK
    <3>1. conn \in [id : 0..MaxConnections, tls : BOOLEAN, fd : Fds \cup {0},
                   open : BOOLEAN]
      BY <1>1, <2>1
    <3>2. registered_fds[1] \in [id : 0..MaxConnections,
                                handler : {"sdp", "connect", "data"}]
      BY <1>1, <2>1 DEF Callback
    <3>3. made \in 0..MaxConnections
      BY <2>1
    <3>. QED BY <1>1, <3>1, <3>2, <3>3 DEF ConnTypeOK
  <2>3. LoopInv /\ SessionConnInv /\ CallbackInv
    BY <1>1, <2>1 DEF LoopInv, SessionConnInv, CallbackInv, Callback
  <2>4. RegisteredOpen /\ SdpInv /\ AssertionsHold /\ AlwaysWatched
    BY <1>1, <1>3, <2>1 DEF RegisteredOpen, SdpInv, AssertionsHold, AlwaysWatched
  <2>5. CallbacksLive /\ NothingLeaks /\ SecurityKept
    BY <1>1, <1>3, <2>1, CallbackMembers DEF CallbacksLive, NothingLeaks, SecurityKept
  <2>. QED BY <2>2, <2>3, <2>4, <2>5 DEF ConnInv
<1>. QED BY <1>2, <1>3

\* Steps that leave the connection and the callbacks alone.
LEMMA QuietInv ==
    ASSUME ConnInv, UNCHANGED <<config, open, registered_fds, session, left>>,
           pc' \in {"poll", "dispatch", "session", "ended", "undefined"},
           pc' = "undefined" => left \cap {"tls", "plain"} # {},
           readable' \subseteq open,
           revents' \subseteq DOMAIN registered_fds,
           pc' \in {"poll", "session"} => revents' = {}
    PROVE  ConnInv'
<1>. USE DEF ConnInv, config, session
<1>1. ConnTypeOK' /\ LoopInv' /\ SessionConnInv' /\ CallbackInv'
  BY DEF ConnTypeOK, LoopInv, SessionConnInv, CallbackInv
<1>2. RegisteredOpen' /\ SdpInv' /\ AssertionsHold' /\ AlwaysWatched'
  BY DEF RegisteredOpen, SdpInv, AssertionsHold, AlwaysWatched
<1>3. CallbacksLive' /\ NothingLeaks' /\ SecurityKept'
  BY DEF CallbacksLive, NothingLeaks, SecurityKept
<1>. QED BY <1>1, <1>2, <1>3

\* A new connection, when the process has the descriptors o and the callbacks r.
LEMMA ConstructedInv ==
    ASSUME ConnInv, NEW tls \in BOOLEAN, NEW o \in SUBSET Fds, NEW r,
           Constructed(tls, o, r), made < MaxConnections,
           DOMAIN r \subseteq DOMAIN registered_fds,
           \A f \in DOMAIN r : r[f] = registered_fds[f],
           UNCHANGED config,
           pc' \in {"poll", "dispatch"},
           readable' \subseteq o,
           announced' \in Securities \cup {"none"},
           left' \subseteq {"tls", "plain", "socket"},
           "tls" \notin left' => DOMAIN r \subseteq o,
           left' \cap {"tls", "plain"} = {}
               => \A f \in DOMAIN r : r[f] = Callback(0, "sdp"),
           left' = {} => o = IF enable_sdp_server THEN {1} ELSE {},
           enable_sdp_server =>
               /\ 1 \in o
               /\ tls <=> announced' = "TLS"
               /\ strategy = "ENFORCE_TLS" => tls
               /\ strategy = "ENFORCE_NO_TLS" => ~tls
    PROVE  ConnInv'
<1>. USE DEF config
<1>. DEFINE n == NextFd(o)
<1>1. n \in Fds \ o
  BY NextFdFree DEF Constructed
<1>2. made \in Nat /\ made + 1 \in 0..MaxConnections /\ made + 1 # 0
  BY ConnectionsAssumption DEF ConnInv, ConnTypeOK
<1>3. /\ open' = o \cup {n}
      /\ registered_fds' = register_fd(r, n, Callback(made + 1, "connect"))
      /\ conn' = [id |-> made + 1, tls |-> tls, fd |-> n, open |-> FALSE]
      /\ made' = made + 1
      /\ revents' = {}
      /\ ~connected' /\ ~new_data' /\ ~talked'
      /\ connected' \in BOOLEAN /\ new_data' \in BOOLEAN /\ talked' \in BOOLEAN
  BY DEF Constructed, create_poll_set
<1>. HIDE DEF n
<1>4. /\ conn'.id = made + 1
      /\ conn'.tls = tls
      /\ conn'.fd = n
      /\ conn'.open = FALSE
      /\ conn' # NoConn
  BY <1>2, <1>3 DEF NoConn
<1>5. /\ DOMAIN registered_fds' = DOMAIN r \cup {n}
      /\ \A f \in DOMAIN r : registered_fds'[f] = registered_fds[f]
      /\ n \notin DOMAIN r => registered_fds'[n] = Callback(made + 1, "connect")
  BY <1>3 DEF register_fd
<1>6. ConnTypeOK'
  <2>1. Callback(made + 1, "connect") \in [id : 0..MaxConnections,
                                          handler : {"sdp", "connect", "data"}]
    BY <1>2 DEF Callback
  <2>2. \A f \in DOMAIN registered_fds' :
            registered_fds'[f] \in [id : 0..MaxConnections,
                                   handler : {"sdp", "connect", "data"}]
    BY <1>5, <2>1 DEF ConnInv, ConnTypeOK
  <2>3. conn' \in [id : 0..MaxConnections, tls : BOOLEAN, fd : Fds \cup {0},
                   open : BOOLEAN]
    BY <1>1, <1>2, <1>3
  <2>. QED BY <1>1, <1>2, <1>3, <1>5, <2>2, <2>3 DEF ConnInv, ConnTypeOK
<1>7. LoopInv' /\ SessionConnInv'
  BY <1>1, <1>2, <1>3, <1>4, ConnectionsAssumption DEF LoopInv, SessionConnInv, Fds
<1>8. CallbackInv'
  <2>. SUFFICES ASSUME NEW f \in DOMAIN registered_fds'
                PROVE  /\ registered_fds'[f].id <= made'
                       /\ registered_fds'[f].id = 0
                             <=> registered_fds'[f].handler = "sdp"
                       /\ registered_fds'[f].id = conn'.id =>
                             /\ f = conn'.fd
                             /\ registered_fds'[f].handler = "connect"
    BY <1>3 DEF CallbackInv
  <2>1. CASE f \in DOMAIN r
    <3>1. /\ registered_fds'[f] = registered_fds[f]
          /\ registered_fds[f].id \in Nat
          /\ registered_fds[f].id <= made
          /\ registered_fds[f].id = 0 <=> registered_fds[f].handler = "sdp"
      BY <1>5, <2>1 DEF ConnInv, ConnTypeOK, CallbackInv
    <3>. QED BY <1>2, <1>3, <1>4, <3>1
  <2>2. CASE f \notin DOMAIN r
    BY <1>2, <1>3, <1>4, <1>5, <2>2, CallbackMembers
  <2>. QED BY <2>1, <2>2
<1>9. RegisteredOpen' /\ SdpInv' /\ AssertionsHold'
  BY <1>1, <1>3, <1>4, <1>5 DEF RegisteredOpen, SdpInv, AssertionsHold
<1>10. AlwaysWatched'
  BY <1>1, <1>3, <1>4, <1>5 DEF AlwaysWatched
<1>11. CallbacksLive'
  <2>. SUFFICES ASSUME left' \cap {"tls", "plain"} = {},
                       NEW f \in DOMAIN registered_fds'
                PROVE  \/ registered_fds'[f] = Callback(0, "sdp")
                       \/ registered_fds'[f].id = conn'.id /\ f = conn'.fd
    BY DEF CallbacksLive
  <2>. QED BY <1>4, <1>5, CallbackMembers
<1>12. NothingLeaks' /\ SecurityKept'
  BY <1>3, <1>4 DEF NothingLeaks, SecurityKept
<1>. QED BY <1>6, <1>7, <1>8, <1>9, <1>10, <1>11, <1>12 DEF ConnInv

\* The session is destroyed, which leaves the descriptors o and the callbacks r.
LEMMA DestroyedInv ==
    ASSUME ConnInv, NEW o \in SUBSET open, NEW r, NEW l, Destroyed(o, r, l),
           DOMAIN r \subseteq DOMAIN registered_fds,
           \A f \in DOMAIN r : r[f] = registered_fds[f],
           l \subseteq {"tls", "plain", "socket"},
           left \subseteq l,
           enable_sdp_server => 1 \in o,
           "tls" \notin l => DOMAIN r \subseteq o,
           l \cap {"tls", "plain"} = {}
               => \A f \in DOMAIN r : r[f] = Callback(0, "sdp"),
           l = {} => o = IF enable_sdp_server THEN {1} ELSE {}
    PROVE  ConnInv'
<1>1. /\ UNCHANGED <<config, announced>>
      /\ readable' = readable \cap o
      /\ revents = {}
      /\ o \in SUBSET Fds
  BY DEF Destroyed, ConnInv, ConnTypeOK, LoopInv
<1>2. CASE /\ ~enable_sdp_server
           /\ made < MaxConnections
           /\ Constructed(FALSE, o, r)
           /\ pc' = "poll"
           /\ left' = l
  <2>1. announced' \in Securities \cup {"none"}
    BY <1>1 DEF ConnInv, ConnTypeOK
  <2>. QED BY <1>1, <1>2, <2>1, ConstructedInv
<1>3. CASE /\ IF enable_sdp_server
              THEN pc' = "poll" /\ open' = o /\ left' = l
              ELSE pc' = "ended" /\ ConstructorThrows(o, l)
           /\ registered_fds' = r
           /\ conn' = NoConn
           /\ connected' = FALSE
           /\ new_data' = FALSE
           /\ talked' = FALSE
           /\ UNCHANGED <<revents, made>>
  <2>. USE <1>1, <1>3 DEF config
  <2>1. /\ o \subseteq open' /\ open' \subseteq Fds
        /\ l \subseteq left' /\ left' \subseteq {"tls", "plain", "socket"}
        /\ left' = {} => open' = o
        /\ pc' \in {"poll", "ended"}
    <3>1. o # Fds => NextFd(o) \in Fds
      BY NextFdFree
    <3>. QED BY <3>1 DEF ConstructorThrows
  <2>2. ConnTypeOK'
    <3>1. NoConn \in [id : 0..MaxConnections, tls : BOOLEAN, fd : Fds \cup {0},
                      open : BOOLEAN]
      BY ConnectionsAssumption DEF NoConn
    <3>2. /\ DOMAIN registered_fds' \subseteq Fds
          /\ \A f \in DOMAIN registered_fds' :
                registered_fds'[f] \in [id : 0..MaxConnections,
                                       handler : {"sdp", "connect", "data"}]
      BY DEF ConnInv, ConnTypeOK
    <3>. QED BY <2>1, <3>1, <3>2 DEF ConnInv, ConnTypeOK
  <2>3. LoopInv' /\ SessionConnInv' /\ CallbackInv'
    BY DEF ConnInv, LoopInv, SessionConnInv, CallbackInv
  <2>4. RegisteredOpen' /\ SdpInv'
    BY <2>1 DEF RegisteredOpen, SdpInv, NoConn
  <2>5. AssertionsHold' /\ AlwaysWatched' /\ SecurityKept'
    BY DEF AssertionsHold, AlwaysWatched, SecurityKept, NoConn
  <2>6. CallbacksLive' /\ NothingLeaks'
    BY <2>1 DEF CallbacksLive, NothingLeaks
  <2>. QED BY <2>2, <2>3, <2>4, <2>5, <2>6 DEF ConnInv
<1>. QED BY <1>2, <1>3 DEF Destroyed

\* The vehicle is accepted: the socket of the connection is exchanged.
LEMMA HandleConnectInv ==
    ASSUME ConnInv, NEW f \in revents, HandleConnect(f)
    PROVE  ConnInv'
<1>. USE DEF config
<1>. DEFINE n == NextFd(open)
<1>1. n \in Fds \ open
  BY NextFdFree DEF HandleConnect, ConnInv, ConnTypeOK
<1>2. /\ f \in DOMAIN registered_fds
      /\ registered_fds[f].id = conn.id
      /\ registered_fds[f].handler = "connect"
      /\ pc = "dispatch"
  BY CallbackMembers DEF HandleConnect, Called, ConnInv, ConnTypeOK
<1>3. conn # NoConn /\ conn.id # 0 /\ conn.id = made
  BY <1>2 DEF ConnInv, CallbackInv, SessionConnInv, NoConn
<1>4. f = conn.fd /\ ~connected
  BY <1>2, <1>3 DEF ConnInv, CallbackInv
<1>5. /\ open' = (open \ {f}) \cup {n}
      /\ readable' = readable \ {f}
      /\ registered_fds' = register_fd(unregister_fd(registered_fds, f), n,
                                       Callback(conn.id, "data"))
      /\ revents' = {}
      /\ conn' = [conn EXCEPT !.fd = n, !.open = ~conn.tls]
      /\ connected' = TRUE
      /\ UNCHANGED <<config, pc, new_data, talked, announced, made, left>>
  BY DEF HandleConnect, Exchanged, create_poll_set
<1>. HIDE DEF n
<1>6. /\ conn'.id = conn.id
      /\ conn'.tls = conn.tls
      /\ conn'.fd = n
      /\ conn'.open = ~conn.tls
      /\ conn.tls \in BOOLEAN
      /\ conn' # NoConn
  BY <1>3, <1>5 DEF ConnInv, ConnTypeOK, NoConn
<1>7. /\ DOMAIN registered_fds' = (DOMAIN registered_fds \ {f}) \cup {n}
      /\ \A g \in DOMAIN registered_fds \ {f} : registered_fds'[g] = registered_fds[g]
      /\ n \notin DOMAIN registered_fds \ {f}
            => registered_fds'[n] = Callback(conn.id, "data")
  BY <1>5 DEF register_fd, unregister_fd
<1>8. ConnTypeOK'
  <2>1. Callback(conn.id, "data") \in [id : 0..MaxConnections,
                                      handler : {"sdp", "connect", "data"}]
    BY DEF Callback, ConnInv, ConnTypeOK
  <2>2. \A g \in DOMAIN registered_fds' :
            registered_fds'[g] \in [id : 0..MaxConnections,
                                   handler : {"sdp", "connect", "data"}]
    BY <1>7, <2>1 DEF ConnInv, ConnTypeOK
  <2>3. conn' \in [id : 0..MaxConnections, tls : BOOLEAN, fd : Fds \cup {0},
                   open : BOOLEAN]
    BY <1>1, <1>5, <1>6 DEF ConnInv, ConnTypeOK
  <2>. QED BY <1>1, <1>5, <1>7, <2>2, <2>3 DEF ConnInv, ConnTypeOK
<1>9. LoopInv' /\ SessionConnInv'
  <2>1. n # 0
    BY <1>1, ConnectionsAssumption DEF Fds
  <2>. QED BY <1>3, <1>5, <1>6, <2>1 DEF LoopInv, SessionConnInv
<1>10. CallbackInv'
  <2>. SUFFICES ASSUME NEW g \in DOMAIN registered_fds'
                PROVE  /\ registered_fds'[g].id <= made
                       /\ registered_fds'[g].id = 0
                             <=> registered_fds'[g].handler = "sdp"
                       /\ registered_fds'[g].id = conn.id =>
                             g = n /\ registered_fds'[g].handler = "data"
    BY <1>5, <1>6 DEF CallbackInv
  <2>1. CASE g \in DOMAIN registered_fds \ {f}
    BY <1>3, <1>4, <1>7, <2>1 DEF ConnInv, CallbackInv
  <2>2. CASE g \notin DOMAIN registered_fds \ {f}
    <3>1. made <= made
      BY DEF ConnInv, ConnTypeOK
    <3>. QED BY <1>3, <1>7, <2>2, <3>1, CallbackMembers
  <2>. QED BY <2>1, <2>2
<1>11. RegisteredOpen' /\ SdpInv' /\ AssertionsHold'
  <2>1. ~new_data /\ ~talked
    BY <1>4 DEF ConnInv, AssertionsHold
  <2>. QED
    BY <1>1, <1>4, <1>5, <1>6, <1>7, <2>1
    DEF ConnInv, RegisteredOpen, SdpInv, AssertionsHold
<1>12. AlwaysWatched'
  BY <1>1, <1>5, <1>6, <1>7 DEF ConnInv, RegisteredOpen, AlwaysWatched
<1>13. CallbacksLive'
  <2>. SUFFICES ASSUME left \cap {"tls", "plain"} = {},
                       NEW g \in DOMAIN registered_fds'
                PROVE  \/ registered_fds'[g] = Callback(0, "sdp")
                       \/ registered_fds'[g].id = conn.id /\ g = n
    BY <1>2, <1>5, <1>6 DEF CallbacksLive
  <2>. QED BY <1>4, <1>7, CallbackMembers DEF ConnInv, CallbacksLive
<1>14. NothingLeaks' /\ SecurityKept'
  BY <1>1, <1>3, <1>4, <1>5, <1>6 DEF ConnInv, NothingLeaks, SecurityKept, SdpInv
<1>. QED BY <1>8, <1>9, <1>10, <1>11, <1>12, <1>13, <1>14 DEF ConnInv

\* Data for the connection of the session, or the end of its handshake.
LEMMA HandleDataInv ==
    ASSUME ConnInv, NEW f \in revents, HandleData(f) \/ HandshakeComplete(f)
    PROVE  ConnInv'
<1>. USE DEF config
<1>1. /\ f \in DOMAIN registered_fds
      /\ registered_fds[f].id = conn.id
      /\ registered_fds[f].handler = "data"
      /\ pc = "dispatch"
  BY CallbackMembers DEF HandleData, HandshakeComplete, Called, ConnInv, ConnTypeOK
<1>2. conn # NoConn
  BY <1>1 DEF ConnInv, CallbackInv, NoConn
<1>3. connected
  BY <1>1, <1>2 DEF ConnInv, CallbackInv
<1>4. /\ UNCHANGED <<config, pc, open, registered_fds, connected, talked, announced,
                     made, left>>
      /\ readable' \subseteq readable
      /\ revents' = revents \ {f}
      /\ (conn' = conn /\ conn.open) \/ conn' = [conn EXCEPT !.open = TRUE]
      /\ new_data' \in BOOLEAN
  BY DEF HandleData, HandshakeComplete, Handled, kernel, ConnInv, ConnTypeOK
<1>5. /\ conn' # NoConn
      /\ conn'.id = conn.id
      /\ conn'.tls = conn.tls
      /\ conn'.fd = conn.fd
      /\ conn'.open
  BY <1>2, <1>4 DEF ConnInv, ConnTypeOK, SessionConnInv, NoConn
<1>6. ConnTypeOK'
  <2>1. conn' \in [id : 0..MaxConnections, tls : BOOLEAN, fd : Fds \cup {0},
                   open : BOOLEAN]
    BY <1>4 DEF ConnInv, ConnTypeOK
  <2>. QED BY <1>4, <2>1 DEF ConnInv, ConnTypeOK
<1>7. LoopInv' /\ SessionConnInv' /\ CallbackInv' /\ RegisteredOpen' /\ SdpInv'
  BY <1>1, <1>2, <1>4, <1>5
  DEF ConnInv, LoopInv, SessionConnInv, CallbackInv, RegisteredOpen, SdpInv
<1>8. AssertionsHold' /\ AlwaysWatched'
  BY <1>2, <1>3, <1>4, <1>5 DEF ConnInv, AssertionsHold, AlwaysWatched
<1>9. CallbacksLive' /\ NothingLeaks' /\ SecurityKept'
  BY <1>1, <1>2, <1>4, <1>5 DEF ConnInv, CallbacksLive, NothingLeaks, SecurityKept
<1>. QED BY <1>6, <1>7, <1>8, <1>9 DEF ConnInv

\* An SDP request makes a connection.
LEMMA SdpConnectInv ==
    ASSUME ConnInv, NEW f \in revents, NEW s \in Securities, SdpConnect(f, s)
    PROVE  ConnInv'
<1>. DEFINE tls == Negotiated(s) = "TLS"
<1>1. /\ Constructed(tls, open, registered_fds)
      /\ made < MaxConnections
      /\ conn = NoConn
      /\ UNCHANGED <<config, pc, left>>
      /\ pc = "dispatch"
      /\ announced' = Negotiated(s)
      /\ readable' \subseteq readable
  BY DEF SdpConnect, DatagramTaken, Called, send_response
<1>2. /\ Negotiated(s) \in Securities
      /\ strategy = "ENFORCE_TLS" => tls
      /\ strategy = "ENFORCE_NO_TLS" => ~tls
      /\ tls \in BOOLEAN
  BY DEF Negotiated, Securities, ConnInv, ConnTypeOK, Strategies
<1>3. /\ open \in SUBSET Fds
      /\ readable' \subseteq open
      /\ left' \subseteq {"tls", "plain", "socket"}
      /\ "tls" \notin left' => DOMAIN registered_fds \subseteq open
      /\ enable_sdp_server => 1 \in open
      /\ left' = {} => open = IF enable_sdp_server THEN {1} ELSE {}
  BY <1>1 DEF ConnInv, ConnTypeOK, RegisteredOpen, SdpInv, NothingLeaks
<1>4. left' \cap {"tls", "plain"} = {}
        => \A g \in DOMAIN registered_fds : registered_fds[g] = Callback(0, "sdp")
  <2>1. 0 \notin DOMAIN registered_fds
    BY ConnectionsAssumption DEF ConnInv, ConnTypeOK, Fds
  <2>. QED BY <1>1, <2>1 DEF ConnInv, CallbacksLive, NoConn
<1>5. enable_sdp_server => (tls <=> announced' = "TLS")
  BY <1>1
<1>6. announced' \in Securities \cup {"none"}
  BY <1>1, <1>2
<1>. HIDE DEF tls
<1>. QED BY <1>1, <1>2, <1>3, <1>4, <1>5, <1>6, ConstructedInv

\* No connection can be made: the request is ignored.
LEMMA SdpConnectFailsInv ==
    ASSUME ConnInv, NEW f \in revents, SdpConnectFails(f)
    PROVE  ConnInv'
<1>. USE DEF config, session
<1>1. /\ UNCHANGED <<config, pc, registered_fds, session>>
      /\ readable' \subseteq readable
      /\ revents' = revents \ {f}
      /\ conn = NoConn
      /\ pc = "dispatch"
  BY DEF SdpConnectFails, DatagramTaken, Called, Handled
<1>2. /\ open \subseteq open' /\ open' \subseteq Fds
      /\ left \subseteq left' /\ left' \subseteq {"tls", "plain", "socket"}
      /\ left' = {} => open' = open
  <2>1. open # Fds => NextFd(open) \in Fds
    BY NextFdFree DEF ConnInv, ConnTypeOK
  <2>. QED BY <2>1 DEF SdpConnectFails, ConstructorThrows, ConnInv, ConnTypeOK
<1>3. ConnTypeOK'
  BY <1>1, <1>2 DEF ConnInv, ConnTypeOK
<1>4. LoopInv' /\ SessionConnInv' /\ CallbackInv'
  BY <1>1, <1>2 DEF ConnInv, LoopInv, SessionConnInv, CallbackInv
<1>5. RegisteredOpen' /\ SdpInv' /\ AssertionsHold' /\ AlwaysWatched'
  BY <1>1, <1>2 DEF ConnInv, RegisteredOpen, SdpInv, AssertionsHold, AlwaysWatched
<1>6. CallbacksLive' /\ NothingLeaks' /\ SecurityKept'
  BY <1>1, <1>2 DEF ConnInv, CallbacksLive, NothingLeaks, SecurityKept
<1>. QED BY <1>3, <1>4, <1>5, <1>6 DEF ConnInv

\* Session::poll() returns to the loop.
LEMMA SessionGoesOnInv == ASSUME ConnInv, SessionGoesOn PROVE ConnInv'
<1>. USE DEF config
<1>1. /\ UNCHANGED <<config, open, registered_fds, revents, conn, connected, announced,
                     made, left>>
      /\ readable' \subseteq readable
      /\ pc = "session" /\ pc' = "poll"
      /\ talked' = (talked \/ new_data)
      /\ new_data' = new_data \/ new_data' = FALSE
      /\ connected
  BY DEF SessionGoesOn, pollManager
<1>2. ConnTypeOK' /\ revents = {}
  BY <1>1 DEF ConnInv, ConnTypeOK, LoopInv
<1>3. LoopInv' /\ SessionConnInv' /\ CallbackInv'
  BY <1>1, <1>2 DEF ConnInv, LoopInv, SessionConnInv, CallbackInv
<1>4. RegisteredOpen' /\ SdpInv' /\ AlwaysWatched'
  BY <1>1 DEF ConnInv, RegisteredOpen, SdpInv, AlwaysWatched
<1>5. AssertionsHold'
  <2>1. talked' \/ new_data' => talked \/ new_data
    BY <1>1, Zenon
  <2>. QED BY <1>1, <2>1, Zenon DEF ConnInv, AssertionsHold
<1>6. CallbacksLive' /\ NothingLeaks' /\ SecurityKept'
  BY <1>1 DEF ConnInv, CallbacksLive, NothingLeaks, SecurityKept
<1>. QED BY <1>2, <1>3, <1>4, <1>6, <1>5 DEF ConnInv

\* A session that finished is destroyed with its connection as it is.
LEMMA SessionFinishedInv == ASSUME ConnInv, SessionFinished PROVE ConnInv'
<1>. DEFINE o == IF conn.tls THEN open \ {conn.fd} ELSE open
            l == left \cup {IF conn.tls THEN "tls" ELSE "plain"}
<1>1. Destroyed(o, registered_fds, l)
  BY DEF SessionFinished
<1>2. /\ o \in SUBSET open
      /\ l \subseteq {"tls", "plain", "socket"}
      /\ left \subseteq l
      /\ l \cap {"tls", "plain"} # {}
      /\ enable_sdp_server => 1 \in o
      /\ "tls" \notin l => DOMAIN registered_fds \subseteq o
  BY DEF ConnInv, ConnTypeOK, SdpInv, RegisteredOpen
<1>3. l # {}
  OBVIOUS
<1>. HIDE DEF o, l
<1>. QED BY <1>1, <1>2, <1>3, DestroyedInv

\* One that throws is closed first, and nothing of its connection remains.
LEMMA SessionThrowsInv == ASSUME ConnInv, SessionThrows PROVE ConnInv'
<1>. DEFINE o == open \ {conn.fd}
            r == unregister_fd(registered_fds, conn.fd)
<1>1. Destroyed(o, r, left) /\ conn # NoConn
  BY DEF SessionThrows, close_open, close_registered, Destroyed, ConnInv,
         SessionConnInv
<1>2. /\ DOMAIN r = DOMAIN registered_fds \ {conn.fd}
      /\ \A f \in DOMAIN r : r[f] = registered_fds[f]
  BY DEF unregister_fd
<1>. HIDE DEF r
<1>3. /\ o \in SUBSET open
      /\ left \subseteq {"tls", "plain", "socket"}
      /\ enable_sdp_server => 1 \in o
      /\ "tls" \notin left => DOMAIN r \subseteq o
  BY <1>2 DEF ConnInv, ConnTypeOK, SdpInv, RegisteredOpen
<1>4. left \cap {"tls", "plain"} = {} => \A f \in DOMAIN r : r[f] = Callback(0, "sdp")
  BY <1>2 DEF ConnInv, CallbacksLive
<1>5. left = {} => o = IF enable_sdp_server THEN {1} ELSE {}
  BY <1>1 DEF ConnInv, NothingLeaks, SdpInv
<1>. HIDE DEF o
<1>. QED BY <1>1, <1>2, <1>3, <1>4, <1>5, DestroyedInv

LEMMA ConnInvNext == ConnInv /\ [ConnNext]_connVars => ConnInv'
<1>. SUFFICES ASSUME ConnInv, [ConnNext]_connVars PROVE ConnInv'
  OBVIOUS
<1>. USE DEF kernel, pollManager
<1>1. /\ readable \subseteq open
      /\ revents \subseteq DOMAIN registered_fds
      /\ pc \in {"poll", "session"} => revents = {}
      /\ pc \in {"poll", "dispatch", "session", "ended", "undefined"}
      /\ pc = "undefined" => left \cap {"tls", "plain"} # {}
  BY DEF ConnInv, ConnTypeOK, LoopInv, CallbacksLive
<1>2. CASE Arrives
  <2>1. /\ UNCHANGED <<config, pc, open, registered_fds, revents, session, left>>
        /\ readable' \subseteq open
    BY <1>1, <1>2 DEF Arrives
  <2>. QED BY <1>1, <2>1, QuietInv
<1>3. CASE Wait \/ PollFails \/ Dispatched \/ NoSession
  BY <1>1, <1>3, QuietInv DEF Wait, PollFails, Dispatched, NoSession
<1>4. CASE CallsDestroyed
  <2>1. PICK f \in revents, handler \in {"connect", "data"},
             id \in (1..made) \ {conn.id} : Called(f, id, handler)
    BY <1>4 DEF CallsDestroyed
  <2>2. /\ f \in DOMAIN registered_fds
        /\ registered_fds[f].id = id
        /\ id # 0 /\ id # conn.id
    BY <1>1, <2>1, CallbackMembers DEF Called, ConnInv, ConnTypeOK
  <2>3. left \cap {"tls", "plain"} # {}
    BY <2>2, CallbackMembers DEF ConnInv, CallbacksLive
  <2>. QED BY <1>1, <1>4, <2>3, QuietInv DEF CallsDestroyed
<1>5. ASSUME NEW f \in revents, Calls(f) PROVE ConnInv'
  <2>1. CASE SdpIgnored(f)
    BY <1>1, <2>1, QuietInv DEF SdpIgnored, DatagramTaken, Called, Handled
  <2>2. CASE \E s \in Securities : SdpConnect(f, s)
    BY <2>2, SdpConnectInv
  <2>3. CASE SdpConnectFails(f)
    BY <2>3, SdpConnectFailsInv
  <2>4. CASE HandleConnect(f)
    BY <2>4, HandleConnectInv
  <2>5. CASE HandleData(f) \/ HandshakeComplete(f)
    BY <2>5, HandleDataInv
  <2>6. CASE HandshakeGoesOn(f)
    BY <1>1, <2>6, QuietInv DEF HandshakeGoesOn, Called, Handled
  <2>7. CASE AcceptFails(f) \/ HandshakeFails(f)
    BY <1>1, <2>7, QuietInv DEF AcceptFails, HandshakeFails
  <2>. QED BY <1>5, <2>1, <2>2, <2>3, <2>4, <2>5, <2>6, <2>7 DEF Calls
<1>6. CASE SessionGoesOn
  BY <1>6, SessionGoesOnInv
<1>7. CASE SessionFinished
  BY <1>7, SessionFinishedInv
<1>8. CASE SessionThrows
  BY <1>8, SessionThrowsInv
<1>9. CASE UNCHANGED connVars
  BY <1>1, <1>9, QuietInv DEF connVars
<1>. QED BY <1>2, <1>3, <1>4, <1>5, <1>6, <1>7, <1>8, <1>9 DEF ConnNext, Loop

LEMMA ConnInvCorrect == ConnSpec => []ConnInv
<1>1. ConnInit => ConnInv
  BY ConnInvInit
<1>2. ConnInv /\ [ConnNext]_connVars => ConnInv'
  BY ConnInvNext
<1>. QED BY <1>1, <1>2, PTL DEF ConnSpec

-----------------------------------------------------------------------------
(* The theorems *)

\* Types; loop() never meets a descriptor of poll_set whose callback is gone from
\* registered_fds, although callbacks register and unregister while it runs.
THEOREM ConnectionsTyped == ConnSpec => []ConnTypeOK
<1>1. ConnInv => ConnTypeOK
  BY DEF ConnInv
<1>. QED BY <1>1, ConnInvCorrect, PTL

\* No callback of the PollManager is called after its connection was destroyed, until
\* a session finishes and is destroyed without close() (tbd_controller.cpp:70).
THEOREM CallbacksAreLive == ConnSpec => []CallbacksLive
<1>1. ConnInv => CallbacksLive
  BY DEF ConnInv
<1>. QED BY <1>1, ConnInvCorrect, PTL

\* The connection of the session is watched with the handler of its phase, unless a
\* TLS connection was destroyed without close(): its number is given out again while
\* register_fd keeps the old callback for it.
THEOREM ConnectionIsWatched == ConnSpec => []AlwaysWatched
<1>1. ConnInv => AlwaysWatched
  BY DEF ConnInv
<1>. QED BY <1>1, ConnInvCorrect, PTL

\* The assertions of Session and of the connections never fail, however the vehicle
\* connects, handshakes and sends.
THEOREM NoAssertionFails == ConnSpec => []AssertionsHold
<1>1. ConnInv => AssertionsHold
  BY DEF ConnInv
<1>. QED BY <1>1, ConnInvCorrect, PTL

\* close() and handle_connect give back every socket but those of the SDP server and
\* of the session, until something is destroyed without being closed.
THEOREM NoSocketLeaks == ConnSpec => []NothingLeaks
<1>1. ConnInv => NothingLeaks
  BY DEF ConnInv
<1>. QED BY <1>1, ConnInvCorrect, PTL

\* A session has the security that its SDP response announced and that the strategy
\* allows.
THEOREM SecurityIsKept == ConnSpec => []SecurityKept
<1>1. ConnInv => SecurityKept
  BY DEF ConnInv
<1>. QED BY <1>1, ConnInvCorrect, PTL

=============================================================================
