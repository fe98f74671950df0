------------------------------- MODULE Session -------------------------------
(***************************************************************************)
(* Connecting, as a protocol between the two ends: SessionImpl.h and       *)
(* ClientConnection (with HandshakeClient) at the client, ServerHost.h and *)
(* ServerConnection (with HandshakeServerConnection) at the server, for    *)
(* one peer address, over a network that may lose, repeat and reorder      *)
(* datagrams.  Module ServerHost has the server's side for many peers.     *)
(*                                                                         *)
(* Sealed datagrams carry the connection token and the key they are sealed *)
(* under.  A server connection makes one ephemeral key, so a key is the    *)
(* pair of the client's ephemeral and the token.  A repeated sealed        *)
(* datagram is dropped by the replay window (module SecureChannel), so     *)
(* only clear ones are repeated here.  Signatures, decoding and the shared *)
(* secret never fail, except for a client that has no ephemeral yet.       *)
(***************************************************************************)
EXTENDS Naturals, SequencesExt

CONSTANTS Faults,         \* what the network does: subset of {"loss", "dup", "reorder"}
          MAX_FAULTS,     \* bound: how often it does
          CAPACITY,       \* bound: datagrams in flight in one direction
          MAX_ATTEMPTS,   \* bound: connection attempts of the client
          MAX_FORGETS,    \* bound: times the server drops the connection by itself
          AuthModes,      \* values of m_realAuth
          AccountStates,  \* initial states of the account
          Compatibility,  \* whether the client's protocol id is compatible
          STORE_REFUSES   \* the account store may refuse (locked, rate limit, no database)

VARIABLES m_state,          \* SessionImpl: "Disconnected", "Handshaking", "Connected", "Reconnecting"
          m_everConnected,
          m_realAuth,
          compatible,
          conn,             \* SessionImpl's m_conn (NoConn: null)
          attempts, ephemerals,
          server,           \* the server's connection for this address (NoEntry: none)
          m_tokenCounter,
          account,          \* the user name in the store: unknown, ours, someone else's
          forgets,
          toServer, toClient, faults, \* the network
          overtaken         \* history: a datagram has overtaken another

clientVars == << m_state, m_everConnected, m_realAuth, compatible, conn, attempts, ephemerals >>
serverVars == << server, m_tokenCounter, account, forgets >>
netVars == << toServer, toClient, faults, overtaken >>
vars == << clientVars, serverVars, netVars >>

ClearTypes == {"ClientHello", "Cookie", "VersionReject", "CookieResponse",
               "HandshakeResponse", "ClockSyncRequest", "ClockSyncResponse"}
Requests == {"LoginRequest", "Login", "Register", "Disconnect"}
Results == {"LoginResponse", "Ok", "InvalidCredentials", "UsernameTaken", "Refused"}
Datagram == [type : ClearTypes \cup Requests \cup Results, token : Nat, eph : Nat]

Clear(type) == [type |-> type, token |-> 0, eph |-> 0]

NoConn == [ state |-> "Idle", eph |-> 0, token |-> 0, complete |-> FALSE, channel |-> FALSE,
            last |-> Clear("ClientHello"), opcode |-> "Login", tried |-> FALSE ]
NoEntry == [ token |-> 0, state |-> "Idle", channel |-> FALSE, eph |-> 0 ]

TypeOK ==
    /\ m_state \in {"Disconnected", "Handshaking", "Connected", "Reconnecting"}
    /\ m_everConnected \in BOOLEAN /\ m_realAuth \in BOOLEAN /\ compatible \in BOOLEAN
    /\ conn \in [ state : {"Idle", "Handshaking", "Authenticating", "Connected", "Disconnected"},
                  eph : Nat, token : Nat, complete : BOOLEAN, channel : BOOLEAN,
                  last : Datagram, opcode : {"Login", "Register"}, tried : BOOLEAN ]
    /\ attempts \in 0 .. MAX_ATTEMPTS
    /\ ephemerals \in Nat
    /\ server \in [ token : Nat, state : {"Idle", "Handshaking", "Authenticating", "Connected"},
                    channel : BOOLEAN, eph : Nat ]
    /\ m_tokenCounter \in Nat
    /\ account \in {"none", "mine", "other"}
    /\ forgets \in 0 .. MAX_FORGETS
    /\ toServer \in Seq(Datagram) /\ Len(toServer) <= CAPACITY
    /\ toClient \in Seq(Datagram) /\ Len(toClient) <= CAPACITY
    /\ faults \in 0 .. MAX_FAULTS
    /\ overtaken \in BOOLEAN

Init ==
    /\ m_state = "Disconnected"
    /\ m_everConnected = FALSE
    /\ m_realAuth \in AuthModes
    /\ compatible \in Compatibility
    /\ conn = NoConn
    /\ attempts = 0
    /\ ephemerals = 0
    /\ server = NoEntry
    /\ m_tokenCounter = 0
    /\ account \in AccountStates
    /\ forgets = 0
    /\ toServer = << >>
    /\ toClient = << >>
    /\ faults = 0
    /\ overtaken = FALSE

-----------------------------------------------------------------------------
(* The network.  A datagram sent into a full link is lost.                 *)

Sent(link, ds) == IF Len(link) + Len(ds) <= CAPACITY THEN link \o ds ELSE link

Fault(kind) == kind \in Faults /\ faults < MAX_FAULTS /\ faults' = faults + 1

\* The i-th datagram of a link is delivered, and rest is left of the link: in
\* order, or overtaking others, or (a clear one) leaving a copy behind.
Delivers(link, i, rest) ==
    \/ i = 1 /\ rest = Tail(link) /\ UNCHANGED << faults, overtaken >>
    \/ i > 1 /\ rest = RemoveAt(link, i) /\ Fault("reorder") /\ overtaken' = TRUE
    \/ i = 1 /\ link[i].type \in ClearTypes /\ rest = link /\ Fault("dup") /\ UNCHANGED overtaken

Lose ==
    /\ Fault("loss")
    /\ \/ /\ toServer # << >>
          /\ toServer' = Tail(toServer)
          /\ UNCHANGED toClient
       \/ /\ toClient # << >>
          /\ toClient' = Tail(toClient)
          /\ UNCHANGED toServer
    /\ UNCHANGED << clientVars, serverVars, overtaken >>

-----------------------------------------------------------------------------
(* The client: SessionImpl and ClientConnection.                           *)

HaveKeys(c) == c.token # 0

\* The sealed credential frame SendLogin builds, with the current opcode.
LoginFrame(c) ==
    [ type |-> IF m_realAuth THEN c.opcode ELSE "LoginRequest", token |-> c.token, eph |-> c.eph ]

\* bool DoConnect(): a fresh ClientConnection, and its ClientHello.
DoConnect ==
    /\ attempts < MAX_ATTEMPTS
    /\ attempts' = attempts + 1
    /\ conn' = [NoConn EXCEPT !.state = "Handshaking"]
    /\ m_state' = "Handshaking"
    /\ toServer' = Sent(toServer, << Clear("ClientHello") >>)
    /\ UNCHANGED << m_everConnected, m_realAuth, compatible, ephemerals, serverVars, toClient, faults, overtaken >>

Connect == m_state = "Disconnected" /\ DoConnect

\* Tick, while reconnecting, once the backoff timer has run out.
ReconnectAttempt == m_state = "Reconnecting" /\ DoConnect

\* void Disconnect(), by the user.
UserDisconnect ==
    /\ conn # NoConn
    /\ toServer' = IF conn.channel
                   THEN Sent(toServer, << [type |-> "Disconnect", token |-> conn.token, eph |-> conn.eph] >>)
                   ELSE toServer
    /\ conn' = NoConn
    /\ m_state' = "Disconnected"
    /\ UNCHANGED << m_everConnected, m_realAuth, compatible, attempts, ephemerals, serverVars, toClient, faults, overtaken >>

\* ClientConnection::ResendPending, every 200 ms until connected.
PendingFrames(c) ==
    CASE c.state = "Handshaking" -> << c.last >>
      [] c.state = "Authenticating" /\ c.channel -> << LoginFrame(c) >>
      [] OTHER -> << >>

ResendPending ==
    /\ conn # NoConn
    /\ m_state = "Handshaking"
    /\ PendingFrames(conn) # << >>
    /\ toServer' = Sent(toServer, PendingFrames(conn))
    /\ UNCHANGED << clientVars, serverVars, toClient, faults, overtaken >>

\* No traffic for CONN_LOST_MS, or a retry stalled for HANDSHAKE_TIMEOUT_MS.
BeginReconnect ==
    /\ conn # NoConn
    /\ \/ m_state = "Connected"
       \/ m_state = "Handshaking" /\ m_everConnected
    /\ conn' = NoConn
    /\ m_state' = "Reconnecting"
    /\ UNCHANGED << m_everConnected, m_realAuth, compatible, attempts, ephemerals, serverVars, netVars >>

-----------------------------------------------------------------------------
(* What one datagram makes of the ClientConnection: the new connection,    *)
(* the ephemerals drawn, and the frames sent.                              *)

Outcome(c, ephs, frames) == [conn |-> c, ephemerals |-> ephs, frames |-> frames]
Ignored == Outcome(conn, ephemerals, << >>)
Failed == Outcome([conn EXCEPT !.state = "Disconnected"], ephemerals, << >>)

\* A handshake message that is answered; the answer is what is re-sent.
Answer(c, ephs, d) == Outcome([c EXCEPT !.last = d], ephs, << d >>)

\* Mutant: a cookie starts a new key pair.
OnCookieRegenerates(d) ==
    Answer([conn EXCEPT !.eph = ephemerals + 1], ephemerals + 1,
           [type |-> "CookieResponse", token |-> 0, eph |-> ephemerals + 1])

\* HandshakeClient::OnCookie: the ephemeral is made once.
OnCookie(d) ==
    IF conn.eph # 0
    THEN Answer(conn, ephemerals, [type |-> "CookieResponse", token |-> 0, eph |-> conn.eph])
    ELSE Answer([conn EXCEPT !.eph = ephemerals + 1], ephemerals + 1,
                [type |-> "CookieResponse", token |-> 0, eph |-> ephemerals + 1])

\* HandshakeClient::OnHandshakeResponse: the keys are derived once.
OnHandshakeResponse(d) ==
    IF HaveKeys(conn) THEN Answer(conn, ephemerals, Clear("ClockSyncRequest"))
    ELSE IF conn.eph = 0 THEN Failed      \* no private key: DeriveSharedSecret fails
    ELSE Answer([conn EXCEPT !.token = d.token], ephemerals, Clear("ClockSyncRequest"))

OnClockSyncResponse(d) == Outcome([conn EXCEPT !.complete = TRUE], ephemerals, << >>)

\* The end of ClientConnection::OnDatagram: complete and with keys, the client
\* builds the channel and logs in.
WithChannel(o) ==
    IF o.conn.complete /\ HaveKeys(o.conn) /\ ~o.conn.channel
    THEN LET c == [o.conn EXCEPT !.channel = TRUE, !.state = "Authenticating"]
         IN  Outcome(c, o.ephemerals, Append(o.frames, LoginFrame(c)))
    ELSE o

\* ClientConnection::OnDatagram, clear.
OnClear(d) ==
    CASE d.type = "VersionReject"     -> Failed
      [] d.type = "Cookie"            -> WithChannel(OnCookie(d))
      [] d.type = "HandshakeResponse" ->
            IF OnHandshakeResponse(d) = Failed THEN Failed ELSE WithChannel(OnHandshakeResponse(d))
      [] d.type = "ClockSyncResponse" -> WithChannel(OnClockSyncResponse(d))
      [] OTHER                        -> Ignored

\* SecureChannel::Open at either end.
Opens(end, d) == end.channel /\ d.token = end.token /\ d.eph = end.eph

\* ClientConnection::HandleAppMessage.  Results are only heeded while the login
\* is unresolved; the development login's response always is.
OnResult(d) ==
    CASE d.type = "LoginResponse" ->
            Outcome([conn EXCEPT !.state = "Connected"], ephemerals, << >>)
      [] d.type # "LoginResponse" /\ conn.state # "Authenticating" -> Ignored
      [] d.type = "Ok" /\ conn.state = "Authenticating" ->
            Outcome([conn EXCEPT !.state = "Connected"], ephemerals, << >>)
      [] d.type = "InvalidCredentials" /\ conn.state = "Authenticating" ->
            IF ~conn.tried /\ conn.opcode = "Login"
            THEN LET c == [conn EXCEPT !.tried = TRUE, !.opcode = "Register"]
                 IN  Outcome(c, ephemerals, << [type |-> "Register", token |-> c.token, eph |-> c.eph] >>)
            ELSE Ignored
      [] OTHER -> Failed

OnDatagramOutcome(d) ==
    IF d.type \in ClearTypes THEN OnClear(d)
    ELSE IF Opens(conn, d) THEN OnResult(d) ELSE Ignored

\* SessionImpl::Tick: the datagram, then the state that follows from it.
ClientReceive ==
    \E i \in DOMAIN toClient :
        /\ Delivers(toClient, i, toClient')
        /\ conn # NoConn
        /\ LET o == OnDatagramOutcome(toClient[i])
           IN  /\ ephemerals' = o.ephemerals
               /\ toServer' = Sent(toServer, o.frames)
               /\ CASE o.conn.state = "Connected" ->
                          /\ m_state' = "Connected"
                          /\ m_everConnected' = TRUE
                          /\ conn' = o.conn
                    [] o.conn.state = "Disconnected" /\ m_state # "Disconnected" ->
                          IF m_everConnected
                          THEN m_state' = "Reconnecting" /\ conn' = NoConn /\ UNCHANGED m_everConnected
                          ELSE m_state' = "Disconnected" /\ conn' = o.conn /\ UNCHANGED m_everConnected
                    [] OTHER -> conn' = o.conn /\ UNCHANGED << m_state, m_everConnected >>
        /\ UNCHANGED << m_realAuth, compatible, attempts, serverVars >>

-----------------------------------------------------------------------------
(* The server: ServerHost::OnDatagram and ServerConnection.                *)

Reply(ds) == toClient' = Sent(toClient, ds)

\* Stateless: nothing is kept for a ClientHello.
OnClientHello(d) ==
    /\ d.type = "ClientHello"
    /\ server = NoEntry
    /\ Reply(<< Clear(IF compatible THEN "Cookie" ELSE "VersionReject") >>)
    /\ UNCHANGED serverVars

\* A CookieResponse (cookies do not expire) from an address with no connection.
OnCookieResponse(d) ==
    LET token == m_tokenCounter + 1
    IN  /\ d.type = "CookieResponse"
        /\ server = NoEntry
        /\ m_tokenCounter' = token
        /\ server' = [token |-> token, state |-> "Handshaking", channel |-> FALSE, eph |-> d.eph]
        /\ Reply(<< [type |-> "HandshakeResponse", token |-> token, eph |-> 0] >>)
        /\ UNCHANGED << account, forgets >>

\* Mutant: a lost handshake message is not sent again.
ResendHandshakeNever == << >>

\* ServerConnection::ResendHandshake, for a repeated CookieResponse.
ResendHandshake ==
    IF server.state = "Handshaking"
    THEN << [type |-> "HandshakeResponse", token |-> server.token, eph |-> 0] >> ELSE << >>

OnRepeatedCookieResponse(d) ==
    /\ d.type = "CookieResponse"
    /\ server # NoEntry
    /\ Reply(ResendHandshake)
    /\ UNCHANGED serverVars

\* ServerConnection::OnDatagram, clear.
OnClockSyncRequest(d) ==
    /\ d.type = "ClockSyncRequest"
    /\ server # NoEntry
    /\ server' = IF server.channel THEN server
                 ELSE [server EXCEPT !.channel = TRUE, !.state = "Authenticating"]
    /\ Reply(<< Clear("ClockSyncResponse") >>)
    /\ UNCHANGED << m_tokenCounter, account, forgets >>

\* What AccountStore answers, and the account afterwards.
Verdicts(request) ==
    (IF STORE_REFUSES THEN {<< "Refused", account >>} ELSE {})
    \cup
    { IF request = "Login"
      THEN << IF account = "mine" THEN "Ok" ELSE "InvalidCredentials", account >>
      ELSE IF account = "none" THEN << "Ok", "mine" >> ELSE << "UsernameTaken", account >> }

SealedReply(type) == Reply(<< [type |-> type, token |-> server.token, eph |-> server.eph] >>)

\* ServerHost::OnAuthMessage.
OnAuthMessage(d) ==
    /\ d.type \in {"Login", "Register"}
    /\ Opens(server, d)
    /\ \E v \in Verdicts(d.type) :
          /\ account' = v[2]
          /\ server' = IF v[1] = "Ok" /\ server.state = "Authenticating"
                       THEN [server EXCEPT !.state = "Connected"] ELSE server
          /\ SealedReply(v[1])
    /\ UNCHANGED << m_tokenCounter, forgets >>

\* ServerConnection::HandleAppMessage, development login.
OnLoginRequest(d) ==
    /\ d.type = "LoginRequest"
    /\ Opens(server, d)
    /\ server' = [server EXCEPT !.state = "Connected"]
    /\ SealedReply("LoginResponse")
    /\ UNCHANGED << m_tokenCounter, account, forgets >>

OnDisconnect(d) ==
    /\ d.type = "Disconnect"
    /\ Opens(server, d)
    /\ server' = NoEntry
    /\ UNCHANGED << m_tokenCounter, account, forgets, toClient >>

\* A ClientHello for a connection that exists, a ClockSyncRequest for none, a
\* sealed datagram of another token or key.
Dropped(d) ==
    /\ \/ d.type = "ClientHello" /\ server # NoEntry
       \/ d.type = "ClockSyncRequest" /\ server = NoEntry
       \/ d.type \in Requests /\ ~Opens(server, d)
    /\ UNCHANGED << serverVars, toClient >>

ServerReceive ==
    \E i \in DOMAIN toServer :
        LET d == toServer[i]
        IN  /\ Delivers(toServer, i, toServer')
            /\ \/ OnClientHello(d) \/ OnCookieResponse(d) \/ OnRepeatedCookieResponse(d)
               \/ OnClockSyncRequest(d) \/ OnAuthMessage(d) \/ OnLoginRequest(d)
               \/ OnDisconnect(d) \/ Dropped(d)
            /\ UNCHANGED clientVars

\* PruneStale after a silence, a kick, or a restart of the server.
ServerForgets ==
    /\ server # NoEntry
    /\ forgets < MAX_FORGETS
    /\ forgets' = forgets + 1
    /\ server' = NoEntry
    /\ UNCHANGED << clientVars, m_tokenCounter, account, netVars >>

\* With no connection object nobody reads the socket; what arrives waits.
Next ==
    \/ Connect \/ ReconnectAttempt \/ UserDisconnect \/ ResendPending \/ BeginReconnect
    \/ ClientReceive \/ ServerReceive
    \/ ServerForgets
    \/ Lose

Spec == Init /\ [][Next]_vars

\* The client ticks, the server reads its socket, and a datagram that is not
\* lost arrives.
Fairness ==
    /\ WF_vars(ResendPending)
    /\ WF_vars(ReconnectAttempt)
    /\ WF_vars(ClientReceive)
    /\ WF_vars(ServerReceive)

FairSpec == Spec /\ Fairness

-----------------------------------------------------------------------------
(* Within the client's first attempt the two ends of a connection derive   *)
(* the same keys, however the handshake datagrams are lost, repeated,      *)
(* reordered or re-sent (what OnCookie and OnHandshakeResponse are         *)
(* idempotent for).                                                        *)
KeysAgree ==
    (attempts <= 1 /\ HaveKeys(conn) /\ server.token = conn.token) => server.eph = conn.eph

(* A client that believes it is logged in is: the server's connection of   *)
(* its token, if there still is one, is logged in and has the client's     *)
(* keys; also when answers to earlier attempts arrive late.                *)
ConnectedAgrees ==
    (conn.state = "Connected" /\ server.token = conn.token)
        => server.state = "Connected" /\ server.channel /\ server.eph = conn.eph

(* What makes it inductive: tokens are never used again, a channel is      *)
(* there exactly in the states that need one, and an answer that means     *)
(* "logged in", however late it arrives, was sent by a connection that is  *)
(* logged in, or gone.                                                     *)
SessionInv ==
    /\ TypeOK
    /\ ConnectedAgrees
    /\ conn.token <= m_tokenCounter /\ server.token <= m_tokenCounter
    /\ conn.channel => HaveKeys(conn) /\ conn.complete
    /\ conn.state \in {"Authenticating", "Connected"} => conn.channel
    /\ server.channel <=> server.state \in {"Authenticating", "Connected"}
    /\ server = NoEntry <=> server.token = 0
    /\ \A i \in DOMAIN toClient :
          /\ toClient[i].token <= m_tokenCounter
          /\ toClient[i].type = "HandshakeResponse" => toClient[i].token # 0
          /\ (toClient[i].type \in {"Ok", "LoginResponse"} /\ server.token = toClient[i].token)
                => /\ server.token # 0 => server.state = "Connected"
                   /\ server.eph = toClient[i].eph

(* Both ends agree on tokens, keys and login states, late answers and      *)
(* retries included (SessionInv has ConnectedAgrees as a part).            *)
SessionAgrees == SessionInv /\ KeysAgree

(* A client that starts to connect is connected or refused in the end,     *)
(* through lost and repeated datagrams: the retries of both ends make up   *)
(* for them.  Not so when the first attempt has been given up, when the    *)
(* server has dropped the connection meanwhile (the client repeats itself  *)
(* to a server that has forgotten it), or when a datagram has overtaken    *)
(* another (after a late second Cookie the client repeats its              *)
(* CookieResponse, which the server by then ignores).                      *)
EventuallyConnected ==
    (m_state = "Handshaking") ~>
        \/ m_state = "Connected" \/ conn = NoConn \/ conn.state = "Disconnected"
        \/ attempts > 1 \/ forgets > 0 \/ overtaken
=============================================================================
