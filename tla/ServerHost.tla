----------------------------- MODULE ServerHost -----------------------------
(***************************************************************************)
(* NeuronCore/ServerHost.h: the connections of one server, how a datagram  *)
(* is routed to one, how an account is bound to a connection and a base,   *)
(* and how connections end.  The host is single-threaded, so an action is  *)
(* the handling of one datagram, or one PruneStale, from start to finish;  *)
(* what interleaves is the arrival of datagrams from several peers, idle   *)
(* time, and the pruning.                                                  *)
(*                                                                         *)
(* The server side of Connection.h is folded in (the state of an entry).   *)
(* Which datagrams a peer sends, and in what order, is left open here: the *)
(* handshake as a protocol between the two ends is module Session.  A      *)
(* token is the counter NextToken mixes (the mixing is injective).         *)
(***************************************************************************)
EXTENDS ConnectionTable

CONSTANTS Endpoints,      \* peer addresses, "ip:port"
          Accounts,       \* account ids of the store, all non-zero
          MAX_TOKEN,      \* bound on the connections allocated
          MAX_NET_ID      \* bound on the bases spawned

ASSUME HostAssumption ==
    /\ Accounts \subseteq Nat \ {0}
    /\ MAX_TOKEN \in Nat
    /\ MAX_NET_ID \in Nat
    /\ Tokens = 1 .. MAX_TOKEN

VARIABLES m_devAuthStub,   \* SetPersistDeps: base-at-cookie development mode
          m_conns,         \* token -> ConnEntry
          m_addrToToken,   \* endpoint -> token
          m_tokenCounter,
          idle,            \* tokens that have been silent past the timeout
          bases,           \* net ids of the live bases (ServerUniverse)
          m_nextNetId,     \* ServerUniverse
          seeded,          \* accounts whose starting credits were enqueued
          baseAccount,     \* history: account a base was spawned for (0: none)
          commanded        \* history: <<account, base>> of applied fleet commands

hostVars == << m_devAuthStub, m_conns, m_addrToToken, m_tokenCounter, idle, bases, m_nextNetId,
               seeded, baseAccount, commanded >>
vars == << tableVars, hostVars >>

NetIds == 1 .. MAX_NET_ID
ConnState == {"Handshaking", "Authenticating", "Connected", "Disconnected"}
ConnEntry == [ endpoint : Endpoints, state : ConnState, channel : BOOLEAN, authed : BOOLEAN,
               accountId : Accounts \cup {0}, playerNetId : NetIds \cup {0}, handle : Handle ]

TypeOK ==
    /\ TableTypeOK
    /\ m_devAuthStub \in BOOLEAN
    /\ DOMAIN m_conns \subseteq Tokens
    /\ m_conns \in [DOMAIN m_conns -> ConnEntry]
    /\ DOMAIN m_addrToToken \subseteq Endpoints
    /\ m_addrToToken \in [DOMAIN m_addrToToken -> Tokens]
    /\ m_tokenCounter \in 0 .. MAX_TOKEN
    /\ idle \subseteq Tokens
    /\ bases \subseteq NetIds
    /\ m_nextNetId \in 1 .. (MAX_NET_ID + 1)
    /\ seeded \subseteq Accounts
    /\ baseAccount \in [NetIds -> Accounts \cup {0}]
    /\ commanded \subseteq (Accounts \cup {0}) \X (NetIds \cup {0})

Init ==
    /\ TableInit
    /\ m_devAuthStub \in BOOLEAN
    /\ m_conns = [t \in {} |-> 0]
    /\ m_addrToToken = [e \in {} |-> 0]
    /\ m_tokenCounter = 0
    /\ idle = {}
    /\ bases = {}
    /\ m_nextNetId = 1
    /\ seeded = {}
    /\ baseAccount = [n \in NetIds |-> 0]
    /\ commanded = {}

\* SpawnPlayerWorld: a base and, with the net id after it, the starter ship
\* (which stays when the base goes).
SpawnedIds == 2
CanSpawn == m_nextNetId + SpawnedIds <= MAX_NET_ID + 1

Without(f, S) == [x \in DOMAIN f \ S |-> f[x]]

-----------------------------------------------------------------------------
(* A CookieResponse with a valid cookie from an address that has no        *)
(* connection: a connection, a route, a slot and, in development mode, a   *)
(* base.  keysAgree is FALSE when the ECDH in BeginFromCookieResponse      *)
(* fails; the entry is stored all the same, Disconnected.                  *)
OnCookieResponse(from, keysAgree) ==
    LET token == m_tokenCounter + 1
        netId == IF m_devAuthStub THEN m_nextNetId ELSE 0
    IN  /\ from \notin DOMAIN m_addrToToken
        /\ token <= MAX_TOKEN
        /\ m_devAuthStub => CanSpawn
        /\ m_tokenCounter' = token
        /\ OpenNew(token)
        /\ m_conns' = [t \in DOMAIN m_conns \cup {token} |->
              IF t = token
              THEN [ endpoint |-> from,
                     state |-> IF keysAgree THEN "Handshaking" ELSE "Disconnected",
                     channel |-> FALSE, authed |-> m_devAuthStub, accountId |-> 0,
                     playerNetId |-> netId,
                     handle |-> CHOOSE h \in issued' : h.token = token ]
              ELSE m_conns[t]]
        /\ m_addrToToken' = [e \in DOMAIN m_addrToToken \cup {from} |->
                               IF e = from THEN token ELSE m_addrToToken[e]]
        /\ bases' = IF m_devAuthStub THEN bases \cup {netId} ELSE bases
        /\ m_nextNetId' = IF m_devAuthStub THEN m_nextNetId + SpawnedIds ELSE m_nextNetId
        /\ UNCHANGED << m_devAuthStub, idle, seeded, baseAccount, commanded >>

-----------------------------------------------------------------------------
(* RemoveConnection and KickExistingSessionForAccount. *)

\* Drop the routes and the slots of the connections in ts.
Unroute(ts) ==
    /\ m_addrToToken' = Without(m_addrToToken, {m_conns[t].endpoint : t \in ts})
    /\ TableClose(ts)

\* void RemoveConnection(uint64_t token), for each of ts.
RemoveConnections(ts) ==
    /\ bases' = bases \ {m_conns[t].playerNetId : t \in ts}
    /\ Unroute(ts)
    /\ m_conns' = Without(m_conns, ts)
    /\ idle' = idle \ ts
    /\ UNCHANGED << m_devAuthStub, m_tokenCounter, m_nextNetId, seeded, baseAccount, commanded >>

\* The connection after a datagram that neither ends nor re-binds it.
Touched(t) == idle' = idle \ {t}

UpdateConn(t, entry) ==
    /\ m_conns' = [m_conns EXCEPT ![t] = entry]
    /\ Touched(t)
    /\ UNCHANGED << tableVars, m_devAuthStub, m_addrToToken, m_tokenCounter, bases, m_nextNetId,
                    seeded, baseAccount, commanded >>

EndConn(t) == RemoveConnections({t})

-----------------------------------------------------------------------------
(* A clear handshake datagram from the address of a connection.  Only      *)
(* ClockSyncRequest changes it: the first one, once the keys are there,    *)
(* builds the secure channel.  A repeated CookieResponse, a ClientHello or *)
(* anything else only counts as activity.  An entry found Disconnected is  *)
(* removed after the dispatch, and so is one whose ClockSyncRequest does   *)
(* not decode.                                                             *)
OnClearDatagram(from, type) ==
    /\ from \in DOMAIN m_addrToToken
    /\ LET t == m_addrToToken[from]
           e == m_conns[t]
       IN  /\ t \in DOMAIN m_conns
           /\ IF e.state = "Disconnected" \/ type = "BadClockSync"
              THEN EndConn(t)
              ELSE IF type = "ClockSyncRequest" /\ ~e.channel
                   THEN UpdateConn(t, [e EXCEPT !.channel = TRUE, !.state = "Authenticating"])
                   ELSE UpdateConn(t, e)

\* Routed by token, whatever the sender's address.
Routed(t) == t \in DOMAIN m_conns

\* An encrypted datagram that the channel refuses (or that comes before the
\* channel exists), or a Keepalive.
OnKeepalive(t) ==
    /\ Routed(t)
    /\ IF m_conns[t].state = "Disconnected" THEN EndConn(t) ELSE UpdateConn(t, m_conns[t])

OnDisconnect(t) ==
    /\ Routed(t)
    /\ m_conns[t].channel
    /\ EndConn(t)

\* The development-mode login frame; the connection accepts it in any mode.
OnLoginRequest(t) ==
    /\ Routed(t)
    /\ m_conns[t].channel
    /\ UpdateConn(t, [m_conns[t] EXCEPT !.state = "Connected"])

\* Gameplay intents are applied for the bound base, once logged in.
OnFleetCommand(t) ==
    /\ Routed(t)
    /\ m_conns[t].channel
    /\ commanded' = IF m_conns[t].authed
                    THEN commanded \cup {<< m_conns[t].accountId, m_conns[t].playerNetId >>}
                    ELSE commanded
    /\ Touched(t)
    /\ UNCHANGED << tableVars, m_devAuthStub, m_conns, m_addrToToken, m_tokenCounter, bases,
                    m_nextNetId, seeded, baseAccount >>

-----------------------------------------------------------------------------
(* OnAuthMessage, success: the account's other connection is dropped, a    *)
(* base is bound, the connection is Connected and authed.                  *)

\* Mutant: an older session of the account stays.
KickNobody(account, keepToken) == {}

\* KickExistingSessionForAccount: the other connections bound to the account.
\* They lose their route, slot and entry, and keep their base in the universe.
Kicked(account, keepToken) ==
    { u \in DOMAIN m_conns :
        u # keepToken /\ m_conns[u].authed /\ m_conns[u].accountId = account }

\* The base of the account as the store knows it: SELECT BaseId FROM Bases.
\* Nothing in the program inserts a row (SetAccountBase does nothing).
SessionBaseId(account) == 0

MarkConnected(state) == IF state = "Authenticating" THEN "Connected" ELSE state

\* BindAccountBase: returns the bound net id.
FirstLogin(account) == ~(SessionBaseId(account) # 0 /\ SessionBaseId(account) \in bases)

BoundBase(account) == IF FirstLogin(account) THEN m_nextNetId ELSE SessionBaseId(account)

OnAuthSuccess(t, account) ==
    /\ Routed(t)
    /\ m_conns[t].channel
    /\ m_conns[t].state # "Disconnected"
    /\ FirstLogin(account) => CanSpawn
    /\ LET kicked == Kicked(account, t)
           netId == BoundBase(account)
           entry == [m_conns[t] EXCEPT !.state = MarkConnected(@), !.authed = TRUE,
                                       !.accountId = account, !.playerNetId = netId]
       IN  /\ m_conns' = [u \in DOMAIN m_conns \ kicked |-> IF u = t THEN entry ELSE m_conns[u]]
           /\ Unroute(kicked)
           /\ idle' = idle \ (kicked \cup {t})
           /\ bases' = bases \cup {netId}
           /\ m_nextNetId' = IF FirstLogin(account) THEN m_nextNetId + SpawnedIds ELSE m_nextNetId
           /\ seeded' = IF FirstLogin(account) THEN seeded \cup {account} ELSE seeded
           /\ baseAccount' = [baseAccount EXCEPT ![netId] = account]
           /\ UNCHANGED << m_devAuthStub, m_tokenCounter, commanded >>

\* Failure (bad input, no store, wrong password, locked, rate limited): a reply.
OnAuthFailure(t) ==
    /\ Routed(t)
    /\ m_conns[t].channel
    /\ UpdateConn(t, m_conns[t])

-----------------------------------------------------------------------------
\* Time passes and a connection has sent nothing past IDLE_TIMEOUT_MS.
GoIdle(t) ==
    /\ t \in DOMAIN m_conns
    /\ t \notin idle
    /\ idle' = idle \cup {t}
    /\ UNCHANGED << tableVars, m_devAuthStub, m_conns, m_addrToToken, m_tokenCounter, bases,
                    m_nextNetId, seeded, baseAccount, commanded >>

\* std::vector<ClosedConn> PruneStale(uint64_t timeoutMs)
Stale == { t \in DOMAIN m_conns : m_conns[t].state = "Disconnected" \/ t \in idle }
PruneStale == Stale # {} /\ RemoveConnections(Stale)

ClearTypes == {"ClockSyncRequest", "BadClockSync", "other"}

Next ==
    \/ \E from \in Endpoints, keysAgree \in BOOLEAN : OnCookieResponse(from, keysAgree)
    \/ \E from \in Endpoints, type \in ClearTypes : OnClearDatagram(from, type)
    \/ \E t \in Tokens :
          \/ OnKeepalive(t) \/ OnDisconnect(t) \/ OnLoginRequest(t) \/ OnFleetCommand(t)
          \/ OnAuthFailure(t) \/ GoIdle(t)
    \/ PruneStale
    \/ \E t \in Tokens, account \in Accounts : OnAuthSuccess(t, account)

Spec == Init /\ [][Next]_vars

-----------------------------------------------------------------------------
(* Routing by address is exact: m_addrToToken holds the address of every   *)
(* connection and nothing else, so no address has two connections, and no  *)
(* route outlives or precedes its connection, through kicks, prunes and    *)
(* failed handshakes.                                                      *)
RoutesExact ==
    /\ DOMAIN m_addrToToken = { m_conns[t].endpoint : t \in DOMAIN m_conns }
    /\ \A t \in DOMAIN m_conns : m_addrToToken[m_conns[t].endpoint] = t

(* Routing by token is exact: the slot table knows the tokens of the       *)
(* connections and no others, and the handle each entry keeps is live.     *)
SlotsMatchConns ==
    /\ DOMAIN m_byToken = DOMAIN m_conns
    /\ \A t \in DOMAIN m_conns : Validate(m_conns[t].handle) /\ m_conns[t].handle.token = t

(* One active session per account: no two connections are bound to one     *)
(* account, whatever order the logins, kicks and reconnects come in.       *)
OneSessionPerAccount ==
    \A t, u \in DOMAIN m_conns :
        ( /\ m_conns[t].authed /\ m_conns[u].authed
          /\ m_conns[t].accountId # 0
          /\ m_conns[t].accountId = m_conns[u].accountId ) => t = u

(* A logged-in connection commands a live base that was spawned for its    *)
(* account and that no other connection commands: removing one connection  *)
(* never despawns the base of another.                                     *)
SessionOwnsLiveBase ==
    \A t \in DOMAIN m_conns :
        LET n == m_conns[t].playerNetId
        IN  /\ m_conns[t].authed <=> n # 0
            /\ n # 0 => /\ n \in bases
                        /\ baseAccount[n] = m_conns[t].accountId
                        /\ \A u \in DOMAIN m_conns : m_conns[u].playerNetId = n => u = t

(* Gameplay commands are only ever applied to the base of the account that *)
(* sent them.                                                              *)
CommandsOwnBase ==
    \A c \in commanded : c[2] # 0 /\ baseAccount[c[2]] = c[1]

(* A login never duplicates an account's base: OnAuthMessage says the      *)
(* kicked peer's base "is handed over, not duplicated".                    *)
OneBasePerAccount ==
    \A n, k \in bases :
        (baseAccount[n] # 0 /\ baseAccount[n] = baseAccount[k]) => n = k

(* Slot table, routes, connections, account bindings and bases agree,      *)
(* whatever the order of handshakes, logins, kicks, disconnects and        *)
(* pruning: routing is exact both ways, an account has one session, a      *)
(* session one live base of its own, and commands reach no other           *)
(* (OnDatagram, OnAuthMessage, RemoveConnection, PruneStale).              *)
HostInv ==
    /\ TableInv /\ RoutesExact /\ SlotsMatchConns
    /\ OneSessionPerAccount /\ SessionOwnsLiveBase /\ CommandsOwnBase
=============================================================================
