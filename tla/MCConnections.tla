---------------------------- MODULE MCConnections ----------------------------
(* Connections, part by part: the host with several peers (the module      *)
(* extended), and both ends of one session over a faulty network.  A       *)
(* behaviour is one of the part it chose, and the variables of the other   *)
(* stay at their initial values.                                           *)
EXTENDS ServerHost

CONSTANTS
    Faults, MAX_FAULTS, CAPACITY, MAX_ATTEMPTS, MAX_FORGETS, AuthModes, AccountStates,
    Compatibility, STORE_REFUSES

VARIABLES
    part,
    m_state, m_everConnected, m_realAuth, compatible, conn, attempts, ephemerals, server, tokens,
    account, forgets, toServer, toClient, faults, overtaken

Peer == INSTANCE SessionProofs WITH m_tokenCounter <- tokens

\* The types of the session's constants.
ASSUME PeerAssumption == Peer!SessionAssumption

peerVars == << m_state, m_everConnected, m_realAuth, compatible, conn, attempts, ephemerals, server,
               tokens, account, forgets, toServer, toClient, faults, overtaken >>
allVars == << part, vars, peerVars >>

\* Without real accounts the store is not asked.
ConnectionsInit ==
    /\ part \in {"host", "session"}
    /\ Init /\ (part # "host" => m_devAuthStub)
    /\ Peer!Init /\ (part # "session" => m_realAuth /\ compatible)
    /\ part # "session" \/ ~m_realAuth => account = CHOOSE a \in AccountStates : TRUE

HostNext == part = "host" /\ Next /\ UNCHANGED << part, peerVars >>
SessionNext == part = "session" /\ Peer!Next /\ UNCHANGED << part, vars >>
ConnectionsNext == HostNext \/ SessionNext

\* The fairness of Session.
ConnectionsFairness ==
    /\ WF_peerVars(part = "session" /\ Peer!ResendPending)
    /\ WF_peerVars(part = "session" /\ Peer!ReconnectAttempt)
    /\ WF_peerVars(part = "session" /\ Peer!ClientReceive)
    /\ WF_peerVars(part = "session" /\ Peer!ServerReceive)

ConnectionsSpec == ConnectionsInit /\ [][ConnectionsNext]_allVars /\ ConnectionsFairness

(***************************************************************************)
(* The properties of Session, stated there                                 *)
(***************************************************************************)
(* Both ends agree on tokens, keys and login states, late answers and      *)
(* retries included.                                                       *)
SessionAgrees == part = "session" => Peer!SessionAgrees
(* A client that starts to connect is connected or refused in the end.     *)
EventuallyConnected ==
    (part = "session" /\ m_state = "Handshaking") ~>
        \/ m_state = "Connected" \/ conn = Peer!NoConn \/ conn.state = "Disconnected"
        \/ attempts > 1 \/ forgets > 0 \/ overtaken
=============================================================================
