------------------------------ MODULE Reconnect ------------------------------
(***************************************************************************)
(* The reconnect loop in time: ReconnectController and ReconnectPolicy,    *)
(* SessionImpl::Tick's timeouts, and the one entry the server keeps for    *)
(* the client's address (ServerHost), which a clear handshake refreshes    *)
(* and PruneStale removes.  The messages of the handshake are module       *)
(* Session's; here a handshake takes one unit of time.                     *)
(*                                                                         *)
(* The clock is kept as what is left or gone of each interval, so there is *)
(* no bound on time: wait = max(0, m_nextAttemptMs - now), and age, silent *)
(* and idle stop counting where no comparison tells them apart.            *)
(***************************************************************************)
EXTENDS Naturals

CONSTANTS BASE_DELAY, MAX_DELAY, MULTIPLIER,
          CONN_LOST,          \* CONN_LOST_MS
          HANDSHAKE_TIMEOUT,  \* HANDSHAKE_TIMEOUT_MS
          IDLE_TIMEOUT,       \* the server's idle window
          MAX_ATTEMPT,        \* m_attempt stops counting here, past the cap of the ceiling
          MAX_OUTAGES         \* bound: network and server faults

VARIABLES m_state, m_everConnected,
          age,        \* since m_attemptStartMs
          silent,     \* since m_lastRecvMs
          m_attempt, m_waiting, wait,
          entry,      \* the server's: "none", "live" (ours), "old" (a former connection's)
          idle,       \* since the entry's lastSeenMs
          net,        \* "up", "down", or "mute": nothing reaches the client
          refuses,    \* the server turns logins down
          outages,
          since       \* history: time since the last attempt that got no answer

reconnectVars ==
    << m_state, m_everConnected, age, silent, m_attempt, m_waiting, wait, entry, idle, net, refuses, outages, since >>

Capped(n, top) == IF n > top THEN top ELSE n
Less(n) == IF n = 0 THEN 0 ELSE n - 1

\* Mutant: the ceiling is capped at the server's idle window.
CeilingBelowIdle(attempt) == Capped(BASE_DELAY * MULTIPLIER ^ attempt, IDLE_TIMEOUT)
\* CeilingMs: grown by the multiplier, capped at every step.
Ceiling(attempt) == Capped(BASE_DELAY * MULTIPLIER ^ attempt, MAX_DELAY)
\* DelayMs: any draw of the jitter.
Delays(attempt) == 0 .. Ceiling(attempt) - 1

\* Connect and DoConnect.
ReconnectInit ==
    /\ m_state = "Handshaking" /\ m_everConnected = FALSE
    /\ age = 0 /\ silent = 0
    /\ m_attempt = 0 /\ m_waiting = FALSE /\ wait = 0
    /\ entry = "none" /\ idle = 0
    /\ net = "up" /\ refuses = FALSE /\ outages = 0 /\ since = 0

-----------------------------------------------------------------------------
\* OnConnected
OnConnected == m_attempt' = 0 /\ m_waiting' = FALSE /\ wait' = 0

\* OnConnectionLost: a wait that is armed already is left alone.
OnConnectionLost(delay) ==
    /\ m_waiting' = TRUE
    /\ wait' = IF m_waiting THEN Less(wait) ELSE delay
    /\ UNCHANGED m_attempt

\* BeginReconnect: the server's entry is now a former connection's.
BeginReconnect(delay) ==
    /\ m_state' = "Reconnecting"
    /\ OnConnectionLost(delay)
    /\ UNCHANGED << m_everConnected, age, silent >>

TimerRuns == wait' = Less(wait) /\ UNCHANGED << m_attempt, m_waiting >>

\* The server in one unit of time: what reaches the entry refreshes it, an idle
\* entry is pruned.
Server(heard, new) ==
    LET quiet == IF heard THEN 0 ELSE Capped(idle + 1, IDLE_TIMEOUT + 1)
    IN  IF new THEN entry' = "live" /\ idle' = 0
        ELSE IF entry = "none" \/ quiet > IDLE_TIMEOUT THEN entry' = "none" /\ idle' = 0
        ELSE entry' = (IF m_state' = "Connected" THEN entry ELSE "old") /\ idle' = quiet

Reached == net # "down"

\* Tick while Reconnecting: Poll, and DoConnect once the timer has elapsed.
PollWaits ==
    /\ m_state = "Reconnecting" /\ ~(m_waiting /\ wait = 0)
    /\ TimerRuns
    /\ since' = Capped(since + 1, HANDSHAKE_TIMEOUT + 1)
    /\ UNCHANGED << m_state, m_everConnected, age, silent >>
    /\ Server(FALSE, FALSE)

PollFires(delay) ==
    /\ m_state = "Reconnecting" /\ m_waiting /\ wait = 0
    /\ m_attempt' = Capped(m_attempt + 1, MAX_ATTEMPT)
    /\ delay \in Delays(m_attempt')
    /\ wait' = delay /\ m_waiting' = TRUE
    /\ m_state' = "Handshaking" /\ age' = 0 /\ silent' = 0 /\ since' = 0
    /\ UNCHANGED m_everConnected
    /\ Server(Reached, FALSE)

\* Each attempt after a live session has a budget.
Stalled == age > HANDSHAKE_TIMEOUT

\* Tick while the handshake is under way.  A clear handshake from an address the
\* server has an entry for goes to that entry, and gets nowhere.
TickHandshaking(delay) ==
    /\ m_state = "Handshaking"
    /\ delay \in Delays(m_attempt)
    /\ since' = IF net = "up" /\ entry = "none" THEN HANDSHAKE_TIMEOUT + 1 ELSE Capped(since + 1, HANDSHAKE_TIMEOUT + 1)
    /\ \/ /\ net = "up" /\ entry = "none" /\ ~refuses
          /\ m_state' = "Connected" /\ m_everConnected' = TRUE
          /\ OnConnected
          /\ silent' = 0 /\ UNCHANGED age
          /\ Server(TRUE, TRUE)
       \/ /\ net = "up" /\ entry = "none" /\ refuses
          /\ IF m_everConnected THEN BeginReconnect(delay)
             ELSE /\ m_state' = "Disconnected" /\ TimerRuns
                  /\ UNCHANGED << m_everConnected, age, silent >>
          /\ Server(FALSE, FALSE)
       \/ /\ net # "up" \/ entry # "none"
          /\ IF m_everConnected /\ Stalled
             THEN BeginReconnect(delay) /\ Server(FALSE, FALSE)
             ELSE /\ age' = Capped(age + 1, HANDSHAKE_TIMEOUT + 1)
                  /\ TimerRuns
                  /\ UNCHANGED << m_state, m_everConnected, silent >>
                  /\ Server(Reached, FALSE)

\* Tick while connected: the keepalive, and the liveness timeout.
TickConnected(delay) ==
    /\ m_state = "Connected"
    /\ delay \in Delays(m_attempt)
    /\ since' = Capped(since + 1, HANDSHAKE_TIMEOUT + 1)
    /\ IF net = "up" /\ entry = "live"
       THEN /\ silent' = 0 /\ TimerRuns
            /\ UNCHANGED << m_state, m_everConnected, age >>
       ELSE IF silent + 1 > CONN_LOST
            THEN BeginReconnect(delay)
            ELSE /\ silent' = silent + 1 /\ TimerRuns
                 /\ UNCHANGED << m_state, m_everConnected, age >>
    /\ Server(Reached, FALSE)

\* One unit of time.
Tick ==
    /\ UNCHANGED << net, refuses, outages >>
    /\ \/ PollWaits
       \/ \E delay \in 0 .. MAX_DELAY - 1 : PollFires(delay) \/ TickHandshaking(delay) \/ TickConnected(delay)

\* The jitter draws the longest delay there is.
LongDraw ==
    PollFires(Ceiling(Capped(m_attempt + 1, MAX_ATTEMPT)) - 1) /\ UNCHANGED << net, refuses, outages >>

\* The network, the server's restart, and an account the server turns down.
Disturbed ==
    /\ outages < MAX_OUTAGES /\ outages' = outages + 1
    /\ \/ net' \in {"up", "down", "mute"} \ {net} /\ UNCHANGED << entry, idle, refuses >>
       \/ entry' = "none" /\ idle' = 0 /\ entry # "none" /\ UNCHANGED << net, refuses >>
       \/ refuses' = ~refuses /\ UNCHANGED << net, entry, idle >>
    /\ UNCHANGED << m_state, m_everConnected, age, silent, m_attempt, m_waiting, wait, since >>

ReconnectNext == Tick \/ Disturbed

\* Time passes and Tick is called; a uniform jitter draws long delays again and again.
ReconnectFairness == WF_reconnectVars(Tick) /\ SF_reconnectVars(LongDraw)

ReconnectSpec == ReconnectInit /\ [][ReconnectNext]_reconnectVars /\ ReconnectFairness

-----------------------------------------------------------------------------
(* A client that waits is going to try again: the timer is armed and never *)
(* further away than the longest delay.                                    *)
WaitIsArmed == m_state = "Reconnecting" => m_waiting /\ wait < MAX_DELAY

(* The back-off starts over with every connection: the first wait after a  *)
(* live session is below the base delay, however long the outage before it *)
(* was.                                                                    *)
BackoffStep == (m_state = "Connected" /\ m_state' = "Reconnecting") => wait' < BASE_DELAY

(* A server that does not answer is not hammered: two attempts are further *)
(* apart than the handshake's budget, unless a login was turned down.      *)
SpacedAttempt ==
    (m_state = "Reconnecting" /\ m_state' = "Handshaking" /\ m_attempt > 0)
        => since > HANDSHAKE_TIMEOUT
=============================================================================
