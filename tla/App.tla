-------------------------------- MODULE App --------------------------------
(***************************************************************************)
(* The life of the client process (EarthRise/App.cpp): WinMain, the        *)
(* initialisation that can fail at every step, the handshake pump, the     *)
(* loop of messages and ticks, the modal notice that the server cannot be  *)
(* reached, and the teardown.  The session is seen from outside: its state *)
(* and whether the server holds a live connection of ours (module Session  *)
(* has the protocol).                                                      *)
(***************************************************************************)
EXTENDS Naturals, Sequences, FiniteSets

CONSTANTS MAX_ROUNDS   \* bound: handshake pumps and ticks

VARIABLES at,          \* where WinMain is: a phase, or the subsystem it brings up next
          up,          \* the subsystems that are initialised
          window,      \* "none", "open", "destroyed"
          m_running, m_bloom, m_connectedLogged, m_serverUnreachableNotified, m_dialogOpen,
          late,        \* CONNECT_TIMEOUT_MS have passed since m_connectStart
          quitPosted,  \* WM_QUIT is in the message queue
          sess,        \* the session's state ("none": no session)
          held,        \* our connection at the server: "no", "live", or "stale" once we gave it up
          exitCode, rounds

appVars == << at, up, window, m_running, m_bloom, m_connectedLogged, m_serverUnreachableNotified,
              m_dialogOpen, late, quitPosted, sess, held, exitCode, rounds >>

\* InitNetwork and InitGraphicsAndConnect, in order.  What is not required may
\* be missing afterwards.
Required == << "winsock", "crypto", "socket", "session", "statusSocket", "statusClient", "dr", "post",
               "scene", "particles", "canvas", "audio" >>
Optional == {"statusSocket", "statusClient", "post", "audio"}
Subsystems == { Required[i] : i \in DOMAIN Required }
After(s) ==
    LET i == CHOOSE k \in DOMAIN Required : Required[k] = s
    IN  IF i = Len(Required) THEN "connect" ELSE Required[i + 1]
\* What holds a pointer to what.
Needs(s) ==
    CASE s \in {"socket", "statusSocket"} -> {"winsock"}
      [] s = "session" -> {"crypto", "socket"}
      [] s = "statusClient" -> {"statusSocket"}
      [] s \in {"post", "scene", "particles", "canvas"} -> {"dr"}
      [] OTHER -> {}

Init ==
    /\ at = "WinMain"
    /\ up = {} /\ window = "none"
    /\ m_running = TRUE /\ m_bloom = FALSE
    /\ m_connectedLogged = FALSE /\ m_serverUnreachableNotified = FALSE /\ m_dialogOpen = FALSE
    /\ late = FALSE /\ quitPosted = FALSE
    /\ sess = "none" /\ held = "no"
    /\ exitCode = 0 /\ rounds = 0

Go(place) == at' = place

-----------------------------------------------------------------------------
\* WSAStartup, then the window; without either nothing was started.
WinMain ==
    /\ at = "WinMain"
    /\ \/ Go("ended") /\ exitCode' = 1 /\ UNCHANGED << up, window >>
       \/ Go("crypto") /\ up' = {"winsock"} /\ window' = "open" /\ UNCHANGED exitCode
    /\ UNCHANGED << m_running, m_bloom, m_connectedLogged, m_serverUnreachableNotified, m_dialogOpen,
                    late, quitPosted, sess, held, rounds >>

\* The i-th subsystem comes up, is done without, or its failure is thrown to
\* WinMain's handler.
InitStep ==
    /\ at \in Subsystems
    /\ LET s == at
           next == After(s)
       IN  \/ /\ Needs(s) \subseteq up
              /\ up' = up \cup {s}
              /\ m_bloom' = IF s = "post" THEN TRUE ELSE m_bloom
              /\ sess' = IF s = "session" THEN "Disconnected" ELSE sess
              /\ Go(next) /\ UNCHANGED exitCode
           \/ /\ s \in Optional
              /\ Go(next) /\ UNCHANGED << up, m_bloom, sess, exitCode >>
           \/ /\ s \notin Optional \cup {"session"}
              /\ Go("teardown") /\ exitCode' = 1 /\ UNCHANGED << up, m_bloom, sess >>
    /\ UNCHANGED << window, m_running, m_connectedLogged, m_serverUnreachableNotified, m_dialogOpen,
                    late, quitPosted, held, rounds >>

\* The end of InitGraphicsAndConnect: Connect, and m_connectStart is now.
StartConnect ==
    /\ at = "connect"
    /\ sess' = "Handshaking" /\ late' = FALSE
    /\ Go("handshake")
    /\ UNCHANGED << up, window, m_running, m_bloom, m_connectedLogged, m_serverUnreachableNotified,
                    m_dialogOpen, quitPosted, held, exitCode, rounds >>

-----------------------------------------------------------------------------
\* SessionImpl::Disconnect: the server is told when there is a connection.
Disconnect ==
    /\ sess' = "Disconnected"
    /\ held' = IF sess = "Connected" THEN "no" ELSE held

\* HandleMessage, WM_CLOSE and the WM_DESTROY it leads to: reached from
\* PumpMessages and from the message loop of a MessageBox.
Close ==
    /\ window = "open"
    /\ at \in {"handshake", "loop", "dialog"}
    /\ IF sess # "none" THEN Disconnect ELSE UNCHANGED << sess, held >>
    /\ m_running' = FALSE
    /\ window' = "destroyed"
    /\ quitPosted' = TRUE
    /\ UNCHANGED << at, up, m_bloom, m_connectedLogged, m_serverUnreachableNotified, m_dialogOpen, late,
                    exitCode, rounds >>

\* PumpMessages returns false, or m_running is false: Run returns.
Stop ==
    /\ at \in {"handshake", "loop"}
    /\ ~m_running \/ quitPosted
    /\ m_running' = FALSE /\ quitPosted' = FALSE
    /\ Go("teardown")
    /\ UNCHANGED << up, window, m_bloom, m_connectedLogged, m_serverUnreachableNotified, m_dialogOpen, late,
                    sess, held, exitCode, rounds >>

\* SessionImpl::Tick, from outside.  An exception is swallowed.
SessionTick(after, heldAfter) ==
    \/ after = sess /\ heldAfter = held
    \/ sess = "Handshaking" /\ after = "Connected" /\ heldAfter = "live"
    \/ sess = "Handshaking" /\ after = "Disconnected" /\ ~m_connectedLogged /\ heldAfter = held
    \/ sess = "Connected" /\ after = "Reconnecting" /\ heldAfter = "stale"
    \/ sess = "Reconnecting" /\ after = "Handshaking" /\ heldAfter = held

\* One round of Run's first loop, which ends when connected or after 200.
HandshakePump ==
    /\ at = "handshake" /\ m_running
    /\ rounds < MAX_ROUNDS
    /\ rounds' = rounds + 1
    /\ SessionTick(sess', held')
    /\ \/ sess' = "Connected" /\ Go("loop")
       \/ sess' # "Connected" /\ (Go("handshake") \/ Go("loop"))
    /\ UNCHANGED << up, window, m_running, m_bloom, m_connectedLogged, m_serverUnreachableNotified,
                    m_dialogOpen, late, quitPosted, exitCode >>

\* The notice is due: never connected so far, not shown yet, and late.
TickNotice(connected) ==
    ~connected /\ ~m_connectedLogged /\ ~m_serverUnreachableNotified /\ ~m_dialogOpen /\ late

\* Tick: the session, the notice, then input and drawing (modules ClientUi and
\* Renderer).  The menu's Quit ends the loop.
Tick ==
    /\ at = "loop" /\ m_running /\ ~quitPosted
    /\ rounds < MAX_ROUNDS
    /\ rounds' = rounds + 1
    /\ SessionTick(sess', held')
    /\ m_connectedLogged' = (m_connectedLogged \/ sess' = "Connected")
    /\ IF TickNotice(sess' = "Connected")
       THEN /\ m_serverUnreachableNotified' = TRUE
            /\ m_dialogOpen' = TRUE
            /\ Go("dialog") /\ UNCHANGED m_running
       ELSE /\ m_running' \in {TRUE, FALSE}
            /\ UNCHANGED << at, m_serverUnreachableNotified, m_dialogOpen >>
    /\ UNCHANGED << up, window, m_bloom, late, quitPosted, exitCode >>

\* Time passes, also while the modal notice is up and nobody ticks the session.
TimePasses ==
    /\ at \in {"handshake", "loop", "dialog"} /\ ~late
    /\ late' = TRUE
    /\ UNCHANGED << at, up, window, m_running, m_bloom, m_connectedLogged, m_serverUnreachableNotified,
                    m_dialogOpen, quitPosted, sess, held, exitCode, rounds >>

\* The end of ShowServerUnreachable.  Cancel stops the loop; its WM_CLOSE stays
\* in the queue.  A notice whose window was destroyed returns as if by Retry.
DialogAnswered ==
    /\ at = "dialog"
    /\ m_dialogOpen' = FALSE
    /\ Go("loop")
    /\ \/ /\ window = "open"
          /\ m_running' = FALSE
          /\ UNCHANGED << m_serverUnreachableNotified, sess, late, held >>
       \/ /\ m_serverUnreachableNotified' = FALSE
          /\ IF sess # "Connected"
             THEN sess' = "Handshaking" /\ late' = FALSE
             ELSE UNCHANGED << sess, late >>
          /\ UNCHANGED << m_running, held >>
    /\ UNCHANGED << up, window, m_bloom, m_connectedLogged, quitPosted, exitCode, rounds >>

\* Mutant: the socket is closed before the session says goodbye.
SocketFirst == << "audio", "canvas", "particles", "post", "socket", "session", "statusClient", "statusSocket",
                  "scene", "dr", "crypto", "winsock" >>

\* Uninitialize and the members' destructors, then GlobalCleanup.  The renderers
\* and the device go with App.
TeardownOrder == << "audio", "canvas", "particles", "post", "session", "socket", "statusClient", "statusSocket",
                    "scene", "dr", "crypto", "winsock" >>

Teardown ==
    /\ at = "teardown"
    /\ IF up = {} THEN Go("ended") /\ UNCHANGED << up, sess, held >>
       ELSE LET i == CHOOSE k \in DOMAIN TeardownOrder :
                         TeardownOrder[k] \in up /\ \A j \in 1 .. k - 1 : TeardownOrder[j] \notin up
            IN  /\ up' = up \ {TeardownOrder[i]}
                /\ IF TeardownOrder[i] = "session" THEN Disconnect ELSE UNCHANGED << sess, held >>
                /\ UNCHANGED at
    /\ UNCHANGED << window, m_running, m_bloom, m_connectedLogged, m_serverUnreachableNotified, m_dialogOpen,
                    late, quitPosted, exitCode, rounds >>

Next ==
    \/ WinMain \/ InitStep \/ StartConnect
    \/ HandshakePump \/ Tick \/ TimePasses \/ DialogAnswered \/ Close \/ Stop \/ Teardown

\* The loop runs, and somebody answers a notice.
Fairness == WF_appVars(Stop) /\ WF_appVars(Teardown) /\ WF_appVars(DialogAnswered)

Spec == Init /\ [][Next]_appVars

-----------------------------------------------------------------------------
AppTypeOK ==
    /\ at \in {"WinMain", "connect", "handshake", "loop", "dialog", "teardown", "ended"} \cup Subsystems
    /\ up \subseteq Subsystems
    /\ sess \in {"none", "Disconnected", "Handshaking", "Connected", "Reconnecting"}

(* Nothing outlives what it points to: through an initialisation that      *)
(* fails half way and through the teardown, whatever is up has what it     *)
(* needs.                                                                  *)
DependenciesUp ==
    /\ \A s \in up : Needs(s) \subseteq up
    /\ at \in {"loop", "dialog"} => Subsystems \ Optional \subseteq up
    /\ (at \in {"loop", "dialog"} /\ m_bloom) => "post" \in up

(* However the client ends, by the window, the notice, the menu or a       *)
(* failure, a server it is connected to is told before the socket closes.  *)
GoodbyeIsSaid == "socket" \notin up => held # "live"

(* The notice is for a client no tick has seen connected: a connection     *)
(* lost later is left to the session, with no dialog in the player's way.  *)
NoticeOnlyAtFirst == at = "dialog" => ~m_connectedLogged /\ sess # "Connected"

(* Once the loop is told to stop the process ends, also when it is told so *)
(* from within the notice.                                                 *)
EndsOnceStopped == (~m_running) ~> (at = "ended")

(* A program told to stop ends, and however it got there what was up had   *)
(* what it needed and the server was told (WinMain, Teardown).             *)
AppEndsWell ==
    /\ [](AppTypeOK /\ DependenciesUp /\ GoodbyeIsSaid /\ NoticeOnlyAtFirst)
    /\ EndsOnceStopped
=============================================================================
