---------------------------- MODULE SessionProofs ----------------------------
(***************************************************************************)
(* SessionAgrees holds in every reachable state of a session, for any      *)
(* faults of the network and any bounds on them, on attempts and on the    *)
(* links.                                                                  *)
(***************************************************************************)
EXTENDS Session, SequenceTheorems, TLAPS

(* What the constants are: the bounds are numbers, and the choices are of  *)
(* the types the code has.                                                 *)
SessionAssumption ==
    /\ CAPACITY \in Nat /\ MAX_FAULTS \in Nat /\ MAX_ATTEMPTS \in Nat /\ MAX_FORGETS \in Nat
    /\ AuthModes \subseteq BOOLEAN /\ Compatibility \subseteq BOOLEAN
    /\ AccountStates \subseteq {"none", "mine", "other"}

Connection ==
    [ state : {"Idle", "Handshaking", "Authenticating", "Connected", "Disconnected"},
      eph : Nat, token : Nat, complete : BOOLEAN, channel : BOOLEAN,
      last : Datagram, opcode : {"Login", "Register"}, tried : BOOLEAN ]
Entry ==
    [ token : Nat, state : {"Idle", "Handshaking", "Authenticating", "Connected"},
      channel : BOOLEAN, eph : Nat ]

(* A datagram that claims the client's ephemeral carries that of c: what   *)
(* the first attempt's CookieResponses do.                                 *)
Claims(d, c) == d.type = "CookieResponse" => c.eph # 0 /\ d.eph = c.eph

(* What the connection object c of the client guarantees, whatever is in   *)
(* flight: as SessionInv says, and while it is the first attempt, all the  *)
(* server has or will hear of its ephemeral is c's.                        *)
GoodConn(c) ==
    /\ c \in Connection
    /\ c.token <= m_tokenCounter
    /\ c.token # 0 => c.eph # 0
    /\ c.channel => c.token # 0 /\ c.complete
    /\ c.state \in {"Authenticating", "Connected"} => c.channel
    /\ (c.state = "Connected" /\ server.token = c.token)
          => server.state = "Connected" /\ server.channel /\ server.eph = c.eph
    /\ attempts <= 1 =>
          /\ server.token # 0 => c.eph # 0 /\ server.eph = c.eph
          /\ Claims(c.last, c)
          /\ \A i \in DOMAIN toServer : Claims(toServer[i], c)

GoodServer ==
    /\ server \in Entry
    /\ server.token <= m_tokenCounter
    /\ server.channel <=> server.state \in {"Authenticating", "Connected"}
    /\ server = NoEntry <=> server.token = 0

(* A datagram on its way to the client is of a connection the server has   *)
(* or had, and says "logged in" only of one that is.                       *)
Answered(d) ==
    /\ d \in Datagram
    /\ d.token <= m_tokenCounter
    /\ d.type \in Results \cup {"HandshakeResponse"} => d.token # 0
    /\ (d.type \in {"Ok", "LoginResponse"} /\ server.token = d.token)
          => server.state = "Connected" /\ server.eph = d.eph

Scalars ==
    /\ m_state \in {"Disconnected", "Handshaking", "Connected", "Reconnecting"}
    /\ m_everConnected \in BOOLEAN /\ m_realAuth \in BOOLEAN /\ compatible \in BOOLEAN
    /\ attempts \in 0 .. MAX_ATTEMPTS /\ ephemerals \in Nat
    /\ m_tokenCounter \in Nat /\ account \in {"none", "mine", "other"}
    /\ forgets \in 0 .. MAX_FORGETS /\ faults \in 0 .. MAX_FAULTS /\ overtaken \in BOOLEAN

Links ==
    /\ toServer \in Seq(Datagram) /\ Len(toServer) <= CAPACITY
    /\ toClient \in Seq(Datagram) /\ Len(toClient) <= CAPACITY
    /\ \A i \in DOMAIN toClient : Answered(toClient[i])

(* The inductive invariant. *)
SessionIInv ==
    /\ Scalars /\ Links /\ GoodServer
    /\ conn = NoConn \/ GoodConn(conn)
    /\ attempts = 0 => conn = NoConn /\ toServer = << >> /\ server = NoEntry

-----------------------------------------------------------------------------
(* The links. *)
LEMMA DeliversKeeps ==
    ASSUME NEW link \in Seq(Datagram), NEW i \in DOMAIN link, NEW rest, Delivers(link, i, rest)
    PROVE  /\ rest \in Seq(Datagram) /\ Len(rest) <= Len(link)
           /\ \A j \in DOMAIN rest : \E k \in DOMAIN link : rest[j] = link[k]
<1>0. PICK n \in Nat : n = Len(link) /\ DOMAIN link = 1 .. n /\ i \in 1 .. n
  OBVIOUS
<1>1. CASE rest = Tail(link)
  <2>1. rest \in Seq(Datagram) /\ Len(rest) = n - 1 /\ DOMAIN rest = 1 .. (n - 1)
    BY <1>0, <1>1
  <2>2. \A j \in 1 .. (n - 1) : rest[j] = link[j + 1] /\ j + 1 \in 1 .. n
    BY <1>0, <1>1
  <2>3. \A j \in DOMAIN rest : \E k \in DOMAIN link : rest[j] = link[k]
    BY <1>0, <2>1, <2>2
  <2> QED
    BY <1>0, <2>1, <2>3
<1>2. CASE rest = RemoveAt(link, i)
  <2>1. PICK a, b : a = SubSeq(link, 1, i - 1) /\ b = SubSeq(link, i + 1, n)
    OBVIOUS
  <2>2. a \in Seq(Datagram) /\ Len(a) = i - 1 /\ \A j \in 1 .. (i - 1) : a[j] = link[j] /\ j \in 1 .. n
    BY <1>0, <2>1
  <2>3. b \in Seq(Datagram) /\ Len(b) = n - i /\ \A j \in 1 .. (n - i) : b[j] = link[i + j] /\ i + j \in 1 .. n
    BY <1>0, <2>1
  <2>4. rest = a \o b
    BY <1>0, <1>2, <2>1 DEF RemoveAt
  <2>5. rest \in Seq(Datagram) /\ Len(rest) = n - 1 /\ DOMAIN rest = 1 .. (n - 1)
    BY <1>0, <2>2, <2>3, <2>4
  <2>6. \A j \in 1 .. (n - 1) : j <= i - 1 => rest[j] = a[j]
    BY <1>0, <2>2, <2>3, <2>4
  <2>7. \A j \in 1 .. (n - 1) : j > i - 1 => rest[j] = b[j - (i - 1)]
    BY <1>0, <2>2, <2>3, <2>4
  <2>8. ASSUME NEW j \in 1 .. (n - 1) PROVE \E k \in 1 .. n : rest[j] = link[k]
    <3>1. CASE j <= i - 1
      BY <1>0, <2>2, <2>6, <3>1
    <3>2. CASE j > i - 1
      <4>1. j - (i - 1) \in 1 .. (n - i)
        BY <1>0, <3>2
      <4> QED
        BY <2>3, <2>7, <3>2, <4>1
    <3> QED
      BY <1>0, <3>1, <3>2
  <2>9. \A j \in DOMAIN rest : \E k \in DOMAIN link : rest[j] = link[k]
    BY <1>0, <2>5, <2>8
  <2> QED
    BY <1>0, <2>5, <2>9
<1>3. CASE rest = link
  BY <1>0, <1>3
<1> QED
  BY <1>1, <1>2, <1>3 DEF Delivers

LEMMA SentKeeps ==
    ASSUME NEW link \in Seq(Datagram), NEW ds \in Seq(Datagram), CAPACITY \in Nat, Len(link) <= CAPACITY
    PROVE  /\ Sent(link, ds) \in Seq(Datagram) /\ Len(Sent(link, ds)) <= CAPACITY
           /\ \A j \in DOMAIN Sent(link, ds) :
                 \/ \E k \in DOMAIN link : Sent(link, ds)[j] = link[k]
                 \/ \E k \in DOMAIN ds : Sent(link, ds)[j] = ds[k]
<1>1. PICK n \in Nat, m \in Nat :
         /\ n = Len(link) /\ DOMAIN link = 1 .. n
         /\ m = Len(ds) /\ DOMAIN ds = 1 .. m
  OBVIOUS
<1>2. PICK s : s = Sent(link, ds)
  OBVIOUS
<1>3. CASE n + m <= CAPACITY
  <2>1. s = link \o ds
    BY <1>1, <1>2, <1>3 DEF Sent
  <2>2. s \in Seq(Datagram) /\ Len(s) = n + m /\ DOMAIN s = 1 .. (n + m)
    BY <1>1, <2>1
  <2>3. \A j \in 1 .. n : s[j] = link[j]
    BY <1>1, <2>1
  <2>4. \A j \in 1 .. (n + m) : j > n => s[j] = ds[j - n] /\ j - n \in 1 .. m
    BY <1>1, <2>1
  <2>5. \A j \in 1 .. (n + m) : (\E k \in 1 .. n : s[j] = link[k]) \/ (\E k \in 1 .. m : s[j] = ds[k])
    BY <2>3, <2>4
  <2> QED
    BY <1>1, <1>2, <1>3, <2>2, <2>5
<1>4. CASE ~(n + m <= CAPACITY)
  <2>1. s = link
    BY <1>1, <1>2, <1>4 DEF Sent
  <2> QED
    BY <1>1, <1>2, <2>1
<1> QED
  BY <1>3, <1>4

-----------------------------------------------------------------------------
(* What one datagram makes of the connection object: it stays good, and    *)
(* what it sends claims nothing else.                                      *)
GoodOutcome(o) ==
    /\ GoodConn(o.conn) /\ o.ephemerals \in Nat
    /\ o.frames \in Seq(Datagram)
    /\ \A k \in DOMAIN o.frames : attempts <= 1 => Claims(o.frames[k], o.conn)

LEMMA Typed ==
    ASSUME NEW c \in Connection
    PROVE  /\ Clear("ClockSyncRequest") \in Datagram /\ Clear("ClientHello") \in Datagram
           /\ LoginFrame(c) \in Datagram /\ LoginFrame(c).type # "CookieResponse"
BY DEF Connection, Datagram, Clear, LoginFrame, ClearTypes, Requests, Results

LEMMA GoodIgnored ==
    ASSUME GoodConn(conn), ephemerals \in Nat
    PROVE  GoodOutcome(Ignored)
<1>1. Ignored.frames = << >> /\ Ignored.conn = conn /\ Ignored.ephemerals = ephemerals
  BY DEF Ignored, Outcome
<1> QED
  BY <1>1 DEF GoodOutcome

LEMMA GoodFailed ==
    ASSUME GoodConn(conn), ephemerals \in Nat
    PROVE  GoodOutcome(Failed)
<1>1. PICK c : c = [conn EXCEPT !.state = "Disconnected"]
  OBVIOUS
<1>2. GoodConn(c)
  BY <1>1 DEF GoodConn, Connection, Claims
<1>3. Failed.frames = << >> /\ Failed.conn = c /\ Failed.ephemerals = ephemerals
  BY <1>1 DEF Failed, Outcome
<1> QED
  BY <1>2, <1>3 DEF GoodOutcome

(* The ephemeral is drawn once: before it was, nothing in flight claims    *)
(* one, and nothing later changes it.                                      *)
LEMMA GoodCookie ==
    ASSUME GoodConn(conn), ephemerals \in Nat, NEW d
    PROVE  GoodOutcome(OnCookie(d))
<1>1. PICK e \in Nat, n \in Nat : e # 0 /\ e = (IF conn.eph # 0 THEN conn.eph ELSE ephemerals + 1)
                                 /\ n = (IF conn.eph # 0 THEN ephemerals ELSE ephemerals + 1)
  <2>1. conn.eph \in Nat
    BY DEF GoodConn, Connection
  <2>2. CASE conn.eph # 0
    BY <2>1, <2>2
  <2>3. CASE conn.eph = 0
    BY <2>3
  <2> QED
    BY <2>2, <2>3
<1>2. PICK f : f = [type |-> "CookieResponse", token |-> 0, eph |-> e]
  OBVIOUS
<1>3. f \in Datagram /\ f.type = "CookieResponse" /\ f.eph = e
  BY <1>2 DEF Datagram, ClearTypes
<1>4. PICK c : c = [conn EXCEPT !.eph = e, !.last = f]
  OBVIOUS
<1>5. /\ c \in Connection /\ c.eph = e /\ c.last = f /\ c.token = conn.token
      /\ c.state = conn.state /\ c.channel = conn.channel /\ c.complete = conn.complete
  BY <1>1, <1>3, <1>4 DEF GoodConn, Connection
<1>6. conn.eph # 0 => c.eph = conn.eph
  BY <1>1, <1>5
<1>7. c.state = "Connected" => conn.eph # 0
  BY <1>5 DEF GoodConn
<1>8. conn.eph = 0 /\ attempts <= 1 => server.token = 0 /\ \A i \in DOMAIN toServer : toServer[i].type # "CookieResponse"
  BY DEF GoodConn, Claims
<1>9. GoodConn(c)
  <2>1. /\ c.token <= m_tokenCounter /\ (c.token # 0 => c.eph # 0)
        /\ c.channel => c.token # 0 /\ c.complete
        /\ c.state \in {"Authenticating", "Connected"} => c.channel
    BY <1>1, <1>5 DEF GoodConn
  <2>2. (c.state = "Connected" /\ server.token = c.token)
          => server.state = "Connected" /\ server.channel /\ server.eph = c.eph
    BY <1>5, <1>6, <1>7 DEF GoodConn
  <2>3. ASSUME attempts <= 1
        PROVE  /\ server.token # 0 => c.eph # 0 /\ server.eph = c.eph
               /\ Claims(c.last, c)
               /\ \A i \in DOMAIN toServer : Claims(toServer[i], c)
    <3>1. CASE conn.eph = 0
      BY <1>1, <1>3, <1>5, <1>8, <2>3, <3>1 DEF Claims
    <3>2. CASE conn.eph # 0
      BY <1>1, <1>3, <1>5, <1>6, <2>3, <3>2 DEF GoodConn, Claims
    <3> QED
      BY <3>1, <3>2
  <2> QED
    BY <1>5, <2>1, <2>2, <2>3 DEF GoodConn
<1>10. OnCookie(d).conn = c /\ OnCookie(d).ephemerals = n /\ OnCookie(d).frames = << f >>
  <2>1. CASE conn.eph # 0
    <3>1. e = conn.eph /\ n = ephemerals
      BY <1>1, <2>1
    <3>2. c = [conn EXCEPT !.last = f]
      BY <1>4, <3>1 DEF GoodConn, Connection
    <3> QED
      BY <1>2, <2>1, <3>1, <3>2 DEF OnCookie, Answer, Outcome
  <2>2. CASE conn.eph = 0
    <3>1. e = ephemerals + 1 /\ n = ephemerals + 1
      BY <1>1, <2>2
    <3>2. c = [[conn EXCEPT !.eph = ephemerals + 1] EXCEPT !.last = f]
      BY <1>4, <3>1
    <3> QED
      BY <1>2, <2>2, <3>1, <3>2 DEF OnCookie, Answer, Outcome
  <2> QED
    BY <2>1, <2>2
<1>11. \A k \in DOMAIN << f >> : Claims(<< f >>[k], c)
  BY <1>1, <1>3, <1>5 DEF Claims
<1> QED
  BY <1>3, <1>9, <1>10, <1>11 DEF GoodOutcome

(* Keys are derived once, from an ephemeral there is. *)
LEMMA GoodResponse ==
    ASSUME GoodConn(conn), ephemerals \in Nat, NEW d \in Datagram, Answered(d), d.type = "HandshakeResponse"
    PROVE  GoodOutcome(OnHandshakeResponse(d))
<1>1. PICK f : f = Clear("ClockSyncRequest")
  OBVIOUS
<1>2. f \in Datagram /\ f.type # "CookieResponse" /\ conn \in Connection
  BY <1>1 DEF Datagram, Clear, ClearTypes, GoodConn
<1>3. CASE HaveKeys(conn)
  <2>1. PICK c : c = [conn EXCEPT !.last = f]
    OBVIOUS
  <2>2. GoodConn(c)
    BY <1>2, <2>1 DEF GoodConn, Connection, Claims
  <2>3. /\ OnHandshakeResponse(d).conn = c /\ OnHandshakeResponse(d).ephemerals = ephemerals
        /\ OnHandshakeResponse(d).frames = << f >>
    BY <1>1, <1>3, <2>1 DEF OnHandshakeResponse, Answer, Outcome
  <2>4. \A k \in DOMAIN << f >> : Claims(<< f >>[k], c)
    BY <1>2 DEF Claims
  <2> QED
    BY <1>2, <2>2, <2>3, <2>4 DEF GoodOutcome
<1>4. CASE ~HaveKeys(conn) /\ conn.eph = 0
  <2>1. OnHandshakeResponse(d) = Failed
    BY <1>4 DEF OnHandshakeResponse
  <2> QED
    BY <2>1, GoodFailed
<1>5. CASE ~HaveKeys(conn) /\ conn.eph # 0
  <2>1. PICK t \in Nat : t = d.token /\ t # 0 /\ t <= m_tokenCounter
    BY DEF Answered, Datagram
  <2>2. PICK c : c = [conn EXCEPT !.token = t, !.last = f]
    OBVIOUS
  <2>3. /\ c \in Connection /\ c.eph = conn.eph /\ c.last = f /\ c.token = t
        /\ c.state = conn.state /\ c.channel = conn.channel /\ c.complete = conn.complete
    BY <1>2, <2>1, <2>2 DEF Connection
  <2>4. ~conn.channel /\ conn.state \notin {"Authenticating", "Connected"}
    BY <1>5 DEF GoodConn, HaveKeys
  <2>5. GoodConn(c)
    BY <1>2, <1>5, <2>1, <2>3, <2>4 DEF GoodConn, Claims
  <2>6. /\ OnHandshakeResponse(d).conn = c /\ OnHandshakeResponse(d).ephemerals = ephemerals
        /\ OnHandshakeResponse(d).frames = << f >>
    BY <1>1, <1>5, <2>1, <2>2 DEF OnHandshakeResponse, Answer, Outcome
  <2>7. \A k \in DOMAIN << f >> : Claims(<< f >>[k], c)
    BY <1>2 DEF Claims
  <2> QED
    BY <1>2, <2>5, <2>6, <2>7 DEF GoodOutcome
<1> QED
  BY <1>3, <1>4, <1>5

LEMMA GoodSync ==
    ASSUME GoodConn(conn), ephemerals \in Nat, NEW d
    PROVE  GoodOutcome(OnClockSyncResponse(d))
<1>1. PICK c : c = [conn EXCEPT !.complete = TRUE]
  OBVIOUS
<1>2. GoodConn(c)
  BY <1>1 DEF GoodConn, Connection, Claims
<1>3. /\ OnClockSyncResponse(d).frames = << >> /\ OnClockSyncResponse(d).conn = c
      /\ OnClockSyncResponse(d).ephemerals = ephemerals
  BY <1>1 DEF OnClockSyncResponse, Outcome
<1> QED
  BY <1>2, <1>3 DEF GoodOutcome

LEMMA GoodWithChannel ==
    ASSUME NEW o, GoodOutcome(o), m_realAuth \in BOOLEAN
    PROVE  GoodOutcome(WithChannel(o))
<1>1. CASE o.conn.complete /\ HaveKeys(o.conn) /\ ~o.conn.channel
  <2>1. PICK b \in Connection : b = o.conn /\ GoodConn(b) /\ b.complete /\ b.token # 0
    BY <1>1 DEF GoodOutcome, GoodConn, HaveKeys
  <2>2. PICK c : c = [b EXCEPT !.channel = TRUE, !.state = "Authenticating"]
    OBVIOUS
  <2>3. /\ c \in Connection /\ c.eph = b.eph /\ c.last = b.last /\ c.token = b.token
        /\ c.state = "Authenticating" /\ c.channel /\ c.complete
    BY <2>1, <2>2 DEF Connection
  <2>4. GoodConn(c)
    BY <2>1, <2>3 DEF GoodConn, Claims
  <2>5. PICK f : f = LoginFrame(c) /\ f \in Datagram /\ f.type # "CookieResponse"
    BY <2>3, Typed
  <2>6. PICK fs \in Seq(Datagram) : fs = o.frames
    BY DEF GoodOutcome
  <2>7. /\ WithChannel(o).conn = c /\ WithChannel(o).ephemerals = o.ephemerals
        /\ WithChannel(o).frames = Append(fs, f)
    BY <1>1, <2>1, <2>2, <2>5, <2>6 DEF WithChannel, Outcome
  <2>8. Append(fs, f) \in Seq(Datagram)
    BY <2>5, <2>6
  <2>9. ASSUME NEW k \in DOMAIN Append(fs, f), attempts <= 1
        PROVE  Claims(Append(fs, f)[k], c)
    <3>1. k \in 1 .. (Len(fs) + 1) /\ DOMAIN fs = 1 .. Len(fs)
      BY <2>5, <2>6
    <3>2. CASE k = Len(fs) + 1
      <4>1. Append(fs, f)[k] = f
        BY <2>5, <2>6, <3>2
      <4> QED
        BY <2>5, <4>1 DEF Claims
    <3>3. CASE k # Len(fs) + 1
      <4>1. k \in DOMAIN fs /\ Append(fs, f)[k] = fs[k]
        BY <2>5, <2>6, <3>1, <3>3
      <4> QED
        BY <2>1, <2>3, <2>6, <2>9, <4>1 DEF GoodOutcome, Claims
    <3> QED
      BY <3>2, <3>3
  <2> QED
    BY <2>4, <2>7, <2>8, <2>9 DEF GoodOutcome
<1>2. CASE ~(o.conn.complete /\ HaveKeys(o.conn) /\ ~o.conn.channel)
  BY <1>2 DEF WithChannel
<1> QED
  BY <1>1, <1>2

(* A result heeded is of the client's own connection, so it says what the  *)
(* server's entry of that token is.                                        *)
LEMMA GoodResult ==
    ASSUME GoodConn(conn), GoodServer, ephemerals \in Nat, NEW d \in Datagram, Answered(d),
           d.type \notin ClearTypes, Opens(conn, d)
    PROVE  GoodOutcome(OnResult(d))
<1>1. conn \in Connection /\ conn.channel /\ d.token = conn.token /\ d.eph = conn.eph
  BY DEF GoodConn, Opens
<1>2. CASE d.type \in {"LoginResponse", "Ok"}
  <2>1. PICK c : c = [conn EXCEPT !.state = "Connected"]
    OBVIOUS
  <2>2. /\ c \in Connection /\ c.eph = conn.eph /\ c.last = conn.last /\ c.token = conn.token
        /\ c.state = "Connected" /\ c.channel = conn.channel /\ c.complete = conn.complete
    BY <1>1, <2>1 DEF Connection
  <2>3. server.token = c.token => server.state = "Connected" /\ server.channel /\ server.eph = c.eph
    BY <1>1, <1>2, <2>2 DEF Answered, GoodServer
  <2>4. GoodConn(c)
    BY <1>1, <2>2, <2>3 DEF GoodConn, Claims
  <2>5. PICK o : o = Outcome(c, ephemerals, << >>)
    OBVIOUS
  <2>6. GoodOutcome(o)
    BY <2>4, <2>5 DEF GoodOutcome, Outcome
  <2>7. OnResult(d) \in {o, Ignored}
    BY <1>2, <2>1, <2>5 DEF OnResult
  <2> QED
    BY <2>6, <2>7, GoodIgnored
<1>3. CASE d.type \notin {"LoginResponse", "Ok"}
  <2>1. PICK c : c = [conn EXCEPT !.tried = TRUE, !.opcode = "Register"]
    OBVIOUS
  <2>2. GoodConn(c) /\ c \in Connection /\ c.token = conn.token /\ c.eph = conn.eph
    BY <1>1, <2>1 DEF GoodConn, Connection, Claims
  <2>3. PICK f : f = [type |-> "Register", token |-> c.token, eph |-> c.eph]
    OBVIOUS
  <2>4. f \in Datagram /\ f.type # "CookieResponse"
    BY <2>2, <2>3 DEF Datagram, Requests, Connection
  <2>5. PICK o : o = Outcome(c, ephemerals, << f >>)
    OBVIOUS
  <2>6. \A k \in DOMAIN << f >> : Claims(<< f >>[k], c)
    BY <2>4 DEF Claims
  <2>7. GoodOutcome(o)
    BY <2>2, <2>4, <2>5, <2>6 DEF GoodOutcome, Outcome
  <2>8. OnResult(d) \in {o, Ignored, Failed}
    BY <1>3, <2>1, <2>3, <2>5 DEF OnResult
  <2> QED
    BY <2>7, <2>8, GoodIgnored, GoodFailed
<1> QED
  BY <1>2, <1>3

LEMMA GoodDatagram ==
    ASSUME GoodConn(conn), GoodServer, ephemerals \in Nat, m_realAuth \in BOOLEAN,
           NEW d \in Datagram, Answered(d)
    PROVE  GoodOutcome(OnDatagramOutcome(d))
<1>1. CASE d.type \in ClearTypes
  <2>1. GoodOutcome(OnClear(d))
    <3>1. CASE d.type = "VersionReject"
      BY <3>1, GoodFailed DEF OnClear
    <3>2. CASE d.type = "Cookie"
      <4>1. GoodOutcome(WithChannel(OnCookie(d)))
        BY GoodCookie, GoodWithChannel
      <4> QED
        BY <3>2, <4>1 DEF OnClear
    <3>3. CASE d.type = "HandshakeResponse"
      <4>1. GoodOutcome(WithChannel(OnHandshakeResponse(d)))
        BY <3>3, GoodResponse, GoodWithChannel
      <4> QED
        BY <3>3, <4>1, GoodFailed DEF OnClear
    <3>4. CASE d.type = "ClockSyncResponse"
      <4>1. GoodOutcome(WithChannel(OnClockSyncResponse(d)))
        BY GoodSync, GoodWithChannel
      <4> QED
        BY <3>4, <4>1 DEF OnClear
    <3>5. CASE d.type \notin {"VersionReject", "Cookie", "HandshakeResponse", "ClockSyncResponse"}
      BY <3>5, GoodIgnored DEF OnClear
    <3> QED
      BY <3>1, <3>2, <3>3, <3>4, <3>5
  <2> QED
    BY <1>1, <2>1 DEF OnDatagramOutcome
<1>2. CASE d.type \notin ClearTypes /\ Opens(conn, d)
  BY <1>2, GoodResult DEF OnDatagramOutcome
<1>3. CASE d.type \notin ClearTypes /\ ~Opens(conn, d)
  BY <1>3, GoodIgnored DEF OnDatagramOutcome
<1> QED
  BY <1>1, <1>2, <1>3

-----------------------------------------------------------------------------
(* Steps of the client: the server keeps its entry, and what is in flight  *)
(* to the client is some of what was.                                      *)
FewerToClient ==
    /\ toClient' \in Seq(Datagram) /\ Len(toClient') <= CAPACITY
    /\ \A j \in DOMAIN toClient' : \E k \in DOMAIN toClient : toClient'[j] = toClient[k]

FewerToServer ==
    /\ toServer' \in Seq(Datagram) /\ Len(toServer') <= CAPACITY
    /\ \A j \in DOMAIN toServer' : \E k \in DOMAIN toServer : toServer'[j] = toServer[k]

LEMMA ClientKeepsInv ==
    ASSUME SessionIInv, UNCHANGED << server, m_tokenCounter >>, Scalars', FewerToClient,
           toServer' \in Seq(Datagram), Len(toServer') <= CAPACITY,
           conn' = NoConn \/ GoodConn(conn)',
           attempts' = 0 => conn' = NoConn /\ toServer' = << >> /\ server' = NoEntry
    PROVE  SessionIInv'
<1>1. GoodServer'
  BY DEF SessionIInv, GoodServer
<1>2. (\A i \in DOMAIN toClient : Answered(toClient[i]))'
  <2> SUFFICES ASSUME NEW i \in DOMAIN toClient' PROVE (Answered(toClient[i]))'
    OBVIOUS
  <2>1. PICK k \in DOMAIN toClient : toClient'[i] = toClient[k]
    BY DEF FewerToClient
  <2>2. Answered(toClient[k])
    BY DEF SessionIInv, Links
  <2> QED
    BY <2>1, <2>2 DEF Answered
<1>3. Links'
  BY <1>2 DEF FewerToClient, Links
<1> QED
  BY <1>1, <1>3 DEF SessionIInv

LEMMA GoodConnKept ==
    ASSUME NEW c, GoodConn(c), conn' = c, UNCHANGED << server, m_tokenCounter, attempts >>,
           \A j \in DOMAIN toServer' :
              \/ \E k \in DOMAIN toServer : toServer'[j] = toServer[k]
              \/ attempts <= 1 => Claims(toServer'[j], c)
    PROVE  GoodConn(conn)'
<1>1. attempts <= 1 => \A j \in DOMAIN toServer' : Claims(toServer'[j], c)
  BY DEF GoodConn
<1> QED
  BY <1>1 DEF GoodConn, Claims

(* Sending frames of the connection object claims nothing else. *)
LEMMA GoodConnSends ==
    ASSUME NEW c, GoodConn(c), conn' = c, UNCHANGED << server, m_tokenCounter, attempts >>,
           toServer \in Seq(Datagram), Len(toServer) <= CAPACITY, CAPACITY \in Nat,
           NEW fs \in Seq(Datagram), \A k \in DOMAIN fs : attempts <= 1 => Claims(fs[k], c),
           toServer' = Sent(toServer, fs)
    PROVE  GoodConn(conn)' /\ toServer' \in Seq(Datagram) /\ Len(toServer') <= CAPACITY
<1>1. PICK link \in Seq(Datagram) : link = toServer
  OBVIOUS
<1>2. /\ Sent(link, fs) \in Seq(Datagram) /\ Len(Sent(link, fs)) <= CAPACITY
      /\ \A j \in DOMAIN Sent(link, fs) :
            \/ \E k \in DOMAIN link : Sent(link, fs)[j] = link[k]
            \/ \E k \in DOMAIN fs : Sent(link, fs)[j] = fs[k]
  BY <1>1, SentKeeps
<1>3. \A j \in DOMAIN toServer' :
         \/ \E k \in DOMAIN toServer : toServer'[j] = toServer[k]
         \/ attempts <= 1 => Claims(toServer'[j], c)
  BY <1>1, <1>2
<1>4. GoodConn(conn)'
  BY <1>3, GoodConnKept
<1> QED
  BY <1>1, <1>2, <1>4

LEMMA DeliversToClient ==
    ASSUME SessionIInv, CAPACITY \in Nat, NEW i \in DOMAIN toClient, Delivers(toClient, i, toClient')
    PROVE  FewerToClient
<1>1. PICK link \in Seq(Datagram) : link = toClient /\ Len(link) <= CAPACITY
  BY DEF SessionIInv, Links
<1>2. PICK rest : rest = toClient'
  OBVIOUS
<1>3. Delivers(link, i, rest)
  BY <1>1, <1>2
<1>4. /\ rest \in Seq(Datagram) /\ Len(rest) <= Len(link)
      /\ \A j \in DOMAIN rest : \E k \in DOMAIN link : rest[j] = link[k]
  BY <1>1, <1>3, DeliversKeeps
<1> QED
  BY <1>1, <1>2, <1>4 DEF FewerToClient

LEMMA ConnectKeepsInv ==
    ASSUME SessionIInv, SessionAssumption, DoConnect
    PROVE  SessionIInv'
<1>0. Scalars /\ Links
  BY DEF SessionIInv
<1>1. PICK n \in Nat : n = attempts /\ attempts' = n + 1 /\ n < MAX_ATTEMPTS
  BY <1>0 DEF Scalars, DoConnect
<1>2. Scalars' /\ attempts' # 0
  BY <1>0, <1>1, SessionAssumption DEF Scalars, DoConnect, serverVars, SessionAssumption
<1>3. PICK hello : hello = Clear("ClientHello") /\ hello.type = "ClientHello" /\ << hello >> \in Seq(Datagram)
  <2>1. PICK hello : hello = Clear("ClientHello")
    OBVIOUS
  <2>2. hello.type = "ClientHello" /\ hello \in Datagram
    BY <2>1 DEF Datagram, Clear, ClearTypes
  <2> QED
    BY <2>1, <2>2
<1>4. PICK c : c = [NoConn EXCEPT !.state = "Handshaking"]
  OBVIOUS
<1>5. /\ c \in Connection /\ c.state = "Handshaking" /\ c.eph = 0 /\ c.token = 0
      /\ ~c.channel /\ c.last.type = "ClientHello"
  <2>1. NoConn \in Connection /\ NoConn.last.type = "ClientHello"
    BY Typed DEF NoConn, Connection, Clear, Datagram, ClearTypes
  <2>2. NoConn.eph = 0 /\ NoConn.token = 0 /\ ~NoConn.channel
    BY DEF NoConn
  <2> QED
    BY <1>4, <2>1, <2>2 DEF Connection
<1>6. conn' = c /\ UNCHANGED << server, m_tokenCounter, toClient >>
  BY <1>4 DEF DoConnect, serverVars
<1>7. PICK link \in Seq(Datagram) : link = toServer /\ Len(link) <= CAPACITY
  BY <1>0 DEF Links
<1>8. /\ Sent(link, << hello >>) \in Seq(Datagram) /\ Len(Sent(link, << hello >>)) <= CAPACITY
      /\ \A j \in DOMAIN Sent(link, << hello >>) :
            \/ \E k \in DOMAIN link : Sent(link, << hello >>)[j] = link[k]
            \/ \E k \in DOMAIN << hello >> : Sent(link, << hello >>)[j] = << hello >>[k]
  <2>1. CAPACITY \in Nat
    BY DEF SessionAssumption
  <2> QED
    BY <1>3, <1>7, <2>1, SentKeeps
<1>9. toServer' = Sent(link, << hello >>)
  BY <1>3, <1>7 DEF DoConnect
<1>10. GoodConn(conn)'
  <2>1. attempts' <= 1 => attempts = 0
    BY <1>1
  <2>2. attempts' <= 1 => server.token = 0 /\ link = << >>
    BY <1>7, <2>1 DEF SessionIInv, NoEntry
  <2>3. attempts' <= 1 => \A j \in DOMAIN toServer' : Claims(toServer'[j], c)
    BY <1>3, <1>8, <1>9, <2>2 DEF Claims
  <2> QED
    BY <1>0, <1>5, <1>6, <2>2, <2>3 DEF GoodConn, Claims, Scalars
<1>11. FewerToClient
  BY <1>0, <1>6 DEF FewerToClient, Links
<1> QED
  BY <1>2, <1>6, <1>8, <1>9, <1>10, <1>11, ClientKeepsInv

LEMMA LeaveKeepsInv ==
    ASSUME SessionIInv, SessionAssumption, UserDisconnect \/ BeginReconnect
    PROVE  SessionIInv'
<1>0. Scalars /\ Links /\ attempts # 0
  BY DEF SessionIInv, UserDisconnect, BeginReconnect
<1>1. Scalars' /\ attempts' # 0 /\ conn' = NoConn /\ UNCHANGED << server, m_tokenCounter, toClient >>
  BY <1>0 DEF Scalars, UserDisconnect, BeginReconnect, serverVars, netVars
<1>2. FewerToClient
  BY <1>0, <1>1 DEF FewerToClient, Links
<1>3. PICK f : f = [type |-> "Disconnect", token |-> conn.token, eph |-> conn.eph]
  OBVIOUS
<1>4. UserDisconnect => f \in Datagram
  BY <1>3 DEF SessionIInv, UserDisconnect, GoodConn, Connection, Datagram, Requests
<1>5. toServer' \in Seq(Datagram) /\ Len(toServer') <= CAPACITY
  <2>1. PICK link \in Seq(Datagram) : link = toServer /\ Len(link) <= CAPACITY
    BY <1>0 DEF Links
  <2>2. CASE toServer' = toServer
    BY <2>1, <2>2
  <2>3. CASE UserDisconnect /\ toServer' # toServer
    <3>1. toServer' = Sent(link, << f >>)
      BY <1>3, <2>1, <2>3 DEF UserDisconnect
    <3>2. << f >> \in Seq(Datagram)
      BY <1>4, <2>3
    <3> QED
      BY <2>1, <3>1, <3>2, SentKeeps DEF SessionAssumption
  <2> QED
    BY <2>2, <2>3 DEF BeginReconnect, netVars
<1> QED
  BY <1>1, <1>2, <1>5, ClientKeepsInv

LEMMA ResendKeepsInv ==
    ASSUME SessionIInv, SessionAssumption, ResendPending
    PROVE  SessionIInv'
<1>0. Scalars /\ Links /\ attempts # 0 /\ GoodConn(conn)
  BY DEF SessionIInv, ResendPending
<1>1. /\ Scalars' /\ attempts' # 0
      /\ UNCHANGED << conn, attempts, server, m_tokenCounter, toClient >>
      /\ toServer' = Sent(toServer, PendingFrames(conn))
  BY <1>0 DEF Scalars, ResendPending, clientVars, serverVars
<1>2. FewerToClient
  BY <1>0, <1>1 DEF FewerToClient, Links
<1>3. PICK c \in Connection : c = conn
  BY <1>0 DEF GoodConn
<1>4. PICK f \in Datagram : (attempts <= 1 => Claims(f, c)) /\ PendingFrames(c) = << f >>
  <2>1. CASE c.state = "Handshaking"
    BY <1>0, <1>3, <2>1 DEF PendingFrames, GoodConn, Connection
  <2>2. CASE c.state # "Handshaking"
    <3>1. PendingFrames(c) = << LoginFrame(c) >>
      BY <1>3, <2>2 DEF PendingFrames, ResendPending
    <3> QED
      BY <3>1, Typed DEF Claims
  <2> QED
    BY <2>1, <2>2
<1>5. << f >> \in Seq(Datagram) /\ \A k \in DOMAIN << f >> : attempts <= 1 => Claims(<< f >>[k], c)
  BY <1>4
<1>6. GoodConn(conn)' /\ toServer' \in Seq(Datagram) /\ Len(toServer') <= CAPACITY
  <2>1. toServer \in Seq(Datagram) /\ Len(toServer) <= CAPACITY /\ CAPACITY \in Nat
    BY <1>0 DEF Links, SessionAssumption
  <2>2. GoodConn(c) /\ conn' = c /\ toServer' = Sent(toServer, << f >>)
    BY <1>0, <1>1, <1>3, <1>4
  <2> QED
    BY <1>1, <1>5, <2>1, <2>2, GoodConnSends
<1> QED
  BY <1>1, <1>2, <1>6, ClientKeepsInv

LEMMA FaultsCounted ==
    ASSUME Scalars, SessionAssumption, NEW link, NEW i, NEW rest, Delivers(link, i, rest)
    PROVE  faults' \in 0 .. MAX_FAULTS /\ overtaken' \in BOOLEAN
<1>1. faults \in 0 .. MAX_FAULTS /\ MAX_FAULTS \in Nat /\ overtaken \in BOOLEAN
  BY DEF Scalars, SessionAssumption
<1>2. faults' = faults \/ (faults < MAX_FAULTS /\ faults' = faults + 1)
  BY DEF Delivers, Fault
<1>3. faults' \in 0 .. MAX_FAULTS
  BY <1>1, <1>2
<1>4. (overtaken' = overtaken) \/ (overtaken' = TRUE)
  BY DEF Delivers
<1>5. overtaken' \in BOOLEAN
  BY <1>1, <1>4
<1> QED
  BY <1>3, <1>5

LEMMA ClientReceiveKeepsInv ==
    ASSUME SessionIInv, SessionAssumption, ClientReceive
    PROVE  SessionIInv'
<1>0. Scalars /\ Links /\ attempts # 0 /\ GoodConn(conn) /\ GoodServer
  BY DEF SessionIInv, ClientReceive
<1>1. PICK i, o :
         /\ i \in DOMAIN toClient /\ o = OnDatagramOutcome(toClient[i])
         /\ Delivers(toClient, i, toClient')
         /\ ephemerals' = o.ephemerals /\ toServer' = Sent(toServer, o.frames)
         /\ m_state' \in {m_state, "Connected", "Reconnecting", "Disconnected"}
         /\ m_everConnected' \in {m_everConnected, TRUE}
         /\ conn' \in {NoConn, o.conn}
         /\ UNCHANGED << m_realAuth, compatible, attempts, server, m_tokenCounter, account, forgets >>
  BY DEF ClientReceive, serverVars
<1>2. PICK d \in Datagram : d = toClient[i] /\ Answered(d)
  BY <1>0, <1>1 DEF Links
<1>3. GoodOutcome(o)
  BY <1>0, <1>1, <1>2, GoodDatagram DEF Scalars
<1>4. PICK c, fs : /\ c = o.conn /\ fs = o.frames /\ GoodConn(c) /\ fs \in Seq(Datagram)
                   /\ \A k \in DOMAIN fs : attempts <= 1 => Claims(fs[k], c)
  BY <1>3 DEF GoodOutcome
<1>5. Scalars' /\ attempts' # 0
  <2>1. faults' \in 0 .. MAX_FAULTS /\ overtaken' \in BOOLEAN
    <3>1. PICK link, rest : link = toClient /\ rest = toClient'
      OBVIOUS
    <3>2. Delivers(link, i, rest) /\ i \in DOMAIN link
      BY <1>1, <3>1
    <3> QED
      BY <1>0, <3>2, FaultsCounted
  <2>2. ephemerals' \in Nat
    BY <1>1, <1>3 DEF GoodOutcome
  <2> QED
    BY <1>0, <1>1, <2>1, <2>2 DEF Scalars
<1>6. FewerToClient
  BY <1>1, DeliversToClient DEF SessionAssumption
<1>7. toServer' = Sent(toServer, fs) /\ toServer \in Seq(Datagram) /\ Len(toServer) <= CAPACITY /\ CAPACITY \in Nat
  BY <1>0, <1>1, <1>4 DEF Links, SessionAssumption
<1>8. toServer' \in Seq(Datagram) /\ Len(toServer') <= CAPACITY
  BY <1>4, <1>7, SentKeeps
<1>9. CASE conn' = c
  <2>1. GoodConn(conn)'
    BY <1>1, <1>4, <1>7, <1>9, GoodConnSends
  <2> QED
    BY <1>1, <1>5, <1>6, <1>8, <2>1, ClientKeepsInv
<1>10. CASE conn' = NoConn
  BY <1>1, <1>5, <1>6, <1>8, <1>10, ClientKeepsInv
<1> QED
  BY <1>1, <1>4, <1>9, <1>10

LEMMA LoseKeepsInv ==
    ASSUME SessionIInv, SessionAssumption, Lose
    PROVE  SessionIInv'
<1>0. Scalars /\ Links
  BY DEF SessionIInv
<1>1. Scalars'
  <2>1. faults' \in 0 .. MAX_FAULTS
    BY <1>0 DEF Scalars, Lose, Fault, SessionAssumption
  <2> QED
    BY <1>0, <2>1 DEF Scalars, Lose, clientVars, serverVars
<1>2. UNCHANGED << conn, attempts, server, m_tokenCounter >>
  BY DEF Lose, clientVars, serverVars
<1>3. ASSUME NEW link \in Seq(Datagram), link # << >>, Len(link) <= CAPACITY
      PROVE  /\ Tail(link) \in Seq(Datagram) /\ Len(Tail(link)) <= CAPACITY
             /\ \A j \in DOMAIN Tail(link) : \E k \in DOMAIN link : Tail(link)[j] = link[k]
  <2>1. PICK n \in Nat : n = Len(link) /\ n > 0 /\ DOMAIN link = 1 .. n
    BY <1>3
  <2>2. PICK rest : rest = Tail(link)
    OBVIOUS
  <2>3. /\ rest \in Seq(Datagram) /\ Len(rest) = n - 1 /\ DOMAIN rest = 1 .. (n - 1)
        /\ \A j \in 1 .. (n - 1) : rest[j] = link[j + 1] /\ j + 1 \in 1 .. n
    BY <1>3, <2>1, <2>2
  <2>4. Len(rest) <= CAPACITY
    BY <1>3, <2>1, <2>3 DEF SessionAssumption
  <2>5. \A j \in DOMAIN rest : \E k \in DOMAIN link : rest[j] = link[k]
    BY <2>1, <2>3
  <2> QED
    BY <2>2, <2>3, <2>4, <2>5
<1>4. FewerToClient
  <2>1. CASE toClient' = toClient
    BY <1>0, <2>1 DEF FewerToClient, Links
  <2>2. CASE toClient # << >> /\ toClient' = Tail(toClient)
    BY <1>0, <1>3, <2>2 DEF FewerToClient, Links
  <2> QED
    BY <2>1, <2>2 DEF Lose
<1>5. FewerToServer
  <2>1. CASE toServer' = toServer
    BY <1>0, <2>1 DEF FewerToServer, Links
  <2>2. CASE toServer # << >> /\ toServer' = Tail(toServer)
    BY <1>0, <1>3, <2>2 DEF FewerToServer, Links
  <2> QED
    BY <2>1, <2>2 DEF Lose
<1>6. attempts' = 0 => conn' = NoConn /\ toServer' = << >> /\ server' = NoEntry
  BY <1>2 DEF SessionIInv, Lose
<1>7. conn' = NoConn \/ GoodConn(conn)'
  BY <1>2, <1>5, GoodConnKept DEF SessionIInv, FewerToServer
<1> QED
  BY <1>1, <1>2, <1>4, <1>5, <1>6, <1>7, ClientKeepsInv DEF FewerToServer

-----------------------------------------------------------------------------
(* Steps of the server.  Its entry is dropped, keeps its token and keys    *)
(* without leaving "Connected", or is a new one with the token after the   *)
(* last and the ephemeral of a CookieResponse.                             *)
EntryMoves ==
    \/ server' = NoEntry
    \/ /\ server'.token = server.token /\ server'.eph = server.eph
       /\ server.state = "Connected" => server'.state = "Connected" /\ server'.channel
    \/ /\ server'.token = m_tokenCounter + 1
       /\ \E i \in DOMAIN toServer : toServer[i].type = "CookieResponse" /\ server'.eph = toServer[i].eph

LEMMA ServerKeepsInv ==
    ASSUME SessionIInv, SessionAssumption, clientVars' = clientVars, Scalars', FewerToServer,
           m_tokenCounter <= m_tokenCounter', EntryMoves, GoodServer',
           attempts = 0 => server' = NoEntry /\ toServer' = << >>,
           NEW ds \in Seq(Datagram), toClient' = Sent(toClient, ds) \/ toClient' = toClient,
           \A k \in DOMAIN ds :
              /\ ds[k].token <= m_tokenCounter'
              /\ ds[k].type \in Results \cup {"HandshakeResponse"} => ds[k].token # 0
              /\ (ds[k].type \in {"Ok", "LoginResponse"} /\ server'.token = ds[k].token)
                    => server'.state = "Connected" /\ server'.eph = ds[k].eph
    PROVE  SessionIInv'
<1>0. /\ Scalars /\ Links /\ GoodServer /\ m_tokenCounter \in Nat /\ m_tokenCounter' \in Nat
      /\ UNCHANGED << conn, attempts >>
  BY DEF SessionIInv, Scalars, clientVars
<1>1. ASSUME NEW d, Answered(d)
      PROVE  /\ d \in Datagram /\ d.token <= m_tokenCounter'
             /\ d.type \in Results \cup {"HandshakeResponse"} => d.token # 0
             /\ (d.type \in {"Ok", "LoginResponse"} /\ server'.token = d.token)
                   => server'.state = "Connected" /\ server'.eph = d.eph
  <2>1. d \in Datagram /\ d.token \in Nat /\ d.token <= m_tokenCounter /\ d.token <= m_tokenCounter'
    BY <1>0, <1>1 DEF Answered, Datagram
  <2>2. ASSUME d.type \in {"Ok", "LoginResponse"}, server'.token = d.token
        PROVE  server'.state = "Connected" /\ server'.eph = d.eph
    <3>1. d.token # 0
      BY <1>1, <2>2 DEF Answered, Results
    <3>2. CASE server' = NoEntry
      BY <2>2, <3>1, <3>2 DEF NoEntry
    <3>3. CASE server'.token = m_tokenCounter + 1
      BY <1>0, <2>1, <2>2, <3>3
    <3>4. CASE /\ server'.token = server.token /\ server'.eph = server.eph
               /\ server.state = "Connected" => server'.state = "Connected" /\ server'.channel
      BY <1>1, <2>2, <3>4 DEF Answered
    <3> QED
      BY <3>2, <3>3, <3>4 DEF EntryMoves
  <2> QED
    BY <1>1, <2>1, <2>2 DEF Answered
<1>2. PICK link \in Seq(Datagram) : link = toClient /\ Len(link) <= CAPACITY /\ CAPACITY \in Nat
  BY <1>0 DEF Links, SessionAssumption
<1>3. /\ toClient' \in Seq(Datagram) /\ Len(toClient') <= CAPACITY
      /\ \A j \in DOMAIN toClient' :
            \/ \E k \in DOMAIN link : toClient'[j] = link[k]
            \/ \E k \in DOMAIN ds : toClient'[j] = ds[k]
  <2>1. CASE toClient' = Sent(link, ds)
    <3>1. /\ Sent(link, ds) \in Seq(Datagram) /\ Len(Sent(link, ds)) <= CAPACITY
          /\ \A j \in DOMAIN Sent(link, ds) :
                \/ \E k \in DOMAIN link : Sent(link, ds)[j] = link[k]
                \/ \E k \in DOMAIN ds : Sent(link, ds)[j] = ds[k]
      BY <1>2, SentKeeps
    <3> QED
      BY <2>1, <3>1
  <2>2. CASE toClient' = link
    BY <1>2, <2>2
  <2> QED
    BY <1>2, <2>1, <2>2
<1>4. (\A i \in DOMAIN toClient : Answered(toClient[i]))'
  <2> SUFFICES ASSUME NEW i \in DOMAIN toClient' PROVE (Answered(toClient[i]))'
    OBVIOUS
  <2>1. CASE \E k \in DOMAIN link : toClient'[i] = link[k]
    <3>1. PICK k \in DOMAIN link : toClient'[i] = link[k] /\ Answered(link[k])
      BY <1>0, <1>2, <2>1 DEF Links
    <3> QED
      BY <1>1, <3>1 DEF Answered
  <2>2. CASE \E k \in DOMAIN ds : toClient'[i] = ds[k]
    <3>1. PICK k \in DOMAIN ds : toClient'[i] = ds[k] /\ ds[k] \in Datagram
      BY <2>2
    <3> QED
      BY <3>1 DEF Answered
  <2> QED
    BY <1>3, <2>1, <2>2
<1>5. Links'
  BY <1>3, <1>4 DEF Links, FewerToServer
<1>6. ASSUME GoodConn(conn) PROVE GoodConn(conn)'
  <2>1. conn.token \in Nat /\ conn.token <= m_tokenCounter /\ conn.token <= m_tokenCounter'
    BY <1>0, <1>6 DEF GoodConn, Connection
  <2>2. ASSUME conn.state = "Connected", server'.token = conn.token
        PROVE  server'.state = "Connected" /\ server'.channel /\ server'.eph = conn.eph
    <3>1. conn.token # 0
      BY <1>6, <2>2 DEF GoodConn
    <3>2. CASE server' = NoEntry
      BY <2>2, <3>1, <3>2 DEF NoEntry
    <3>3. CASE server'.token = m_tokenCounter + 1
      BY <1>0, <2>1, <2>2, <3>3
    <3>4. CASE /\ server'.token = server.token /\ server'.eph = server.eph
               /\ server.state = "Connected" => server'.state = "Connected" /\ server'.channel
      BY <1>6, <2>2, <3>4 DEF GoodConn
    <3> QED
      BY <3>2, <3>3, <3>4 DEF EntryMoves
  <2>3. ASSUME attempts <= 1
        PROVE  /\ server'.token # 0 => conn.eph # 0 /\ server'.eph = conn.eph
               /\ \A j \in DOMAIN toServer' : Claims(toServer'[j], conn)
    <3>1. \A j \in DOMAIN toServer : Claims(toServer[j], conn)
      BY <1>6, <2>3 DEF GoodConn
    <3>2. \A j \in DOMAIN toServer' : Claims(toServer'[j], conn)
      BY <3>1 DEF FewerToServer
    <3>3. CASE server' = NoEntry
      BY <3>2, <3>3 DEF NoEntry
    <3>4. CASE server'.token = server.token /\ server'.eph = server.eph
      BY <1>6, <2>3, <3>2, <3>4 DEF GoodConn
    <3>5. CASE \E i \in DOMAIN toServer : toServer[i].type = "CookieResponse" /\ server'.eph = toServer[i].eph
      BY <3>1, <3>2, <3>5 DEF Claims
    <3> QED
      BY <3>3, <3>4, <3>5 DEF EntryMoves
  <2> QED
    BY <1>0, <1>6, <2>1, <2>2, <2>3 DEF GoodConn, Claims
<1> QED
  BY <1>0, <1>5, <1>6 DEF SessionIInv

LEMMA ServerReceiveKeepsInv ==
    ASSUME SessionIInv, SessionAssumption, ServerReceive
    PROVE  SessionIInv'
<1>0. Scalars /\ Links /\ GoodServer /\ server \in Entry /\ m_tokenCounter \in Nat /\ MAX_FORGETS \in Nat
  BY DEF SessionIInv, GoodServer, Scalars, SessionAssumption
<1>1. PICK i \in DOMAIN toServer, d \in Datagram :
         /\ d = toServer[i] /\ Delivers(toServer, i, toServer') /\ clientVars' = clientVars
         /\ \/ OnClientHello(d) \/ OnCookieResponse(d) \/ OnRepeatedCookieResponse(d)
            \/ OnClockSyncRequest(d) \/ OnAuthMessage(d) \/ OnLoginRequest(d)
            \/ OnDisconnect(d) \/ Dropped(d)
  BY <1>0 DEF ServerReceive, Links
<1>2. FewerToServer /\ faults' \in 0 .. MAX_FAULTS /\ overtaken' \in BOOLEAN
  <2>1. PICK link, rest : link \in Seq(Datagram) /\ link = toServer /\ Len(link) <= CAPACITY /\ rest = toServer'
    BY <1>0 DEF Links
  <2>2. Delivers(link, i, rest) /\ i \in DOMAIN link
    BY <1>1, <2>1
  <2>3. /\ rest \in Seq(Datagram) /\ Len(rest) <= Len(link) /\ Len(rest) \in Nat
        /\ \A j \in DOMAIN rest : \E k \in DOMAIN link : rest[j] = link[k]
    BY <2>1, <2>2, DeliversKeeps
  <2>4. FewerToServer
    BY <2>1, <2>3 DEF FewerToServer, SessionAssumption
  <2>5. faults' \in 0 .. MAX_FAULTS /\ overtaken' \in BOOLEAN
    BY <1>0, <2>2, FaultsCounted
  <2> QED
    BY <2>4, <2>5
<1>3. attempts # 0
  BY <1>1 DEF SessionIInv
<1>4. /\ m_state' = m_state /\ m_everConnected' = m_everConnected /\ m_realAuth' = m_realAuth
      /\ compatible' = compatible /\ attempts' = attempts /\ ephemerals' = ephemerals
  BY <1>1 DEF clientVars
<1> DEFINE Sane(f) ==
       /\ f.token <= m_tokenCounter'
       /\ f.type \in Results \cup {"HandshakeResponse"} => f.token # 0
       /\ (f.type \in {"Ok", "LoginResponse"} /\ server'.token = f.token)
             => server'.state = "Connected" /\ server'.eph = f.eph
<1>5. ASSUME m_tokenCounter' \in Nat, m_tokenCounter <= m_tokenCounter',
             account' \in {"none", "mine", "other"}, forgets' = forgets,
             EntryMoves, GoodServer',
             NEW ds \in Seq(Datagram), toClient' = Sent(toClient, ds) \/ toClient' = toClient,
             \A k \in DOMAIN ds : Sane(ds[k])
      PROVE  SessionIInv'
  <2>1. Scalars'
    BY <1>0, <1>2, <1>4, <1>5 DEF Scalars
  <2> QED
    BY <1>0, <1>1, <1>2, <1>3, <1>5, <2>1, ServerKeepsInv
<1>6. ASSUME server' = server, m_tokenCounter' = m_tokenCounter, account' = account, forgets' = forgets,
             NEW ds \in Seq(Datagram), toClient' = Sent(toClient, ds) \/ toClient' = toClient,
             \A k \in DOMAIN ds : Sane(ds[k])
      PROVE  SessionIInv'
  <2>1. EntryMoves
    BY <1>0, <1>6 DEF EntryMoves, GoodServer
  <2>2. GoodServer'
    BY <1>0, <1>6 DEF GoodServer
  <2>3. account' \in {"none", "mine", "other"}
    BY <1>0, <1>6 DEF Scalars
  <2> HIDE DEF Sane
  <2> QED
    BY <1>0, <1>5, <1>6, <2>1, <2>2, <2>3
<1>7. << >> \in Seq(Datagram) /\ DOMAIN << >> = {}
  OBVIOUS
<1>8. \A f \in Datagram : /\ << f >> \in Seq(Datagram) /\ DOMAIN << f >> = {1} /\ << f >>[1] = f
  OBVIOUS
<1>9. CASE OnClientHello(d)
  <2>1. PICK f : f = Clear(IF compatible THEN "Cookie" ELSE "VersionReject")
    OBVIOUS
  <2>2. f \in Datagram /\ f.token = 0 /\ f.type \in {"Cookie", "VersionReject"}
    BY <2>1 DEF Clear, Datagram, ClearTypes
  <2>3. /\ server' = server /\ m_tokenCounter' = m_tokenCounter /\ account' = account /\ forgets' = forgets
        /\ toClient' = Sent(toClient, << f >>)
    BY <1>9, <2>1 DEF OnClientHello, Reply, serverVars
  <2>4. Sane(f)
    BY <1>0, <2>2, <2>3 DEF Results
  <2> HIDE DEF Sane
  <2>5. \A k \in DOMAIN << f >> : Sane(<< f >>[k])
    BY <1>8, <2>2, <2>4
  <2> QED
    BY <1>6, <1>8, <2>2, <2>3, <2>5
<1>10. CASE OnCookieResponse(d)
  <2>1. PICK t \in Nat : t = m_tokenCounter + 1
    BY <1>0
  <2>2. PICK s, f : /\ s = [token |-> t, state |-> "Handshaking", channel |-> FALSE, eph |-> d.eph]
                    /\ f = [type |-> "HandshakeResponse", token |-> t, eph |-> 0]
    OBVIOUS
  <2>3. /\ server' = s /\ m_tokenCounter' = t /\ account' = account /\ forgets' = forgets
        /\ toClient' = Sent(toClient, << f >>)
    BY <1>10, <2>1, <2>2 DEF OnCookieResponse, Reply
  <2>4. f \in Datagram /\ f.token = t /\ f.type = "HandshakeResponse"
    BY <2>2 DEF Datagram, ClearTypes
  <2>5. s \in Entry /\ s.token = t /\ s.state = "Handshaking" /\ ~s.channel /\ s.eph = d.eph
    BY <2>2 DEF Entry, Datagram
  <2>6. EntryMoves
    BY <1>1, <1>10, <2>1, <2>3, <2>5 DEF EntryMoves, OnCookieResponse
  <2>7. GoodServer'
    BY <1>0, <2>1, <2>3, <2>5 DEF GoodServer, NoEntry
  <2>8. Sane(f)
    BY <1>0, <2>1, <2>3, <2>4 DEF Results
  <2>9. account' \in {"none", "mine", "other"}
    BY <1>0, <2>3 DEF Scalars
  <2> HIDE DEF Sane
  <2>10. \A k \in DOMAIN << f >> : Sane(<< f >>[k])
    BY <1>8, <2>4, <2>8
  <2>11. m_tokenCounter' \in Nat /\ m_tokenCounter <= m_tokenCounter'
    BY <1>0, <2>1, <2>3
  <2> QED
    BY <1>5, <1>8, <2>3, <2>4, <2>6, <2>7, <2>9, <2>10, <2>11
<1>11. CASE OnRepeatedCookieResponse(d)
  <2>1. /\ server' = server /\ m_tokenCounter' = m_tokenCounter /\ account' = account /\ forgets' = forgets
        /\ toClient' = Sent(toClient, ResendHandshake) /\ server.token # 0
    BY <1>0, <1>11 DEF OnRepeatedCookieResponse, Reply, serverVars, GoodServer
  <2>2. PICK f : f = [type |-> "HandshakeResponse", token |-> server.token, eph |-> 0]
    OBVIOUS
  <2>3. f \in Datagram /\ f.token = server.token /\ f.type = "HandshakeResponse"
    BY <1>0, <2>2 DEF Datagram, ClearTypes, Entry
  <2>4. Sane(f)
    BY <1>0, <2>1, <2>3 DEF Results, GoodServer
  <2> HIDE DEF Sane
  <2>5. ResendHandshake = << f >> \/ ResendHandshake = << >>
    BY <2>2 DEF ResendHandshake
  <2>6. CASE ResendHandshake = << f >>
    <3>1. \A k \in DOMAIN << f >> : Sane(<< f >>[k])
      BY <1>8, <2>3, <2>4
    <3> QED
      BY <1>6, <1>8, <2>1, <2>3, <2>6, <3>1
  <2>7. CASE ResendHandshake = << >>
    BY <1>6, <1>7, <2>1, <2>7
  <2> QED
    BY <2>5, <2>6, <2>7
<1>12. CASE OnClockSyncRequest(d)
  <2>1. PICK f : f = Clear("ClockSyncResponse")
    OBVIOUS
  <2>2. f \in Datagram /\ f.token = 0 /\ f.type = "ClockSyncResponse"
    BY <2>1 DEF Clear, Datagram, ClearTypes
  <2>3. PICK s : s = IF server.channel THEN server
                     ELSE [server EXCEPT !.channel = TRUE, !.state = "Authenticating"]
    OBVIOUS
  <2>4. /\ server' = s /\ m_tokenCounter' = m_tokenCounter /\ account' = account /\ forgets' = forgets
        /\ toClient' = Sent(toClient, << f >>) /\ server # NoEntry
    BY <1>12, <2>1, <2>3 DEF OnClockSyncRequest, Reply
  <2>5. /\ s \in Entry /\ s.token = server.token /\ s.eph = server.eph /\ s.channel
        /\ s.state \in {"Authenticating", "Connected"}
        /\ server.state = "Connected" => s.state = "Connected"
    BY <1>0, <2>3 DEF Entry, GoodServer
  <2>6. EntryMoves
    BY <2>4, <2>5 DEF EntryMoves
  <2>7. GoodServer'
    BY <1>0, <2>4, <2>5 DEF GoodServer, NoEntry
  <2>8. Sane(f)
    BY <1>0, <2>2, <2>4 DEF Results
  <2>9. account' \in {"none", "mine", "other"} /\ m_tokenCounter' \in Nat /\ m_tokenCounter <= m_tokenCounter'
    BY <1>0, <2>4 DEF Scalars
  <2> HIDE DEF Sane
  <2>10. \A k \in DOMAIN << f >> : Sane(<< f >>[k])
    BY <1>8, <2>2, <2>8
  <2> QED
    BY <1>5, <1>8, <2>2, <2>4, <2>6, <2>7, <2>9, <2>10
<1>13. ASSUME Opens(server, d) PROVE server.token # 0 /\ server.channel /\ server.state \in {"Authenticating", "Connected"}
  <2>1. server.channel /\ server.state \in {"Authenticating", "Connected"}
    BY <1>0, <1>13 DEF Opens, GoodServer
  <2>2. server # NoEntry
    BY <2>1 DEF NoEntry
  <2> QED
    BY <1>0, <2>1, <2>2 DEF GoodServer
<1>14. CASE OnAuthMessage(d)
  <2>1. PICK v \in Verdicts(d.type) :
           /\ account' = v[2]
           /\ server' = IF v[1] = "Ok" /\ server.state = "Authenticating"
                        THEN [server EXCEPT !.state = "Connected"] ELSE server
           /\ SealedReply(v[1])
    BY <1>14 DEF OnAuthMessage
  <2>2. PICK r, a : r = v[1] /\ a = v[2] /\ r \in Results /\ r # "LoginResponse" /\ a \in {account, "mine"}
    BY <2>1 DEF Verdicts, Results
  <2>3. PICK f : f = [type |-> r, token |-> server.token, eph |-> server.eph]
    OBVIOUS
  <2>4. f \in Datagram /\ f.token = server.token /\ f.type = r /\ f.eph = server.eph
    BY <1>0, <2>2, <2>3 DEF Datagram, Entry
  <2>5. PICK s : s = IF r = "Ok" /\ server.state = "Authenticating"
                     THEN [server EXCEPT !.state = "Connected"] ELSE server
    OBVIOUS
  <2>6. /\ server' = s /\ m_tokenCounter' = m_tokenCounter /\ account' = a /\ forgets' = forgets
        /\ toClient' = Sent(toClient, << f >>) /\ Opens(server, d)
    BY <1>14, <2>1, <2>2, <2>3, <2>5 DEF OnAuthMessage, SealedReply, Reply
  <2>7. /\ s \in Entry /\ s.token = server.token /\ s.eph = server.eph /\ s.channel
        /\ s.state \in {"Authenticating", "Connected"}
        /\ server.state = "Connected" => s.state = "Connected"
        /\ r = "Ok" => s.state = "Connected"
    BY <1>0, <1>13, <2>5, <2>6 DEF Entry
  <2>8. EntryMoves
    BY <2>6, <2>7 DEF EntryMoves
  <2>9. GoodServer'
    BY <1>0, <1>13, <2>6, <2>7 DEF GoodServer, NoEntry
  <2>10. Sane(f)
    BY <1>0, <1>13, <2>2, <2>4, <2>6, <2>7 DEF GoodServer
  <2>11. account' \in {"none", "mine", "other"} /\ m_tokenCounter' \in Nat /\ m_tokenCounter <= m_tokenCounter'
    BY <1>0, <2>2, <2>6 DEF Scalars
  <2> HIDE DEF Sane
  <2>12. \A k \in DOMAIN << f >> : Sane(<< f >>[k])
    BY <1>8, <2>4, <2>10
  <2> QED
    BY <1>5, <1>8, <2>4, <2>6, <2>8, <2>9, <2>11, <2>12
<1>15. CASE OnLoginRequest(d)
  <2>1. PICK f : f = [type |-> "LoginResponse", token |-> server.token, eph |-> server.eph]
    OBVIOUS
  <2>2. f \in Datagram /\ f.token = server.token /\ f.type = "LoginResponse" /\ f.eph = server.eph
    BY <1>0, <2>1 DEF Datagram, Entry, Results
  <2>3. PICK s : s = [server EXCEPT !.state = "Connected"]
    OBVIOUS
  <2>4. /\ server' = s /\ m_tokenCounter' = m_tokenCounter /\ account' = account /\ forgets' = forgets
        /\ toClient' = Sent(toClient, << f >>) /\ Opens(server, d)
    BY <1>15, <2>1, <2>3 DEF OnLoginRequest, SealedReply, Reply
  <2>5. s \in Entry /\ s.token = server.token /\ s.eph = server.eph /\ s.channel /\ s.state = "Connected"
    BY <1>0, <1>13, <2>3, <2>4 DEF Entry
  <2>6. EntryMoves
    BY <2>4, <2>5 DEF EntryMoves
  <2>7. GoodServer'
    BY <1>0, <1>13, <2>4, <2>5 DEF GoodServer, NoEntry
  <2>8. Sane(f)
    BY <1>0, <1>13, <2>2, <2>4, <2>5 DEF GoodServer
  <2>9. account' \in {"none", "mine", "other"} /\ m_tokenCounter' \in Nat /\ m_tokenCounter <= m_tokenCounter'
    BY <1>0, <2>4 DEF Scalars
  <2> HIDE DEF Sane
  <2>10. \A k \in DOMAIN << f >> : Sane(<< f >>[k])
    BY <1>8, <2>2, <2>8
  <2> QED
    BY <1>5, <1>8, <2>2, <2>4, <2>6, <2>7, <2>9, <2>10
<1>16. CASE OnDisconnect(d)
  <2>1. /\ server' = NoEntry /\ m_tokenCounter' = m_tokenCounter /\ account' = account /\ forgets' = forgets
        /\ toClient' = toClient
    BY <1>16 DEF OnDisconnect
  <2>2. EntryMoves
    BY <2>1 DEF EntryMoves
  <2>3. GoodServer'
    BY <1>0, <2>1 DEF GoodServer, NoEntry, Entry
  <2>4. account' \in {"none", "mine", "other"} /\ m_tokenCounter' \in Nat /\ m_tokenCounter <= m_tokenCounter'
    BY <1>0, <2>1 DEF Scalars
  <2> HIDE DEF Sane
  <2> QED
    BY <1>5, <1>7, <2>1, <2>2, <2>3, <2>4
<1>17. CASE Dropped(d)
  <2>1. /\ server' = server /\ m_tokenCounter' = m_tokenCounter /\ account' = account /\ forgets' = forgets
        /\ toClient' = toClient
    BY <1>17 DEF Dropped, serverVars
  <2> HIDE DEF Sane
  <2> QED
    BY <1>6, <1>7, <2>1
<1> QED
  BY <1>1, <1>9, <1>10, <1>11, <1>12, <1>14, <1>15, <1>16, <1>17

LEMMA ServerForgetsKeepsInv ==
    ASSUME SessionIInv, SessionAssumption, ServerForgets
    PROVE  SessionIInv'
<1>1. /\ server' = NoEntry /\ forgets' = forgets + 1 /\ forgets < MAX_FORGETS /\ MAX_FORGETS \in Nat
      /\ clientVars' = clientVars /\ m_tokenCounter' = m_tokenCounter /\ account' = account
      /\ toServer' = toServer /\ toClient' = toClient /\ faults' = faults /\ overtaken' = overtaken
  BY DEF ServerForgets, netVars, SessionAssumption
<1>2. Scalars /\ Links /\ m_tokenCounter \in Nat
  BY DEF SessionIInv, Scalars
<1>3. Scalars'
  BY <1>1, <1>2 DEF Scalars, clientVars
<1>4. FewerToServer
  BY <1>1, <1>2 DEF FewerToServer, Links
<1>5. EntryMoves
  BY <1>1 DEF EntryMoves
<1>6. GoodServer'
  BY <1>1, <1>2 DEF GoodServer, NoEntry, Entry
<1>7. attempts = 0 => server' = NoEntry /\ toServer' = << >>
  BY <1>1 DEF SessionIInv
<1>8. << >> \in Seq(Datagram) /\ DOMAIN << >> = {}
  OBVIOUS
<1>9. m_tokenCounter <= m_tokenCounter'
  BY <1>1, <1>2
<1> QED
  BY <1>1, <1>3, <1>4, <1>5, <1>6, <1>7, <1>8, <1>9, ServerKeepsInv

-----------------------------------------------------------------------------
LEMMA NextKeepsInv ==
    ASSUME SessionIInv, SessionAssumption, [Next]_vars
    PROVE  SessionIInv'
<1>1. CASE Connect \/ ReconnectAttempt
  BY <1>1, ConnectKeepsInv DEF Connect, ReconnectAttempt
<1>2. CASE UserDisconnect \/ BeginReconnect
  BY <1>2, LeaveKeepsInv
<1>3. CASE ResendPending
  BY <1>3, ResendKeepsInv
<1>4. CASE ClientReceive
  BY <1>4, ClientReceiveKeepsInv
<1>5. CASE ServerReceive
  BY <1>5, ServerReceiveKeepsInv
<1>6. CASE ServerForgets
  BY <1>6, ServerForgetsKeepsInv
<1>7. CASE Lose
  BY <1>7, LoseKeepsInv
<1>8. CASE UNCHANGED vars
  <2>1. UNCHANGED << server, m_tokenCounter, toServer, toClient, conn, attempts >>
    BY <1>8 DEF vars, clientVars, serverVars, netVars
  <2>2. Scalars'
    BY <1>8 DEF vars, clientVars, serverVars, netVars, SessionIInv, Scalars
  <2>3. FewerToClient
    BY <2>1 DEF FewerToClient, SessionIInv, Links
  <2>4. toServer' \in Seq(Datagram) /\ Len(toServer') <= CAPACITY
    BY <2>1 DEF SessionIInv, Links
  <2>5. conn' = NoConn \/ GoodConn(conn)'
    BY <2>1 DEF SessionIInv, GoodConn, Claims
  <2>6. attempts' = 0 => conn' = NoConn /\ toServer' = << >> /\ server' = NoEntry
    BY <2>1 DEF SessionIInv
  <2> QED
    BY <2>1, <2>2, <2>3, <2>4, <2>5, <2>6, ClientKeepsInv
<1> QED
  BY <1>1, <1>2, <1>3, <1>4, <1>5, <1>6, <1>7, <1>8 DEF Next

LEMMA InitHasInv ==
    ASSUME SessionAssumption, Init
    PROVE  SessionIInv
<1>1. << >> \in Seq(Datagram) /\ Len(<< >>) = 0 /\ DOMAIN << >> = {}
  OBVIOUS
<1>2. Scalars
  <2>1. /\ m_state = "Disconnected" /\ attempts = 0 /\ ephemerals = 0 /\ m_tokenCounter = 0
        /\ forgets = 0 /\ faults = 0 /\ account \in {"none", "mine", "other"}
    BY DEF Init, SessionAssumption
  <2>2. m_realAuth \in BOOLEAN
    BY DEF Init, SessionAssumption
  <2>3. compatible \in BOOLEAN
    BY DEF Init, SessionAssumption
  <2>4. m_everConnected \in BOOLEAN /\ overtaken \in BOOLEAN
    BY DEF Init
  <2>5. attempts \in 0 .. MAX_ATTEMPTS /\ forgets \in 0 .. MAX_FORGETS /\ faults \in 0 .. MAX_FAULTS
    BY <2>1 DEF SessionAssumption
  <2> QED
    BY <2>1, <2>2, <2>3, <2>4, <2>5 DEF Scalars
<1>3. Links
  BY <1>1 DEF Init, SessionAssumption, Links
<1>4. GoodServer
  BY DEF Init, GoodServer, NoEntry, Entry
<1>5. conn = NoConn /\ toServer = << >> /\ server = NoEntry
  BY DEF Init
<1> QED
  BY <1>2, <1>3, <1>4, <1>5 DEF SessionIInv

(* The inductive invariant is as strong as what the run checks. *)
LEMMA InvGivesAgreement ==
    ASSUME SessionIInv
    PROVE  SessionAgrees
<1>1. Scalars /\ Links /\ GoodServer /\ server \in Entry /\ m_tokenCounter \in Nat
  BY DEF SessionIInv, GoodServer, Scalars
<1>2. NoConn \in Connection
  <2>1. Clear("ClientHello") \in Datagram
    BY DEF Clear, Datagram, ClearTypes
  <2> QED
    BY <2>1 DEF NoConn, Connection
<1>3. conn \in Connection
  BY <1>2 DEF SessionIInv, GoodConn
<1>4. TypeOK
  BY <1>1, <1>3 DEF TypeOK, Scalars, Links, Connection, Entry
<1>5. /\ ConnectedAgrees /\ KeysAgree
      /\ conn.token <= m_tokenCounter
      /\ conn.channel => HaveKeys(conn) /\ conn.complete
      /\ conn.state \in {"Authenticating", "Connected"} => conn.channel
  <2>1. CASE conn = NoConn
    <3>1. conn.token = 0 /\ conn.state = "Idle" /\ conn.channel = FALSE
      BY <2>1 DEF NoConn
    <3> QED
      BY <1>1, <3>1 DEF ConnectedAgrees, KeysAgree, HaveKeys
  <2>2. CASE GoodConn(conn)
    <3>1. /\ ConnectedAgrees
          /\ conn.token <= m_tokenCounter
          /\ conn.channel => HaveKeys(conn) /\ conn.complete
          /\ conn.state \in {"Authenticating", "Connected"} => conn.channel
      BY <2>2 DEF GoodConn, ConnectedAgrees, HaveKeys
    <3>2. KeysAgree
      BY <2>2 DEF GoodConn, KeysAgree, HaveKeys
    <3> QED
      BY <3>1, <3>2
  <2> QED
    BY <2>1, <2>2 DEF SessionIInv
<1>6. /\ server.token <= m_tokenCounter
      /\ server.channel <=> server.state \in {"Authenticating", "Connected"}
      /\ server = NoEntry <=> server.token = 0
  BY <1>1 DEF GoodServer
<1>7. \A i \in DOMAIN toClient :
        /\ toClient[i].token <= m_tokenCounter
        /\ toClient[i].type = "HandshakeResponse" => toClient[i].token # 0
        /\ (toClient[i].type \in {"Ok", "LoginResponse"} /\ server.token = toClient[i].token)
              => /\ server.token # 0 => server.state = "Connected"
                 /\ server.eph = toClient[i].eph
  BY <1>1 DEF Links, Answered
<1> QED
  BY <1>4, <1>5, <1>6, <1>7 DEF SessionAgrees, SessionInv

(* The inductive invariant holds: what SessionImpl, ClientConnection and   *)
(* ServerConnection rely on, whatever the network loses, repeats and       *)
(* reorders.                                                               *)
THEOREM SessionInvariant ==
    ASSUME SessionAssumption
    PROVE  Spec => []SessionIInv
<1>1. Init => SessionIInv
  BY InitHasInv
<1>2. SessionIInv /\ [Next]_vars => SessionIInv'
  BY NextKeepsInv
<1> QED
  BY <1>1, <1>2, PTL DEF Spec

(* A client that SessionImpl reports connected is logged in at the server  *)
(* entry of its token, under the same keys; and within the first attempt   *)
(* both ends that have a token have its keys, because                      *)
(* HandshakeClient::OnCookie and OnHandshakeResponse make and derive them  *)
(* once: lost, repeated, reordered and re-sent datagrams, late answers of  *)
(* earlier attempts and a server that forgets included.                    *)
THEOREM SessionCorrect ==
    ASSUME SessionAssumption
    PROVE  Spec => []SessionAgrees
<1>1. Spec => []SessionIInv
  BY SessionInvariant
<1>2. SessionIInv => SessionAgrees
  BY InvGivesAgreement
<1> QED
  BY <1>1, <1>2, PTL
=============================================================================
