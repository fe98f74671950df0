-------------------------- MODULE LoopbackNetwork --------------------------
(* The in-memory wire of the integration tests and the sockets on it       *)
(* (NeuronCore/LoopbackNetwork.h).  The seeded generator is a choice: what *)
(* holds for every choice holds for every seed.  A datagram is a number,   *)
(* with the binding of the port it was posted for (how often the port had  *)
(* been bound), which the code does not see.                               *)
EXTENDS Naturals, Sequences, FiniteSets

CONSTANTS
    Ports,
    REORDER_DEPTHS, \* the depths Configure is called with
    MAX_POSTS,      \* bound: datagrams posted
    MAX_OPENS       \* bound: times a port is bound

VARIABLES
    m_imp,          \* Impairments: may it lose, may it duplicate, reorderDepth
    m_queues,       \* bound port -> queue
    m_holdBuffer,
    posted,         \* datagrams posted, and for which binding of the port
    got,            \* datagrams received, in order
    binds           \* port -> times bound

loopVars == << m_imp, m_queues, m_holdBuffer, posted, got, binds >>

Bound(port) == port \in DOMAIN m_queues

Init ==
    /\ m_imp = [lossy |-> FALSE, dups |-> FALSE, reorderDepth |-> 0]
    /\ m_queues = << >> /\ m_holdBuffer = << >>
    /\ posted = {} /\ got = << >> /\ binds = [p \in Ports |-> 0]

Configure(lossy, dups, depth) ==
    /\ m_imp' = [lossy |-> lossy, dups |-> dups, reorderDepth |-> depth]
    /\ m_holdBuffer' = << >>
    /\ posted = {}  \* a test configures before it sends
    /\ UNCHANGED << m_queues, posted, got, binds >>

Unregistered(port) == [p \in DOMAIN m_queues \ {port} |-> m_queues[p]]

\* The datagrams of ds at the places I, in their order.
Kept(ds, I) == [k \in 1 .. Cardinality(I) |-> ds[CHOOSE i \in I : Cardinality({ j \in I : j <= i }) = k]]

HeldForOthers(port) == Kept(m_holdBuffer, { i \in 1 .. Len(m_holdBuffer) : m_holdBuffer[i].dst # port })

\* LoopbackSocket::Open closes first, so a rebound port starts empty.
Open(port) ==
    /\ binds[port] < MAX_OPENS
    /\ m_queues' = [p \in DOMAIN m_queues \cup {port} |-> IF p = port THEN << >> ELSE m_queues[p]]
    /\ m_holdBuffer' = IF Bound(port) THEN HeldForOthers(port) ELSE m_holdBuffer
    /\ binds' = [binds EXCEPT ![port] = @ + 1]
    /\ UNCHANGED << m_imp, posted, got >>

Close(port) ==
    /\ Bound(port)
    /\ m_queues' = Unregistered(port)
    /\ m_holdBuffer' = HeldForOthers(port)
    /\ UNCHANGED << m_imp, posted, got, binds >>

\* Deliver, one after the other; what goes to a port nobody has bound is lost.
Delivered(queues, ds) ==
    [p \in DOMAIN queues |-> queues[p] \o Kept(ds, { i \in 1 .. Len(ds) : ds[i].dst = p })]

\* Mutant: the released datagram stays, the last one goes.
ReleasedErasesLast(queues, held, keep) ==
    IF Len(held) <= keep THEN {<< queues, held >>}
    ELSE {<< Delivered(queues, << held[1] >>), SubSeq(held, 1, keep) >>}

\* ReleaseOneHeld until at most `keep' datagrams are held, in every order
\* the generator may choose: the pairs of queues and what is still held.
\* Posting holds two more at most, Step releases all.
Released(queues, held, keep) ==
    LET more == Len(held) - keep
        Orders == { o \in [1 .. more -> 1 .. Len(held)] :
                    \A i, j \in 1 .. more : i # j => o[i] # o[j] }
        After(o) == << Delivered(queues, [k \in 1 .. more |-> held[o[k]]]),
                       Kept(held, { i \in 1 .. Len(held) : \A k \in 1 .. more : o[k] # i }) >>
    IN  IF Len(held) <= keep THEN {<< queues, held >>} ELSE { After(o) : o \in Orders }

\* LoopbackSocket::SendTo, then Post: loss, duplication, reordering.
SendTo(src, dst) ==
    LET d == [id |-> Cardinality(posted) + 1, dst |-> dst, bind |-> binds[dst]] IN
    /\ Bound(src) /\ d.id <= MAX_POSTS
    /\ posted' = posted \cup {[id |-> d.id, dst |-> dst, bind |-> d.bind, heard |-> Bound(dst)]}
    /\ \/ m_imp.lossy /\ UNCHANGED << m_queues, m_holdBuffer >>
       \/ \E copies \in IF m_imp.dups THEN {<< d >>, << d, d >>} ELSE {<< d >>} :
            IF m_imp.reorderDepth > 0
            THEN \E r \in Released(m_queues, m_holdBuffer \o copies, m_imp.reorderDepth) :
                    m_queues' = r[1] /\ m_holdBuffer' = r[2]
            ELSE /\ m_queues' = Delivered(m_queues, copies)
                 /\ UNCHANGED m_holdBuffer
    /\ UNCHANGED << m_imp, got, binds >>

\* LoopbackNetwork::Step, called after the send loop.
Flush ==
    /\ m_holdBuffer # << >>
    /\ \E r \in Released(m_queues, m_holdBuffer, 0) : m_queues' = r[1] /\ m_holdBuffer' = r[2]
    /\ UNCHANGED << m_imp, posted, got, binds >>

RecvFrom(port) ==
    /\ Bound(port) /\ m_queues[port] # << >>
    /\ got' = Append(got, [id |-> Head(m_queues[port]).id, now |-> binds[port]])
    /\ m_queues' = [m_queues EXCEPT ![port] = Tail(@)]
    /\ UNCHANGED << m_imp, m_holdBuffer, posted, binds >>

Next ==
    \/ \E l, u \in BOOLEAN, d \in REORDER_DEPTHS : Configure(l, u, d)
    \/ \E p \in Ports : Open(p) \/ Close(p) \/ RecvFrom(p) \/ \E q \in Ports : SendTo(p, q)
    \/ Flush

(***************************************************************************)
(* Properties                                                              *)
(***************************************************************************)
Copies(p, s) == Cardinality({ i \in 1 .. Len(s) : s[i].id = p.id })

QueuedFor(p) == IF Bound(p.dst) THEN m_queues[p.dst] ELSE << >>

(* A wire configured without loss loses nothing: what was sent to a port   *)
(* that has stayed bound is received, queued or held, and no datagram is   *)
(* ever there more often than duplication allows.                          *)
LosslessLosesNothing ==
    \A p \in posted :
        LET n == Copies(p, got) + Copies(p, QueuedFor(p)) + Copies(p, m_holdBuffer) IN
        /\ n <= (IF m_imp.dups THEN 2 ELSE 1)
        /\ (~m_imp.lossy /\ p.heard /\ Bound(p.dst) /\ binds[p.dst] = p.bind) => n >= 1

(* A socket bound to a port someone used before never hears datagrams      *)
(* sent to its predecessor, though they may have been held for reordering. *)
RebindHearsNothingOld ==
    \A i \in 1 .. Len(got) : \E p \in posted : p.id = got[i].id /\ (p.heard => got[i].now = p.bind)

(* The wire of the integration tests delivers what its settings promise to *)
(* the binding it was posted for (LoopbackNetwork.h Post, Flush, Unbind).  *)
LoopbackInv == LosslessLosesNothing /\ RebindHearsNothingOld
=============================================================================
