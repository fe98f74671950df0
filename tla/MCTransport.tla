---------------------------- MODULE MCTransport -----------------------------
(* The transport and the server's main loop, part by part: a behaviour is  *)
(* one of the part it chose, and the variables of the others stay at their *)
(* initial values.  The secure channel is the module extended.             *)
EXTENDS SecureChannel, FiniteSets

(* SecureChannel with the receiver's window kept twice: as the set m_bits, *)
(* and as the array of machine words of the code, which makes every step   *)
(* the set makes.                                                          *)

VARIABLE m_words

MCInit == Init /\ m_words = ZeroWords

MCNext ==
    \/ (SetSenderKeys \/ SetReceiverKeys \/ Seal) /\ UNCHANGED m_words
    \/ \E n \in PacketNumbers, kind \in Kinds :
          /\ Open(n, kind)
          /\ m_words' = IF recvHasKeys /\ kind \in {"sealed", "damaged"}
                        THEN CheckAndUpdateWords(m_words, m_seenAny, m_highest, n)
                        ELSE m_words

MCSpec == MCInit /\ [][MCNext]_<< vars, m_words >>

(* The words hold exactly the set: SlideForward moves every bit, across    *)
(* word boundaries too, exactly shift places, and drops exactly the ones   *)
(* that fall off the tail (ReplayWindow.h SlideForward, CheckAndUpdate).   *)
WordsHoldBits == BitsOf(m_words) = m_bits
-----------------------------------------------------------------------------

CONSTANTS
    SEQ_SPACE, ACK_BITS, KEEP, SPAN, LIFETIME, MAX_MESSAGES, MAX_WIRE,
    Ports, REORDER_DEPTHS, MAX_POSTS, MAX_OPENS,
    Workers, Ops, MAX_DATAGRAMS, MAX_SOCKET_ERRORS, MAX_LOOPS, MAX_SIM_EVENTS,
    BYTE, W16, W32, QBITS, SECTOR_SIZE, FRACTION,
    STEP, MAX_CATCH_UP, ONE, FLOOR, EASE_DOWN, EASE_UP, SNAP, FREQUENCY, MAX_DELTA,
    Elapsed, TickCosts, MAX_REAL

VARIABLES
    part,
    m_nextMessage, m_inFlight, relWire, relSeenAny, m_latest, m_received, deliveries,
    m_imp, m_queues, m_holdBuffer, posted, got, binds,
    running, phase, ops, port, worker, lanesUp, inbound, arrived, failures,
    pc, cfg, g_running, dbAvailable, persistUp, drained, routed, econEvents, made, enqueued,
    committed, simTick, snapTick, stepped, outgoing, loops,
    input, decoded,
    real, m_last, framePhase, m_accumulator, m_simTickCount, m_stepsThisFrame, m_factor,
    m_qpcSecondCounter, m_totalTicks, m_framesThisSecond, m_framesPerSecond

(***************************************************************************)
(* The inputs of the wire formats                                          *)
(***************************************************************************)
Message(c, b) == [channel |-> c, type |-> 3, body |-> b]
MessageBodies == {<< >>, << 1 >>, << 0, 1 >>, << 4, 0, 0, 0, 2 >>}
BodyKinds == {"ClientHello", "Cookie", "CookieResponse", "HandshakeResponse", "ClockSync",
              "LoginRequest", "LoginResponse"}
Rec(id, mask) == [netId |-> id, mask |-> mask, sector |-> 0 - 2, pos |-> 5, hp |-> 0 - 3,
                  shapeId |-> 9, ownerPlayer |-> 7, kind |-> 2]
AllFields == {"sector", "pos", "hp", "shapeId", "ownerPlayer", "kind"}
Masks == (SUBSET AllFields \ {{}}) \cup {{"tomb"}}
FewMasks == {{}, {"tomb"}, {"hp"}, {"sector", "pos"}, AllFields}
Entity(at, hp, k) ==
    [netId |-> 1, at |-> at, hp |-> hp, shapeId |-> 1, ownerPlayer |-> 2, kind |-> k]
Command(i, q, u, p, b) ==
    [clientTick |-> 4, intent |-> i, queue |-> q, units |-> u, targetNetId |-> 6, point |-> p,
     range |-> 1, beacon |-> b]

WireInputs ==
    { [kind |-> "frames", messages |-> << Message(0, a), Message(1, b) >>, cut |-> c] :
        a \in MessageBodies, b \in MessageBodies, c \in 0 .. 8 }
    \cup { [kind |-> "body", body |-> k, cut |-> c] : k \in BodyKinds, c \in 0 .. 4 }
    \cup { [kind |-> "snapshot", snap |-> [tick |-> 5, records |-> << Rec(1, m), Rec(2, n) >>],
            cut |-> c] : m \in Masks, n \in FewMasks \ {{}}, c \in 0 .. 2 }
    \cup { [kind |-> "command", cut |-> c, command |-> Command(i, q, u, p, b)] :
        c \in 0 .. 2, i \in {0, 8}, q \in BOOLEAN, u \in {<< >>, << 3 >>, << 3, 4 >>},
        p \in {0 - 5, 5}, b \in {<< >>, << 65, 0, 255 >>} }
    \cup { [kind |-> "delta", base |-> b, cur |-> Entity(at, 1, 1)] :
        b \in {<< >>} \cup { << Entity(x, h, k) >> : x \in 0 - 13 .. 25, h \in {1, 2}, k \in {1, 2} },
        at \in 0 - 13 .. 25 }
    \cup { [kind |-> "budget", records |-> << Rec(1, a), Rec(2, b), Rec(3, c) >>, budget |-> g] :
        a \in FewMasks, b \in FewMasks, c \in FewMasks, g \in 2 .. 24 }
    \cup { [kind |-> "bits", v |-> v, w |-> w, v2 |-> v, w2 |-> x] :
        v \in {0, 1, 1365, 4095}, w \in 1 .. 12, x \in 1 .. 12 }

\* What the owner of a reliable channel and the network guarantee (module
\* Reliability), with 65536 sequences, 1024 kept and 32 bits of ack: at most 33
\* messages in flight, and datagrams that do not outlive 990 more.
ASSUME ReliabilityAssumption ==
    /\ {SEQ_SPACE, ACK_BITS, KEEP, SPAN, LIFETIME, MAX_MESSAGES} \subseteq Nat
    /\ SEQ_SPACE > 0 /\ LIFETIME > 0 /\ SPAN > 0 /\ SEQ_SPACE = 2 * (SEQ_SPACE \div 2)
    /\ KEEP + SPAN < SEQ_SPACE \div 2
    /\ SPAN + LIFETIME <= KEEP + 1
    /\ SPAN <= ACK_BITS + 1 /\ ACK_BITS <= KEEP

ASSUME ServerAssumption == IsFiniteSet(Workers) /\ IsFiniteSet(Ops) /\ "none" \notin Ops

ASSUME LoopAssumption == REORDER_DEPTHS \subseteq Nat

\* The clock's units.  The factor is a fraction of ONE here and a double in
\* TimeDilation.h, where easing always moves a factor below full speed; the
\* fraction is fine enough for that if easing moves all it does not snap.
ASSUME ClockAssumption ==
    /\ {STEP, MAX_CATCH_UP, ONE, EASE_DOWN, EASE_UP, FREQUENCY} \subseteq Nat \ {0}
    /\ FLOOR \in 1 .. ONE /\ SNAP \in Nat /\ EASE_UP <= SNAP + 1
    /\ Elapsed \subseteq Nat /\ TickCosts \subseteq Nat \ {0}

Rel == INSTANCE Reliability WITH m_seenAny <- relSeenAny
Loop == INSTANCE LoopbackNetwork
Server == INSTANCE ServerMain
Codec == INSTANCE Wire
Clock == INSTANCE FixedStep

relVars == << m_nextMessage, m_inFlight, relWire, relSeenAny, m_latest, m_received, deliveries >>
loopVars == << m_imp, m_queues, m_holdBuffer, posted, got, binds >>
serverVars == << running, phase, ops, port, worker, lanesUp, inbound, arrived, failures,
                 pc, cfg, g_running, dbAvailable, persistUp, drained, routed, econEvents, made,
                 enqueued, committed, simTick, snapTick, stepped, outgoing, loops >>
wireVars == << input, decoded >>
clockVars == << real, m_last, framePhase, m_accumulator, m_simTickCount, m_stepsThisFrame, m_factor,
                m_qpcSecondCounter, m_totalTicks, m_framesThisSecond, m_framesPerSecond >>
channel == << vars, m_words >>

allVars == << part, channel, relVars, loopVars, serverVars, wireVars, clockVars >>

NoInput == [kind |-> "none"]

TransportInit ==
    /\ part \in {"channel", "reliability", "loopback", "server", "wire", "steps", "timer"}
    /\ MCInit /\ Rel!Init /\ Loop!Init /\ Clock!Init
    /\ Server!Init /\ (part # "server" => cfg.conn)
    /\ IF part = "wire" THEN Codec!Init ELSE input = NoInput /\ decoded = [done |-> FALSE, out |-> << >>]

ChannelNext ==
    /\ part = "channel" /\ MCNext
    /\ UNCHANGED << part, relVars, loopVars, serverVars, wireVars, clockVars >>
ReliabilityNext ==
    /\ part = "reliability" /\ Rel!Next
    /\ UNCHANGED << part, channel, loopVars, serverVars, wireVars, clockVars >>
LoopbackNext ==
    /\ part = "loopback" /\ Loop!Next
    /\ UNCHANGED << part, channel, relVars, serverVars, wireVars, clockVars >>
ServerNext ==
    /\ part = "server" /\ Server!Next
    /\ UNCHANGED << part, channel, relVars, loopVars, wireVars, clockVars >>
WireNext ==
    /\ part = "wire" /\ Codec!Next
    /\ UNCHANGED << part, channel, relVars, loopVars, serverVars, clockVars >>
StepsNext ==
    /\ part = "steps" /\ Clock!StepNext
    /\ UNCHANGED << part, channel, relVars, loopVars, serverVars, wireVars >>
TimerNext ==
    /\ part = "timer" /\ Clock!TimerNext
    /\ UNCHANGED << part, channel, relVars, loopVars, serverVars, wireVars >>

TransportNext ==
    \/ ChannelNext \/ ReliabilityNext \/ LoopbackNext \/ ServerNext \/ WireNext
    \/ StepsNext \/ TimerNext

TransportSpec == TransportInit /\ [][TransportNext]_allVars

(* The window is exact: its bits are the accepted numbers, and the words   *)
(* of the code are those bits (module SecureChannel, and WordsHoldBits).   *)
WindowExact == ChannelInv /\ WordsHoldBits
(* Reliable messages are delivered once and retired only then (module      *)
(* Reliability).                                                           *)
ReliabilityInv == part = "reliability" => Rel!ReliabilityInv
(* The test wire delivers what its settings promise (module                *)
(* LoopbackNetwork).                                                       *)
LoopbackInv == part = "loopback" => Loop!LoopbackInv
(* Receive threads, main loop and shutdown (module ServerMain).            *)
ServerInv == part = "server" => Server!ServerInv
(* The codecs on whole and cut input (module Wire).                        *)
WireFaithful == part = "wire" => Codec!WireFaithful
(* The clocks: less than a step is left over between frames, the           *)
(* simulation is never ahead of real time, the frame counter closes every  *)
(* second, and dilation recovers with every step inside its budget (module *)
(* FixedStep).                                                             *)
ClockKeepsTime ==
    /\ [](part = "steps" => Clock!RemainderBelowStep /\ Clock!NeverAhead)
    /\ [](part = "timer" => Clock!SecondsClose)
    /\ [][part = "steps" => Clock!RecoveryStep]_allVars
=============================================================================
