-------------------------- MODULE TransportProofs --------------------------
(***************************************************************************)
(* Machine-checked proofs about the transport, for every value of its      *)
(* constants: the window, as offsets and as the words that hold them, and  *)
(* the secure channel; the reliable channel over the wrap of its sequence  *)
(* numbers; the receive threads, the queue between them and main, and the  *)
(* end of the program; the clocks; the wire the tests run over.            *)
(***************************************************************************)
EXTENDS MCTransport, FiniteSetTheorems, SequenceTheorems, TLAPS

(* The part of the invariant that concerns the window alone. *)
WindowInv == WindowTypeOK /\ BitsRecordAccepted /\ NeverFreshTwice

(* SlideForward returns offsets of the window, and an offset is set after  *)
(* the slide exactly when the offset it came from was set.                 *)
LEMMA SlideForwardMoves ==
    ASSUME NEW bits \in SUBSET (0 .. (WINDOW_BITS - 1)), NEW shift \in Nat
    PROVE  /\ SlideForward(bits, shift) \subseteq 0 .. (WINDOW_BITS - 1)
           /\ \A o \in 0 .. (WINDOW_BITS - 1) :
                 o \in SlideForward(bits, shift) <=> (o >= shift /\ (o - shift) \in bits)
  BY DEF SlideForward

(* The window starts out empty. *)
LEMMA WindowInitInv == ASSUME WindowInit PROVE WindowInv
<1> USE DEF WindowInit
<1>1. 0 \in PacketNumbers
  BY WindowAssumption DEF PacketNumbers
<1>2. WindowTypeOK
  BY <1>1 DEF WindowTypeOK
<1>3. \A n \in PacketNumbers : accepted[n] = 0
  OBVIOUS
<1>4. BitsRecordAccepted
  BY <1>3 DEF BitsRecordAccepted
<1>5. NeverFreshTwice
  BY <1>3 DEF NeverFreshTwice
<1> QED BY <1>2, <1>4, <1>5 DEF WindowInv

(* CheckAndUpdate keeps the bits an exact record of the accepted numbers,  *)
(* which is why no number is fresh twice.                                  *)
LEMMA CheckAndUpdateInv ==
    ASSUME WindowInv, NEW n \in PacketNumbers, CheckAndUpdate(n)
    PROVE  WindowInv'
<1> USE WindowAssumption DEF WindowInv, PacketNumbers
<1>1. CASE ~m_seenAny /\ m_seenAny' = TRUE /\ m_highest' = n /\ m_bits' = m_bits \cup {0}
  <2>1. m_bits' = {0} /\ accepted' = [accepted EXCEPT ![n] = @ + 1]
    BY <1>1 DEF CheckAndUpdate, BitsRecordAccepted, Fresh, Ahead
  <2>2. \A k \in PacketNumbers : accepted[k] = 0
    BY <1>1 DEF BitsRecordAccepted, WindowTypeOK
  <2>3. WindowTypeOK'
    BY <1>1, <2>1 DEF CheckAndUpdate, WindowTypeOK
  <2>4. \A k \in PacketNumbers : accepted'[k] = IF k = n THEN 1 ELSE 0
    BY <2>1, <2>2 DEF WindowTypeOK
  <2>5. BitsRecordAccepted' /\ NeverFreshTwice'
    BY <1>1, <2>1, <2>3, <2>4 DEF CheckAndUpdate, BitsRecordAccepted, NeverFreshTwice, WindowTypeOK
  <2> QED BY <2>3, <2>5
<1>2. CASE /\ m_seenAny /\ n > m_highest /\ m_highest' = n /\ UNCHANGED m_seenAny
           /\ m_bits' = SlideForward(m_bits, n - m_highest) \cup {0}
  <2> DEFINE shift == n - m_highest
  <2>1. shift \in Nat /\ shift > 0 /\ m_bits \in SUBSET (0 .. (WINDOW_BITS - 1))
    BY <1>2 DEF WindowTypeOK
  <2>2. /\ m_bits' \subseteq 0 .. (WINDOW_BITS - 1)
        /\ \A o \in 0 .. (WINDOW_BITS - 1) :
              o \in m_bits' <=> (o = 0 \/ (o >= shift /\ (o - shift) \in m_bits))
    BY <1>2, <2>1, SlideForwardMoves
  <2>3. accepted' = [accepted EXCEPT ![n] = @ + 1] /\ accepted[n] = 0
    BY <1>2 DEF CheckAndUpdate, Fresh, Ahead, BitsRecordAccepted, WindowTypeOK
  <2>4. WindowTypeOK'
    BY <1>2, <2>2, <2>3 DEF CheckAndUpdate, WindowTypeOK
  <2>5. \A k \in PacketNumbers : accepted'[k] = IF k = n THEN 1 ELSE accepted[k]
    BY <2>3 DEF WindowTypeOK
  <2>6. NeverFreshTwice'
    BY <2>5 DEF NeverFreshTwice
  <2>7. ASSUME NEW k \in PacketNumbers
        PROVE  /\ accepted'[k] > 0 => m_seenAny' /\ k <= m_highest' /\ k \in offered'
               /\ (k <= m_highest' /\ m_highest' - k < WINDOW_BITS)
                     => ((m_highest' - k) \in m_bits' <=> accepted'[k] > 0)
    <3>1. accepted'[k] > 0 => m_seenAny' /\ k <= m_highest' /\ k \in offered'
      BY <1>2, <2>5 DEF CheckAndUpdate, BitsRecordAccepted, WindowTypeOK
    <3>2. ASSUME k <= n, n - k < WINDOW_BITS
          PROVE  (n - k) \in m_bits' <=> accepted'[k] > 0
      <4>1. (n - k) \in 0 .. (WINDOW_BITS - 1)
        BY <3>2
      <4>2. CASE k = n
        BY <4>1, <4>2, <2>2, <2>5
      <4>3. CASE k > m_highest /\ k # n
        <5>1. accepted'[k] = accepted[k] /\ ~(accepted[k] > 0)
          BY <4>3, <2>5 DEF BitsRecordAccepted, WindowTypeOK
        <5>2. n - k # 0 /\ ~(n - k >= shift)
          BY <4>3, <1>2 DEF WindowTypeOK
        <5> QED BY <5>1, <5>2, <4>1, <2>2
      <4>4. CASE k <= m_highest
        <5>1. /\ n - k # 0 /\ n - k >= shift /\ (n - k) - shift = m_highest - k
              /\ m_highest - k < WINDOW_BITS
          BY <4>4, <1>2, <3>2, <2>1 DEF WindowTypeOK
        <5>2. (m_highest - k) \in m_bits <=> accepted[k] > 0
          BY <5>1, <4>4, <1>2 DEF BitsRecordAccepted
        <5>3. accepted'[k] = accepted[k]
          BY <4>4, <1>2, <2>5 DEF WindowTypeOK
        <5> QED BY <5>1, <5>2, <5>3, <4>1, <2>2
      <4> QED BY <4>2, <4>3, <4>4 DEF WindowTypeOK
    <3> QED BY <3>1, <3>2, <1>2
  <2>8. BitsRecordAccepted'
    BY <1>2, <2>7 DEF BitsRecordAccepted
  <2> QED BY <2>4, <2>6, <2>8
<1>3. CASE /\ m_seenAny /\ n <= m_highest /\ UNCHANGED << m_seenAny, m_highest >>
           /\ m_bits' = IF Fresh(n) THEN m_bits \cup {m_highest - n} ELSE m_bits
  <2>1. CASE ~Fresh(n)
    BY <1>3, <2>1 DEF CheckAndUpdate, WindowTypeOK, BitsRecordAccepted, NeverFreshTwice
  <2>2. CASE Fresh(n)
    <3>1. m_highest - n < WINDOW_BITS /\ (m_highest - n) \notin m_bits /\ (m_highest - n) \in Nat
      BY <1>3, <2>2 DEF Fresh, Ahead, InWindow, WindowTypeOK
    <3>2. accepted[n] = 0 /\ accepted' = [accepted EXCEPT ![n] = @ + 1]
      BY <1>3, <2>2, <3>1 DEF CheckAndUpdate, BitsRecordAccepted, WindowTypeOK
    <3>3. \A k \in PacketNumbers : accepted'[k] = IF k = n THEN 1 ELSE accepted[k]
      BY <3>2 DEF WindowTypeOK
    <3>4. m_bits' = m_bits \cup {m_highest - n}
      BY <1>3, <2>2
    <3>5. WindowTypeOK'
      BY <1>3, <3>1, <3>2, <3>4 DEF CheckAndUpdate, WindowTypeOK
    <3>6. NeverFreshTwice'
      BY <3>3 DEF NeverFreshTwice
    <3>7. ASSUME NEW k \in PacketNumbers
          PROVE  /\ accepted'[k] > 0 => m_seenAny' /\ k <= m_highest' /\ k \in offered'
                 /\ (k <= m_highest' /\ m_highest' - k < WINDOW_BITS)
                       => ((m_highest' - k) \in m_bits' <=> accepted'[k] > 0)
      BY <1>3, <3>3, <3>4 DEF CheckAndUpdate, BitsRecordAccepted, WindowTypeOK
    <3>8. BitsRecordAccepted'
      BY <1>3, <3>7 DEF BitsRecordAccepted
    <3> QED BY <3>5, <3>6, <3>8
  <2> QED BY <2>1, <2>2
<1> QED BY <1>1, <1>2, <1>3 DEF CheckAndUpdate

(* Reset empties the window and the history. *)
LEMMA ResetInv == ASSUME Reset PROVE WindowInv'
<1> USE DEF Reset
<1>1. 0 \in PacketNumbers
  BY WindowAssumption DEF PacketNumbers
<1>2. WindowTypeOK'
  BY <1>1 DEF WindowTypeOK
<1>3. \A n \in PacketNumbers : accepted'[n] = 0
  OBVIOUS
<1>4. BitsRecordAccepted'
  BY <1>3 DEF BitsRecordAccepted
<1>5. NeverFreshTwice'
  BY <1>3 DEF NeverFreshTwice
<1> QED BY <1>2, <1>4, <1>5 DEF WindowInv

(* For every window width, the anti-replay window never declares a packet  *)
(* number fresh twice between two Resets.                                  *)
THEOREM WindowNeverFreshTwice == WindowSpec => []NeverFreshTwice
<1>1. WindowInit => WindowInv
  BY WindowInitInv
<1>2. ASSUME WindowInv, [WindowNext]_windowVars PROVE WindowInv'
  <2>1. CASE Reset
    BY <2>1, ResetInv
  <2>2. ASSUME NEW n \in PacketNumbers, CheckAndUpdate(n) PROVE WindowInv'
    BY <1>2, <2>2, CheckAndUpdateInv
  <2>3. CASE UNCHANGED windowVars
    BY <1>2, <2>3 DEF windowVars, WindowInv, WindowTypeOK, BitsRecordAccepted, NeverFreshTwice
  <2> QED BY <1>2, <2>1, <2>2, <2>3 DEF WindowNext
<1>3. WindowInv => NeverFreshTwice
  BY DEF WindowInv
<1> QED BY <1>1, <1>2, <1>3, PTL DEF WindowSpec

(* The channel's invariant holds initially. *)
LEMMA ChannelInitInv == ASSUME Init PROVE ChannelInv
<1>1. WindowInv
  BY WindowInitInv DEF Init
<1>2. m_sendCounter \in 0 .. (MAX_PACKET + 1)
  BY WindowAssumption DEF Init
<1>3. TypeOK
  BY <1>1, <1>2 DEF Init, TypeOK, WindowInv, OpenResults
<1>4. \A n \in PacketNumbers : delivered[n] = 0 /\ accepted[n] = 0
  BY DEF Init, WindowInit
<1>5. net = {}
  BY DEF Init
<1> QED BY <1>1, <1>3, <1>4, <1>5 DEF ChannelInv, WindowInv

(* Every step of the channel keeps it. *)
LEMMA ChannelStepInv == ASSUME ChannelInv, [Next]_vars PROVE ChannelInv'
<1>0. WindowInv
  BY DEF ChannelInv, TypeOK, WindowInv
<1> DEFINE WindowKept == UNCHANGED windowVars
<1>1. ASSUME WindowKept PROVE WindowInv'
  BY <1>0, <1>1 DEF windowVars, WindowInv, WindowTypeOK, BitsRecordAccepted, NeverFreshTwice
<1>2. CASE SetSenderKeys
  <2>1. WindowInv'
    BY <1>1, <1>2 DEF SetSenderKeys
  <2> QED BY <1>2, <2>1 DEF SetSenderKeys, ChannelInv, TypeOK, WindowInv, windowVars
<1>3. CASE SetReceiverKeys
  <2>1. WindowInv'
    BY <1>1, <1>3 DEF SetReceiverKeys
  <2> QED BY <1>3, <2>1 DEF SetReceiverKeys, ChannelInv, TypeOK, WindowInv, windowVars
<1>4. CASE Seal
  <2>1. WindowInv'
    BY <1>1, <1>4 DEF Seal
  <2>2. m_sendCounter \in PacketNumbers /\ m_sendCounter' \in 0 .. (MAX_PACKET + 1)
    BY <1>4, WindowAssumption DEF Seal, ChannelInv, TypeOK, PacketNumbers
  <2>3. TypeOK'
    BY <1>4, <2>1, <2>2 DEF Seal, ChannelInv, TypeOK, WindowInv
  <2>4. \A n \in net' : n < m_sendCounter'
    BY <1>4, <2>2 DEF Seal, ChannelInv, TypeOK, PacketNumbers
  <2> QED BY <1>4, <2>1, <2>3, <2>4 DEF Seal, ChannelInv, WindowInv, windowVars
<1>5. ASSUME NEW n \in PacketNumbers, NEW kind \in Kinds, Open(n, kind)
      PROVE  ChannelInv'
  <2>1. ASSUME NEW result \in OpenResults, OpenRefused(result) PROVE ChannelInv'
    <3>1. WindowInv'
      BY <1>1, <2>1 DEF OpenRefused
    <3> QED BY <2>1, <3>1 DEF OpenRefused, ChannelInv, TypeOK, WindowInv, windowVars
  <2>2. CASE recvHasKeys /\ kind \in {"sealed", "damaged"} /\ CheckAndUpdate(n)
             /\ openResult' = (IF ~Fresh(n) THEN "Replay"
                               ELSE IF kind = "sealed" THEN "Ok" ELSE "AuthFailure")
             /\ delivered' = (IF Fresh(n) /\ kind = "sealed"
                              THEN [delivered EXCEPT ![n] = @ + 1] ELSE delivered)
             /\ UNCHANGED << sendHasKeys, recvHasKeys, m_sendCounter, net >>
    <3>1. WindowInv'
      BY <1>0, <2>2, CheckAndUpdateInv
    <3>2. openResult' \in OpenResults
      BY <2>2 DEF OpenResults
    <3>3. delivered' \in [PacketNumbers -> Nat]
      BY <2>2 DEF ChannelInv, TypeOK
    <3>4. TypeOK'
      BY <2>2, <3>1, <3>2, <3>3 DEF ChannelInv, TypeOK, WindowInv
    <3>5. accepted' = IF Fresh(n) THEN [accepted EXCEPT ![n] = @ + 1] ELSE accepted
      BY <2>2 DEF CheckAndUpdate
    <3>6. \A k \in PacketNumbers : delivered'[k] <= accepted'[k]
      BY <2>2, <3>5 DEF ChannelInv, TypeOK, WindowTypeOK
    <3>7. kind = "sealed" => n \in net
      BY <1>5 DEF Open, Arrives
    <3>8. \A k \in PacketNumbers : delivered'[k] > 0 => k \in net'
      BY <2>2, <3>7 DEF ChannelInv, TypeOK
    <3> QED BY <2>2, <3>1, <3>4, <3>6, <3>8 DEF ChannelInv, WindowInv
  <2> QED BY <1>5, <2>1, <2>2 DEF Open, OpenResults
<1>6. CASE UNCHANGED vars
  <2>1. WindowInv'
    BY <1>1, <1>6 DEF vars
  <2> QED BY <1>6, <2>1 DEF vars, channelVars, ChannelInv, TypeOK, WindowInv, windowVars
<1> QED BY <1>2, <1>3, <1>4, <1>5, <1>6 DEF Next

(* Type correctness of the channel and its window, with the invariant that *)
(* the window's bits are an exact record of what Open has let through.     *)
THEOREM ChannelInvariant == Spec => []ChannelInv
  BY ChannelInitInv, ChannelStepInv, PTL DEF Spec

(* SecureChannel::Open hands a datagram to the application at most once,   *)
(* and only one its peer has sealed, for every window width and any        *)
(* repetition, reordering or damage on the network.                        *)
THEOREM ChannelDeliversAtMostOnce == Spec => []DeliveredAtMostOnce
<1>1. ASSUME ChannelInv PROVE DeliveredAtMostOnce
  BY <1>1 DEF ChannelInv, TypeOK, WindowTypeOK, NeverFreshTwice, DeliveredAtMostOnce, PacketNumbers
<1> QED BY <1>1, ChannelInvariant, PTL

(* A packet number never put to the window before, and not older than its  *)
(* tail, is accepted: SlideForward invents no bit.                         *)
THEOREM ChannelAcceptsFresh == Spec => FreshIsAccepted
<1> DEFINE A == \A n \in PacketNumbers :
                   (n \in offered' \ offered /\ (Ahead(n) \/ InWindow(n)))
                       => accepted'[n] = accepted[n] + 1
<1>1. ASSUME ChannelInv, [Next]_vars PROVE [A]_windowVars
  <2>1. ASSUME NEW n \in PacketNumbers, CheckAndUpdate(n) PROVE A
    <3>1. SUFFICES ASSUME n \notin offered, Ahead(n) \/ InWindow(n)
                   PROVE  accepted'[n] = accepted[n] + 1
      BY <2>1 DEF CheckAndUpdate
    <3>2. ~(accepted[n] > 0)
      BY <1>1, <3>1 DEF ChannelInv, BitsRecordAccepted
    <3>3. ~Ahead(n) => (m_highest - n) \notin m_bits
      BY <1>1, <3>1, <3>2 DEF ChannelInv, BitsRecordAccepted, Ahead, InWindow,
         TypeOK, WindowTypeOK, PacketNumbers
    <3>4. Fresh(n)
      BY <3>1, <3>3 DEF Fresh
    <3> QED BY <1>1, <2>1, <3>4 DEF CheckAndUpdate, ChannelInv, TypeOK, WindowTypeOK
  <2>2. (\E n \in PacketNumbers : CheckAndUpdate(n)) \/ UNCHANGED windowVars
    BY <1>1 DEF Next, SetSenderKeys, SetReceiverKeys, Seal, Open, OpenRefused, vars
  <2> QED BY <2>1, <2>2
<1> QED BY <1>1, ChannelInvariant, PTL DEF Spec, FreshIsAccepted

(***************************************************************************)
(* Sequence numbers                                                        *)
(***************************************************************************)
LEMMA SpaceIs ==
    /\ SEQ_SPACE \in Nat /\ SEQ_SPACE > 0 /\ Rel!Half \in Nat /\ SEQ_SPACE = 2 * Rel!Half
    /\ ACK_BITS \in Nat /\ KEEP \in Nat /\ SPAN \in Nat /\ LIFETIME \in Nat /\ MAX_MESSAGES \in Nat
    /\ KEEP + SPAN < Rel!Half /\ SPAN + LIFETIME <= KEEP + 1 /\ LIFETIME > 0 /\ SPAN > 0
    /\ SPAN <= ACK_BITS + 1 /\ ACK_BITS <= KEEP
<1>1. SEQ_SPACE \div 2 \in Nat
  BY ReliabilityAssumption
<1> QED
  BY <1>1, ReliabilityAssumption DEF Rel!Half

(* Division with a remainder: it exists, and there is one. *)
LEMMA Divided ==
    ASSUME NEW a \in Int
    PROVE  \E q \in Int, r \in 0 .. SEQ_SPACE - 1 : a = SEQ_SPACE * q + r /\ a % SEQ_SPACE = r
<1>1. SEQ_SPACE \in Nat \ {0}
  BY SpaceIs
<1>2. a % SEQ_SPACE \in 0 .. SEQ_SPACE - 1
  BY <1>1
<1>3. a \div SEQ_SPACE \in Int
  BY <1>1
<1>4. a = SEQ_SPACE * (a \div SEQ_SPACE) + (a % SEQ_SPACE)
  BY <1>1
<1> QED
  BY <1>2, <1>3, <1>4

LEMMA DividedOnce ==
    ASSUME NEW p \in Int, NEW q \in Int, NEW d \in Int, d = SEQ_SPACE * p - SEQ_SPACE * q,
           d < SEQ_SPACE, 0 - SEQ_SPACE < d
    PROVE  p = q /\ d = 0
<1>1. d = SEQ_SPACE * (p - q)
  BY SpaceIs
<1>2. p - q >= 1 => SEQ_SPACE * (p - q) >= SEQ_SPACE
  BY SpaceIs
<1>3. p - q <= 0 - 1 => SEQ_SPACE * (p - q) <= 0 - SEQ_SPACE
  BY SpaceIs
<1>4. p = q
  BY <1>1, <1>2, <1>3, SpaceIs
<1> QED
  BY <1>1, <1>4, SpaceIs

LEMMA RemainderIs ==
    ASSUME NEW q \in Int, NEW r \in 0 .. SEQ_SPACE - 1, NEW a \in Int, a = SEQ_SPACE * q + r
    PROVE  a % SEQ_SPACE = r
<1>1. PICK p \in Int, t \in 0 .. SEQ_SPACE - 1 : a = SEQ_SPACE * p + t /\ a % SEQ_SPACE = t
  BY Divided
<1>2. PICK d \in Int : d = r - t
  OBVIOUS
<1>3. d = SEQ_SPACE * p - SEQ_SPACE * q /\ d < SEQ_SPACE /\ 0 - SEQ_SPACE < d
  BY <1>1, <1>2, SpaceIs
<1>4. d = 0
  BY <1>3, DividedOnce
<1> QED
  BY <1>1, <1>2, <1>4

(* Two numbers less than the space apart have different sequences. *)
LEMMA SameSequence ==
    ASSUME NEW a \in Int, NEW b \in Int, a - b < SEQ_SPACE, b - a < SEQ_SPACE,
           Rel!Seq16(a) = Rel!Seq16(b)
    PROVE  a = b
<1>1. PICK p \in Int, r \in 0 .. SEQ_SPACE - 1 : a = SEQ_SPACE * p + r /\ a % SEQ_SPACE = r
  BY Divided
<1>2. PICK q \in Int, t \in 0 .. SEQ_SPACE - 1 : b = SEQ_SPACE * q + t /\ b % SEQ_SPACE = t
  BY Divided
<1>3. PICK d \in Int : d = a - b
  OBVIOUS
<1>4. d = SEQ_SPACE * p - SEQ_SPACE * q
  BY <1>1, <1>2, <1>3, SpaceIs DEF Rel!Seq16
<1>5. d < SEQ_SPACE /\ 0 - SEQ_SPACE < d
  BY <1>3, SpaceIs
<1>6. d = 0
  BY <1>4, <1>5, DividedOnce
<1> QED
  BY <1>3, <1>6

(* Arithmetic on sequences is arithmetic on the numbers. *)
LEMMA SequenceMinus ==
    ASSUME NEW a \in Int, NEW c \in Int
    PROVE  Rel!Seq16(Rel!Seq16(a) - c) = Rel!Seq16(a - c)
<1>1. PICK p \in Int, r \in 0 .. SEQ_SPACE - 1 : a = SEQ_SPACE * p + r /\ a % SEQ_SPACE = r
  BY Divided
<1>2. r - c \in Int
  OBVIOUS
<1>3. PICK q \in Int, t \in 0 .. SEQ_SPACE - 1 : r - c = SEQ_SPACE * q + t /\ (r - c) % SEQ_SPACE = t
  BY <1>2, Divided
<1>4. a - c = SEQ_SPACE * (p + q) + t /\ p + q \in Int /\ a - c \in Int
  BY <1>1, <1>3, SpaceIs
<1>5. (a - c) % SEQ_SPACE = t
  BY <1>4, RemainderIs
<1> QED
  BY <1>1, <1>3, <1>5 DEF Rel!Seq16

LEMMA SequenceDiff ==
    ASSUME NEW a \in Int, NEW b \in Int, a - b < Rel!Half, b - a < Rel!Half
    PROVE  Rel!SeqDiff(Rel!Seq16(a), Rel!Seq16(b)) = a - b
<1>1. PICK p \in Int, r \in 0 .. SEQ_SPACE - 1 : a = SEQ_SPACE * p + r /\ a % SEQ_SPACE = r
  BY Divided
<1>2. PICK q \in Int, t \in 0 .. SEQ_SPACE - 1 : b = SEQ_SPACE * q + t /\ b % SEQ_SPACE = t
  BY Divided
<1>3. r - t = SEQ_SPACE * (q - p) + (a - b) /\ q - p \in Int /\ r - t \in Int /\ a - b \in Int
  BY <1>1, <1>2, SpaceIs
<1>4. CASE a - b >= 0
  <2>1. a - b \in 0 .. SEQ_SPACE - 1
    BY <1>4, SpaceIs
  <2>2. (r - t) % SEQ_SPACE = a - b
    BY <1>3, <2>1, RemainderIs
  <2> QED
    BY <1>1, <1>2, <2>2, SpaceIs DEF Rel!SeqDiff, Rel!Seq16
<1>5. CASE a - b < 0
  <2>1. a - b + SEQ_SPACE \in 0 .. SEQ_SPACE - 1
    BY <1>5, SpaceIs
  <2>2. r - t = SEQ_SPACE * (q - p - 1) + (a - b + SEQ_SPACE) /\ q - p - 1 \in Int
    <3>1. SEQ_SPACE * (q - p - 1) = SEQ_SPACE * (q - p) - SEQ_SPACE
      BY SpaceIs
    <3> QED
      BY <1>3, <3>1, SpaceIs
  <2>3. (r - t) % SEQ_SPACE = a - b + SEQ_SPACE
    BY <1>3, <2>1, <2>2, RemainderIs
  <2>4. a - b + SEQ_SPACE >= Rel!Half
    BY SpaceIs
  <2> QED
    BY <1>1, <1>2, <2>3, <2>4, SpaceIs DEF Rel!SeqDiff, Rel!Seq16
<1> QED
  BY <1>4, <1>5

LEMMA SequenceGreater ==
    ASSUME NEW a \in Int, NEW b \in Int, a - b < Rel!Half, b - a < Rel!Half
    PROVE  Rel!SeqGreater(Rel!Seq16(a), Rel!Seq16(b)) <=> a > b
<1>1. PICK p \in Int, r \in 0 .. SEQ_SPACE - 1 : a = SEQ_SPACE * p + r /\ a % SEQ_SPACE = r
  BY Divided
<1>2. PICK q \in Int, t \in 0 .. SEQ_SPACE - 1 : b = SEQ_SPACE * q + t /\ b % SEQ_SPACE = t
  BY Divided
<1>3. a - b = SEQ_SPACE * (p - q) + (r - t)
  BY <1>1, <1>2, SpaceIs
<1>4. p - q >= 2 => SEQ_SPACE * (p - q) >= 2 * SEQ_SPACE
  BY SpaceIs
<1>5. p - q <= 0 - 2 => SEQ_SPACE * (p - q) <= 0 - 2 * SEQ_SPACE
  BY SpaceIs
<1>6. p - q \in {0 - 1, 0, 1}
  BY <1>3, <1>4, <1>5, SpaceIs
<1>7. CASE p - q = 0
  <2>1. a - b = r - t
    BY <1>3, <1>7, SpaceIs
  <2> QED
    BY <1>1, <1>2, <2>1, SpaceIs DEF Rel!SeqGreater, Rel!Seq16
<1>8. CASE p - q = 1
  <2>1. a - b = SEQ_SPACE + (r - t)
    BY <1>3, <1>8, SpaceIs
  <2> QED
    BY <1>1, <1>2, <2>1, SpaceIs DEF Rel!SeqGreater, Rel!Seq16
<1>9. CASE p - q = 0 - 1
  <2>1. a - b = (r - t) - SEQ_SPACE
    BY <1>3, <1>9, SpaceIs
  <2> QED
    BY <1>1, <1>2, <2>1, SpaceIs DEF Rel!SeqGreater, Rel!Seq16
<1> QED
  BY <1>6, <1>7, <1>8, <1>9

(***************************************************************************)
(* The reliable channel                                                    *)
(***************************************************************************)
Numbers16 == 0 .. MAX_MESSAGES - 1

InFlightSound(F, n) ==
    \A f \in F : /\ f = [seq |-> Rel!Seq16(f.msg), msg |-> f.msg]
                 /\ f.msg \in Nat /\ f.msg < n /\ n - f.msg <= SPAN

(* A datagram on the wire when n messages have been sent: how old it is,   *)
(* and how far behind the sender it was when it was made.                  *)
Young(d, n) == d.born \in Nat /\ d.born <= n /\ n - d.born <= LIFETIME

DataSound(d, n) ==
    d.msg \in Nat /\ d.msg < n /\ d.seq = Rel!Seq16(d.msg) /\ d.born - d.msg <= SPAN

AckOf(l, bits, del) ==
    \A i \in bits : i \in 0 .. ACK_BITS - 1 /\ l - 1 - i \in Nat /\ del[l - 1 - i] >= 1

AckSound(d, n, del) ==
    \E l \in Nat : /\ l < n /\ del[l] >= 1 /\ d.ack = Rel!Seq16(l) /\ d.born - l <= SPAN + 1
                   /\ AckOf(l, d.ackBits, del)

OnWireSound(w, n, del) ==
    \A d \in w : /\ Young(d, n)
                 /\ d.kind = "data" => DataSound(d, n)
                 /\ d.kind = "ack" => AckSound(d, n, del)

AllArrived(F, n, del) == \A k \in 0 .. n - 1 : del[k] >= 1 \/ \E f \in F : f.msg = k

(* What the receiver remembers when l is the newest number it has seen.    *)
Kept(l, del) == { k \in 0 .. l : l - k <= KEEP /\ del[k] >= 1 }

Remembers(l, n, del, latest, received) ==
    /\ l \in Nat /\ l < n /\ del[l] >= 1 /\ \A k \in Numbers16 : k > l => del[k] = 0
    /\ latest = Rel!Seq16(l)
    /\ received = { Rel!Seq16(k) : k \in Kept(l, del) }

ReceiverSound(n, del, seen, latest, received) ==
    /\ seen \in BOOLEAN
    /\ seen => \E l \in Nat : Remembers(l, n, del, latest, received)
    /\ ~seen => \A k \in Numbers16 : del[k] = 0

ReliabilityIInv ==
    /\ m_nextMessage \in 0 .. MAX_MESSAGES
    /\ deliveries \in [Numbers16 -> {0, 1}]
    /\ \A k \in Numbers16 : deliveries[k] >= 1 => k < m_nextMessage
    /\ InFlightSound(m_inFlight, m_nextMessage)
    /\ OnWireSound(relWire, m_nextMessage, deliveries)
    /\ AllArrived(m_inFlight, m_nextMessage, deliveries)
    /\ ReceiverSound(m_nextMessage, deliveries, relSeenAny, m_latest, m_received)

-----------------------------------------------------------------------------
(* What has not been retired has arrived, so the newest number seen is     *)
(* less than a span behind the sender.                                     *)
LEMMA NewestIsNear ==
    ASSUME ReliabilityIInv, NEW l \in Nat, l < m_nextMessage,
           \A k \in Numbers16 : k > l => deliveries[k] = 0
    PROVE  m_nextMessage - l <= SPAN + 1
<1> SUFFICES ASSUME m_nextMessage - l > SPAN + 1 PROVE FALSE
  BY SpaceIs DEF ReliabilityIInv
<1>1. PICK k \in Int : k = m_nextMessage - SPAN - 1
  BY SpaceIs DEF ReliabilityIInv
<1>2. k \in 0 .. m_nextMessage - 1 /\ k > l /\ k \in Numbers16
  BY <1>1, SpaceIs DEF ReliabilityIInv, Numbers16
<1>3. ~(deliveries[k] >= 1)
  BY <1>2
<1>4. PICK f \in m_inFlight : f.msg = k
  BY <1>2, <1>3 DEF ReliabilityIInv, AllArrived
<1>5. m_nextMessage - k <= SPAN
  BY <1>4 DEF ReliabilityIInv, InFlightSound
<1> QED
  BY <1>1, <1>5, SpaceIs DEF ReliabilityIInv

(* The receiver's acknowledgement names only what it has seen. *)
LEMMA AckIsTrue ==
    ASSUME NEW l, NEW n \in Nat, NEW del, NEW received,
           Remembers(l, n, del, m_latest, m_received)
    PROVE  AckOf(l, Rel!AckBits, del)
<1> SUFFICES ASSUME NEW i \in Rel!AckBits
             PROVE  i \in 0 .. ACK_BITS - 1 /\ l - 1 - i \in Nat /\ del[l - 1 - i] >= 1
  BY DEF AckOf
<1>1. i \in 0 .. ACK_BITS - 1 /\ Rel!Seq16(m_latest - 1 - i) \in m_received /\ l \in Nat
  BY DEF Rel!AckBits, Remembers
<1>2. PICK k \in Kept(l, del) : Rel!Seq16(m_latest - 1 - i) = Rel!Seq16(k)
  BY <1>1 DEF Remembers
<1>3. Rel!Seq16(m_latest - 1 - i) = Rel!Seq16(l - 1 - i)
  <2>1. Rel!Seq16(Rel!Seq16(l) - (1 + i)) = Rel!Seq16(l - (1 + i))
    BY <1>1, SequenceMinus, SpaceIs
  <2>2. m_latest = Rel!Seq16(l) /\ m_latest \in Int
    BY <1>1, Divided DEF Remembers, Rel!Seq16
  <2>3. m_latest - (1 + i) = m_latest - 1 - i /\ l - (1 + i) = l - 1 - i
    BY <1>1, <2>2, SpaceIs
  <2> QED
    BY <2>1, <2>2, <2>3
<1>4. k \in Nat /\ k <= l /\ l - k <= KEEP /\ del[k] >= 1
  BY <1>1 DEF Kept
<1>5. PICK b \in Int : b = l - 1 - i
  BY <1>1, SpaceIs
<1>6. k - b < SEQ_SPACE /\ b - k < SEQ_SPACE
  BY <1>1, <1>4, <1>5, SpaceIs
<1>7. k = b
  BY <1>2, <1>3, <1>4, <1>5, <1>6, SameSequence
<1> QED
  BY <1>1, <1>4, <1>5, <1>7

(* An acknowledgement on the wire, however late, retires only what arrived. *)
LEMMA AckRetiresArrived ==
    ASSUME ReliabilityIInv, NEW d \in relWire, d.kind = "ack", NEW f \in m_inFlight,
           f.seq \in Rel!Acked(d.ack, d.ackBits)
    PROVE  deliveries[f.msg] >= 1
<1>1. PICK n \in Nat, m \in Nat : n = m_nextMessage /\ m = f.msg
  BY DEF ReliabilityIInv, InFlightSound
<1>2. m < n /\ n - m <= SPAN /\ f.seq = Rel!Seq16(m)
  BY <1>1 DEF ReliabilityIInv, InFlightSound
<1>3. PICK born \in Nat, l \in Nat :
         /\ n - born <= LIFETIME /\ born - l <= SPAN + 1 /\ l < n
         /\ d.ack = Rel!Seq16(l) /\ deliveries[l] >= 1 /\ AckOf(l, d.ackBits, deliveries)
  BY <1>1 DEF ReliabilityIInv, OnWireSound, Young, AckSound
<1>4. CASE f.seq = d.ack
  <2>1. l - m < SEQ_SPACE /\ m - l < SEQ_SPACE /\ l \in Int /\ m \in Int
    BY <1>1, <1>2, <1>3, SpaceIs
  <2>2. Rel!Seq16(l) = Rel!Seq16(m)
    BY <1>2, <1>3, <1>4
  <2>3. l = m
    BY <2>1, <2>2, SameSequence
  <2> QED
    BY <1>1, <1>3, <2>3
<1>5. ASSUME NEW i \in d.ackBits, f.seq = Rel!Seq16(d.ack - 1 - i) PROVE deliveries[f.msg] >= 1
  <2>1. PICK b \in Nat : b = l - 1 - i
    BY <1>3 DEF AckOf
  <2>2. i \in 0 .. ACK_BITS - 1 /\ deliveries[b] >= 1
    BY <1>3, <2>1 DEF AckOf
  <2>3. Rel!Seq16(d.ack - 1 - i) = Rel!Seq16(b)
    <3>1. Rel!Seq16(Rel!Seq16(l) - (1 + i)) = Rel!Seq16(l - (1 + i))
      BY <2>2, SequenceMinus, SpaceIs
    <3>2. d.ack = Rel!Seq16(l) /\ d.ack \in Int
      BY <1>3, Divided DEF Rel!Seq16
    <3>3. d.ack - (1 + i) = d.ack - 1 - i /\ l - (1 + i) = l - 1 - i
      BY <2>2, <3>2, SpaceIs
    <3> QED
      BY <2>1, <3>1, <3>2, <3>3
  <2>4. b - m < SEQ_SPACE /\ m - b < SEQ_SPACE /\ b \in Int /\ m \in Int
    BY <1>1, <1>2, <1>3, <2>1, <2>2, SpaceIs
  <2>6. Rel!Seq16(b) = Rel!Seq16(m)
    BY <1>2, <1>5, <2>3
  <2>5. b = m
    BY <2>4, <2>6, SameSequence
  <2> QED
    BY <1>1, <2>2, <2>5
<1> QED
  BY <1>4, <1>5 DEF Rel!Acked

(* A message that arrived and is still in flight is in the next ack. *)
LEMMA ArrivedIsInAck ==
    ASSUME ReliabilityIInv, NEW f \in m_inFlight, deliveries[f.msg] >= 1
    PROVE  f.seq \in Rel!Acked(m_latest, Rel!AckBits)
<1>1. PICK n \in Nat, m \in Nat : n = m_nextMessage /\ m = f.msg
  BY DEF ReliabilityIInv, InFlightSound
<1>2. m < n /\ n - m <= SPAN /\ f.seq = Rel!Seq16(m) /\ m \in Numbers16
  BY <1>1, SpaceIs, SMTT(60) DEF ReliabilityIInv, InFlightSound, Numbers16
<1>3. relSeenAny
  BY <1>1, <1>2 DEF ReliabilityIInv, ReceiverSound
<1>4. PICK l \in Nat : Remembers(l, n, deliveries, m_latest, m_received)
  BY <1>1, <1>3 DEF ReliabilityIInv, ReceiverSound
<1>5. m <= l /\ l < n /\ m_latest = Rel!Seq16(l)
  BY <1>1, <1>2, <1>4 DEF Remembers
<1>6. CASE m = l
  BY <1>2, <1>5, <1>6 DEF Rel!Acked
<1>7. CASE m < l
  <2>1. PICK i \in Int : i = l - 1 - m
    OBVIOUS
  <2>2. i \in 0 .. ACK_BITS - 1
    BY <1>2, <1>5, <1>7, <2>1, SpaceIs
  <2>3. Rel!Seq16(m_latest - 1 - i) = Rel!Seq16(m)
    <3>1. Rel!Seq16(Rel!Seq16(l) - (1 + i)) = Rel!Seq16(l - (1 + i))
      BY <2>2, SequenceMinus, SpaceIs
    <3>2. m_latest \in Int
      BY <1>5, Divided DEF Rel!Seq16
    <3>3. m_latest - (1 + i) = m_latest - 1 - i /\ l - (1 + i) = m
      BY <2>1, <2>2, <3>2, SpaceIs
    <3> QED
      BY <1>5, <3>1, <3>3
  <2>4. m \in Kept(l, deliveries)
    BY <1>1, <1>2, <1>5, SpaceIs DEF Kept
  <2>5. Rel!Seq16(m) \in m_received
    BY <1>4, <2>4 DEF Remembers
  <2>6. i \in Rel!AckBits
    BY <2>2, <2>3, <2>5 DEF Rel!AckBits
  <2> QED
    BY <1>2, <2>3, <2>6 DEF Rel!Acked
<1> QED
  BY <1>5, <1>6, <1>7

-----------------------------------------------------------------------------
(* The network adds at most the datagram it was given. *)
LEMMA CarryAdds ==
    ASSUME NEW held, NEW d, Rel!Carry(held, d)
    PROVE  relWire' \subseteq held \cup {d}
BY DEF Rel!Carry

(* What is on the wire stays sound while messages are sent and delivered. *)
LEMMA AckSoundGrows ==
    ASSUME NEW n \in Nat, NEW m \in Nat, n <= m, NEW del, NEW new, NEW d,
           \A k \in 0 .. n - 1 : del[k] >= 1 => new[k] >= 1, AckSound(d, n, del)
    PROVE  AckSound(d, m, new)
<1>1. PICK l \in Nat : /\ l < n /\ del[l] >= 1 /\ d.ack = Rel!Seq16(l) /\ d.born - l <= SPAN + 1
                       /\ AckOf(l, d.ackBits, del)
  BY DEF AckSound
<1>2. AckOf(l, d.ackBits, new)
  <2> SUFFICES ASSUME NEW i \in d.ackBits
               PROVE  i \in 0 .. ACK_BITS - 1 /\ l - 1 - i \in Nat /\ new[l - 1 - i] >= 1
    BY DEF AckOf
  <2>1. i \in 0 .. ACK_BITS - 1 /\ l - 1 - i \in Nat /\ del[l - 1 - i] >= 1
    BY <1>1 DEF AckOf
  <2>2. l - 1 - i \in 0 .. n - 1
    BY <1>1, <2>1, SpaceIs
  <2> QED
    BY <2>1, <2>2
<1>3. l < m /\ new[l] >= 1
  BY <1>1
<1> QED
  BY <1>1, <1>2, <1>3 DEF AckSound

LEMMA OnWireGrows ==
    ASSUME NEW n \in Nat, NEW m \in Nat, n <= m, NEW del, NEW new, NEW w, NEW x,
           \A k \in 0 .. n - 1 : del[k] >= 1 => new[k] >= 1,
           OnWireSound(w, n, del), x \subseteq w, \A d \in x : Young(d, m)
    PROVE  OnWireSound(x, m, new)
<1> SUFFICES ASSUME NEW d \in x
             PROVE  /\ Young(d, m)
                    /\ d.kind = "data" => DataSound(d, m)
                    /\ d.kind = "ack" => AckSound(d, m, new)
  BY DEF OnWireSound
<1>1. d.kind = "data" => DataSound(d, m)
  BY DEF OnWireSound, DataSound
<1>2. d.kind = "ack" => AckSound(d, m, new)
  BY AckSoundGrows DEF OnWireSound
<1> QED
  BY <1>1, <1>2

LEMMA OnWireJoins ==
    ASSUME NEW n, NEW del, NEW w, NEW d, NEW x, OnWireSound(w, n, del), Young(d, n),
           d.kind = "data" => DataSound(d, n), d.kind = "ack" => AckSound(d, n, del),
           x \subseteq w \cup {d}
    PROVE  OnWireSound(x, n, del)
BY DEF OnWireSound

LEMMA ReliabilityHolds ==
    ASSUME Rel!Init PROVE ReliabilityIInv
<1>1. m_nextMessage \in 0 .. MAX_MESSAGES /\ m_nextMessage = 0
  BY SpaceIs DEF Rel!Init
<1>2. deliveries \in [Numbers16 -> {0, 1}] /\ \A k \in Numbers16 : deliveries[k] = 0
  BY DEF Rel!Init, Numbers16
<1>3. InFlightSound(m_inFlight, m_nextMessage) /\ OnWireSound(relWire, m_nextMessage, deliveries)
  BY DEF Rel!Init, InFlightSound, OnWireSound
<1>4. AllArrived(m_inFlight, m_nextMessage, deliveries)
  BY DEF Rel!Init, AllArrived
<1>5. ReceiverSound(m_nextMessage, deliveries, relSeenAny, m_latest, m_received)
  BY <1>2 DEF Rel!Init, ReceiverSound
<1> QED
  BY <1>1, <1>2, <1>3, <1>4, <1>5 DEF ReliabilityIInv

LEMMA ReliabilityUnchanged ==
    ASSUME ReliabilityIInv, UNCHANGED relVars PROVE ReliabilityIInv'
BY DEF relVars, ReliabilityIInv, InFlightSound, OnWireSound, AllArrived, ReceiverSound

(* Sending frees no sequence still in flight, and lets the oldest datagrams expire. *)
LEMMA SendSound ==
    ASSUME ReliabilityIInv, Rel!Send PROVE ReliabilityIInv'
<1>1. PICK n \in Nat : n = m_nextMessage
  BY DEF ReliabilityIInv
<1>2. /\ n < MAX_MESSAGES /\ m_nextMessage' = n + 1
      /\ \A f \in m_inFlight : n - f.msg < SPAN
      /\ m_inFlight' = { f \in m_inFlight : f.seq # Rel!Seq16(n) }
                         \cup {[seq |-> Rel!Seq16(n), msg |-> n]}
      /\ UNCHANGED << relSeenAny, m_latest, m_received, deliveries >>
  BY <1>1 DEF Rel!Send
<1>3. relWire' \subseteq Rel!Surviving(n) \cup {Rel!Data(n)}
  BY <1>1, CarryAdds DEF Rel!Send
<1>4. InFlightSound(m_inFlight', n + 1)
  <2> SUFFICES ASSUME NEW f \in m_inFlight'
               PROVE  /\ f = [seq |-> Rel!Seq16(f.msg), msg |-> f.msg]
                      /\ f.msg \in Nat /\ f.msg < n + 1 /\ n + 1 - f.msg <= SPAN
    BY DEF InFlightSound
  <2>1. CASE f \in m_inFlight
    BY <1>1, <1>2, <2>1, SpaceIs DEF ReliabilityIInv, InFlightSound
  <2>2. CASE f = [seq |-> Rel!Seq16(n), msg |-> n]
    BY <1>1, <2>2, SpaceIs
  <2> QED
    BY <1>2, <2>1, <2>2
<1>5. OnWireSound(relWire', n + 1, deliveries)
  <2>1. \A d \in Rel!Surviving(n) : Young(d, n + 1)
    BY <1>1, SpaceIs DEF ReliabilityIInv, OnWireSound, Rel!Surviving, Young
  <2>2. Rel!Surviving(n) \subseteq relWire
    BY DEF Rel!Surviving
  <2>3. n + 1 \in Nat /\ n <= n + 1 /\ OnWireSound(relWire, n, deliveries)
    BY <1>1 DEF ReliabilityIInv
  <2>4. OnWireSound(Rel!Surviving(n), n + 1, deliveries)
    BY <2>1, <2>2, <2>3, OnWireGrows
  <2>5. PICK d : d = Rel!Data(n)
    OBVIOUS
  <2>6. d.kind = "data" /\ d.seq = Rel!Seq16(n) /\ d.msg = n /\ d.born = n
    BY <1>1, <2>5 DEF Rel!Data
  <2>7. Young(d, n + 1) /\ DataSound(d, n + 1)
    BY <2>6, SpaceIs DEF Young, DataSound
  <2> QED
    BY <1>3, <2>4, <2>5, <2>6, <2>7, OnWireJoins
<1>6. AllArrived(m_inFlight', n + 1, deliveries)
  <2> SUFFICES ASSUME NEW k \in 0 .. n, ~(deliveries[k] >= 1)
               PROVE  \E f \in m_inFlight' : f.msg = k
    BY DEF AllArrived
  <2>1. CASE k = n
    <3>1. [seq |-> Rel!Seq16(n), msg |-> n] \in m_inFlight'
      BY <1>2
    <3> QED
      BY <2>1, <3>1
  <2>2. CASE k < n
    <3>1. PICK f \in m_inFlight : f.msg = k
      BY <1>1, <2>2 DEF ReliabilityIInv, AllArrived
    <3>2. f.seq = Rel!Seq16(k) /\ n - k <= SPAN
      BY <1>1, <3>1 DEF ReliabilityIInv, InFlightSound
    <3>3. Rel!Seq16(k) # Rel!Seq16(n)
      <4>1. k \in Int /\ n \in Int /\ k - n < SEQ_SPACE /\ n - k < SEQ_SPACE
        BY <2>2, <3>2, SpaceIs
      <4> QED
        BY <2>2, <4>1, SameSequence
    <3> QED
      BY <1>2, <3>1, <3>2, <3>3
  <2> QED
    BY <2>1, <2>2
<1>7. ReceiverSound(n + 1, deliveries, relSeenAny, m_latest, m_received)
  <2>1. ReceiverSound(n, deliveries, relSeenAny, m_latest, m_received)
    BY <1>1 DEF ReliabilityIInv
  <2>2. ASSUME NEW l \in Nat, Remembers(l, n, deliveries, m_latest, m_received)
        PROVE  Remembers(l, n + 1, deliveries, m_latest, m_received)
    BY <2>2 DEF Remembers
  <2> QED
    BY <2>1, <2>2 DEF ReceiverSound
<1>8. m_nextMessage' \in 0 .. MAX_MESSAGES /\ \A k \in Numbers16 : deliveries[k] >= 1 => k < n + 1
  BY <1>1, <1>2, SpaceIs DEF ReliabilityIInv, Numbers16
<1> QED
  BY <1>1, <1>2, <1>4, <1>5, <1>6, <1>7, <1>8 DEF ReliabilityIInv

(* A retransmission is the same message, with the sender no further ahead. *)
LEMMA CollectSound ==
    ASSUME ReliabilityIInv, NEW f \in m_inFlight, Rel!CollectTimedOut(f) PROVE ReliabilityIInv'
<1>1. PICK n \in Nat : n = m_nextMessage
  BY DEF ReliabilityIInv
<1>2. UNCHANGED << m_nextMessage, m_inFlight, relSeenAny, m_latest, m_received, deliveries >>
  BY DEF Rel!CollectTimedOut
<1>3. relWire' \subseteq relWire \cup {Rel!Data(f.msg)}
  BY CarryAdds DEF Rel!CollectTimedOut
<1>4. OnWireSound(relWire', n, deliveries)
  <2>1. PICK d : d = Rel!Data(f.msg)
    OBVIOUS
  <2>2. d.kind = "data" /\ d.seq = Rel!Seq16(f.msg) /\ d.msg = f.msg /\ d.born = n
    BY <1>1, <2>1 DEF Rel!Data
  <2>3. f.msg \in Nat /\ f.msg < n /\ n - f.msg <= SPAN
    BY <1>1 DEF ReliabilityIInv, InFlightSound
  <2>4. Young(d, n) /\ DataSound(d, n)
    BY <2>2, <2>3, SpaceIs DEF Young, DataSound
  <2>5. OnWireSound(relWire, n, deliveries)
    BY <1>1 DEF ReliabilityIInv
  <2> QED
    BY <1>3, <2>1, <2>2, <2>4, <2>5, OnWireJoins
<1> QED
  BY <1>1, <1>2, <1>4 DEF ReliabilityIInv, InFlightSound, AllArrived, ReceiverSound

LEMMA SendAckSound ==
    ASSUME ReliabilityIInv, Rel!SendAck PROVE ReliabilityIInv'
<1>1. PICK n \in Nat : n = m_nextMessage
  BY DEF ReliabilityIInv
<1>2. /\ UNCHANGED << m_nextMessage, m_inFlight, relSeenAny, m_latest, m_received, deliveries >>
      /\ relSeenAny
  BY DEF Rel!SendAck
<1>3. PICK d : d = [kind |-> "ack", ack |-> m_latest, ackBits |-> Rel!AckBits, born |-> m_nextMessage]
  OBVIOUS
<1>4. relWire' \subseteq relWire \cup {d}
  BY <1>3, CarryAdds DEF Rel!SendAck
<1>5. PICK l \in Nat : Remembers(l, n, deliveries, m_latest, m_received)
  BY <1>1, <1>2 DEF ReliabilityIInv, ReceiverSound
<1>6. n - l <= SPAN + 1 /\ l < n /\ deliveries[l] >= 1 /\ m_latest = Rel!Seq16(l)
  BY <1>1, <1>5, NewestIsNear DEF Remembers
<1>7. AckOf(l, Rel!AckBits, deliveries)
  BY <1>5, AckIsTrue
<1>8. d.kind = "ack" /\ d.ack = m_latest /\ d.ackBits = Rel!AckBits /\ d.born = n
  BY <1>1, <1>3
<1>9. Young(d, n) /\ AckSound(d, n, deliveries)
  BY <1>6, <1>7, <1>8, SpaceIs DEF Young, AckSound
<1>10. OnWireSound(relWire, n, deliveries)
  BY <1>1 DEF ReliabilityIInv
<1>11. OnWireSound(relWire', n, deliveries)
  BY <1>4, <1>8, <1>9, <1>10, OnWireJoins
<1> QED
  BY <1>1, <1>2, <1>11 DEF ReliabilityIInv, InFlightSound, AllArrived, ReceiverSound

LEMMA OnAckSound ==
    ASSUME ReliabilityIInv, NEW d \in relWire, Rel!OnAck(d) PROVE ReliabilityIInv'
<1>1. /\ d.kind = "ack"
      /\ m_inFlight' = { f \in m_inFlight : f.seq \notin Rel!Acked(d.ack, d.ackBits) }
      /\ UNCHANGED << m_nextMessage, relWire, relSeenAny, m_latest, m_received, deliveries >>
  BY DEF Rel!OnAck
<1>2. AllArrived(m_inFlight', m_nextMessage, deliveries)
  <2> SUFFICES ASSUME NEW k \in 0 .. m_nextMessage - 1, ~(deliveries[k] >= 1)
               PROVE  \E f \in m_inFlight' : f.msg = k
    BY DEF AllArrived
  <2>1. PICK f \in m_inFlight : f.msg = k
    BY DEF ReliabilityIInv, AllArrived
  <2>2. f.seq \notin Rel!Acked(d.ack, d.ackBits)
    BY <1>1, <2>1, AckRetiresArrived
  <2> QED
    BY <1>1, <2>1, <2>2
<1>3. InFlightSound(m_inFlight', m_nextMessage)
  BY <1>1 DEF ReliabilityIInv, InFlightSound
<1> QED
  BY <1>1, <1>2, <1>3 DEF ReliabilityIInv, OnWireSound, ReceiverSound

-----------------------------------------------------------------------------
(* A datagram that arrives is at most KEEP behind the newest number seen,  *)
(* and at most a span ahead of it: the receiver can tell it from all that  *)
(* it remembers.                                                           *)
LEMMA ArrivingIsNear ==
    ASSUME ReliabilityIInv, NEW d \in relWire, d.kind = "data"
    PROVE  /\ d.msg \in Nat /\ d.msg < m_nextMessage /\ d.seq = Rel!Seq16(d.msg)
           /\ m_nextMessage - d.msg <= KEEP + 1
<1>0. m_nextMessage \in Nat /\ d.born \in Nat
  BY SpaceIs DEF ReliabilityIInv, OnWireSound, Young
<1>1. PICK n \in Nat, born \in Nat : n = m_nextMessage /\ born = d.born
  BY <1>0
<1>2. /\ d.msg \in Nat /\ d.msg < n /\ d.seq = Rel!Seq16(d.msg)
      /\ born - d.msg <= SPAN /\ n - born <= LIFETIME
  BY <1>1 DEF ReliabilityIInv, OnWireSound, Young, DataSound
<1> QED
  BY <1>1, <1>2, SpaceIs

LEMMA DuplicateArrived ==
    ASSUME NEW n \in Nat, n <= MAX_MESSAGES, NEW l \in Nat, NEW m \in Nat,
           m < n, n - m <= KEEP + 1, n - l <= SPAN + 1, NEW del \in [Numbers16 -> {0, 1}],
           NEW latest, NEW received, Remembers(l, n, del, latest, received)
    PROVE  Rel!Seq16(m) \in received <=> del[m] >= 1
<1>1. m \in Numbers16
  BY SpaceIs DEF Numbers16
<1>2. ASSUME Rel!Seq16(m) \in received PROVE del[m] >= 1
  <2>1. PICK k \in Kept(l, del) : Rel!Seq16(m) = Rel!Seq16(k)
    BY <1>2 DEF Remembers
  <2>2. k \in Nat /\ k <= l /\ l - k <= KEEP /\ del[k] >= 1 /\ l < n
    BY <2>1 DEF Kept, Remembers
  <2>3. m \in Int /\ k \in Int /\ m - k < SEQ_SPACE /\ k - m < SEQ_SPACE
    BY <2>2, SpaceIs
  <2>4. m = k
    BY <2>1, <2>3, SameSequence
  <2> QED
    BY <2>2, <2>4
<1>3. ASSUME del[m] >= 1 PROVE Rel!Seq16(m) \in received
  <2>1. m <= l /\ l < n
    BY <1>1, <1>3 DEF Remembers
  <2>2. m \in Kept(l, del)
    BY <1>3, <2>1, SpaceIs DEF Kept
  <2> QED
    BY <2>2 DEF Remembers
<1> QED
  BY <1>2, <1>3

(* Taking a new number keeps the memory exact: what is pruned is what lies *)
(* more than KEEP behind the newest.                                       *)
LEMMA RemembersMore ==
    ASSUME NEW n \in Nat, n <= MAX_MESSAGES, NEW l \in Nat, NEW m \in Nat,
           m < n, n - m <= KEEP + 1, n - l <= SPAN + 1,
           NEW del \in [Numbers16 -> {0, 1}], NEW new \in [Numbers16 -> {0, 1}],
           new[m] = 1, \A k \in Numbers16 : k # m => new[k] = del[k],
           NEW latest, NEW received, Remembers(l, n, del, latest, received),
           NEW latest2, NEW received2,
           latest2 = IF Rel!SeqGreater(Rel!Seq16(m), latest) THEN Rel!Seq16(m) ELSE latest,
           received2 = Rel!PruneOld(latest2, received \cup {Rel!Seq16(m)})
    PROVE  \E x \in Nat : Remembers(x, n, new, latest2, received2)
<1>1. PICK x \in Nat : x = IF m > l THEN m ELSE l
  OBVIOUS
<1>2. /\ l < n /\ del[l] >= 1 /\ \A k \in Numbers16 : k > l => del[k] = 0
      /\ latest = Rel!Seq16(l) /\ received = { Rel!Seq16(k) : k \in Kept(l, del) }
  BY DEF Remembers
<1>3. Rel!SeqGreater(Rel!Seq16(m), Rel!Seq16(l)) <=> m > l
  <2>1. m - l < Rel!Half /\ l - m < Rel!Half /\ m \in Int /\ l \in Int
    BY <1>2, SpaceIs
  <2> QED
    BY <2>1, SequenceGreater
<1>4. latest2 = Rel!Seq16(x)
  BY <1>1, <1>2, <1>3
<1>13. x = m \/ x = l
  BY <1>1
<1>14. \A k \in Nat : k < n => k \in Numbers16
  BY SpaceIs DEF Numbers16
<1>5. m \in Numbers16 /\ l \in Numbers16 /\ x \in Numbers16 /\ x < n
  BY <1>2, <1>13, <1>14
<1>12. \A k \in Nat : k <= x => k \in Numbers16
  BY <1>5, SpaceIs DEF Numbers16
<1>6. new[m] = 1 /\ \A k \in Numbers16 : k # m => new[k] = del[k]
  OBVIOUS
<1>7. new[x] >= 1
  BY <1>1, <1>2, <1>5, <1>6
<1>8. \A k \in Numbers16 : k > x => new[k] = 0
  BY <1>1, <1>2, <1>5, <1>6 DEF Numbers16
<1>9. \A k \in Kept(l, del) \cup {m} :
        /\ k \in Nat /\ k <= x /\ k \in Numbers16 /\ new[k] >= 1
        /\ Rel!SeqDiff(latest2, Rel!Seq16(k)) = x - k
  <2> SUFFICES ASSUME NEW k \in Kept(l, del) \cup {m}
               PROVE  /\ k \in Nat /\ k <= x /\ k \in Numbers16 /\ new[k] >= 1
                      /\ Rel!SeqDiff(latest2, Rel!Seq16(k)) = x - k
    OBVIOUS
  <2>1. k \in Nat /\ k <= x /\ (k = m \/ (k <= l /\ l - k <= KEEP /\ del[k] >= 1))
    BY <1>1 DEF Kept
  <2>2. k \in Numbers16
    BY <1>12, <2>1
  <2>3. new[k] >= 1
    BY <1>6, <2>1, <2>2
  <2>4. x - k < Rel!Half /\ k - x < Rel!Half /\ x \in Int /\ k \in Int
    BY <1>1, <1>2, <2>1, SpaceIs
  <2>5. Rel!SeqDiff(Rel!Seq16(x), Rel!Seq16(k)) = x - k
    BY <2>4, SequenceDiff
  <2> QED
    BY <1>4, <2>1, <2>2, <2>3, <2>5
<1>10. \A k \in Kept(x, new) : k \in Kept(l, del) \cup {m}
  <2> SUFFICES ASSUME NEW k \in Kept(x, new), k # m PROVE k \in Kept(l, del)
    OBVIOUS
  <2>1. k \in Nat /\ k <= x /\ x - k <= KEEP /\ new[k] >= 1
    BY DEF Kept
  <2>2. k \in Numbers16
    BY <1>12, <2>1
  <2>3. del[k] >= 1
    BY <1>6, <2>1, <2>2
  <2>4. k <= l
    BY <1>2, <2>2, <2>3 DEF Numbers16
  <2> QED
    BY <1>1, <2>1, <2>3, <2>4, SpaceIs DEF Kept
<1>11. received2 = { Rel!Seq16(k) : k \in Kept(x, new) }
  <2>1. ASSUME NEW s \in received2 PROVE s \in { Rel!Seq16(k) : k \in Kept(x, new) }
    <3>1. s \in received \cup {Rel!Seq16(m)} /\ Rel!SeqDiff(latest2, s) <= KEEP
      BY <2>1 DEF Rel!PruneOld
    <3>2. PICK k \in Kept(l, del) \cup {m} : s = Rel!Seq16(k)
      BY <1>2, <3>1
    <3>3. k \in Kept(x, new)
      BY <1>9, <3>1, <3>2 DEF Kept
    <3> QED
      BY <3>2, <3>3
  <2>2. ASSUME NEW k \in Kept(x, new) PROVE Rel!Seq16(k) \in received2
    <3>1. k \in Kept(l, del) \cup {m} /\ x - k <= KEEP
      BY <1>10 DEF Kept
    <3>2. Rel!Seq16(k) \in received \cup {Rel!Seq16(m)} /\ Rel!SeqDiff(latest2, Rel!Seq16(k)) <= KEEP
      BY <1>2, <1>9, <3>1
    <3> QED
      BY <3>2 DEF Rel!PruneOld
  <2> QED
    BY <2>1, <2>2
<1> QED
  BY <1>4, <1>5, <1>7, <1>8, <1>11 DEF Remembers

(* The first message seen, whichever it is. *)
LEMMA RemembersFirst ==
    ASSUME NEW n \in Nat, n <= MAX_MESSAGES, NEW m \in Nat, m < n,
           NEW del \in [Numbers16 -> {0, 1}], \A k \in Numbers16 : del[k] = 0,
           NEW new, new = [del EXCEPT ![m] = 1]
    PROVE  Remembers(m, n, new, Rel!Seq16(m), {Rel!Seq16(m)})
<1>1. m \in Numbers16
  BY SpaceIs DEF Numbers16
<1>2. new[m] = 1 /\ \A k \in Numbers16 : k # m => new[k] = 0
  BY <1>1
<1>3. Kept(m, new) = {m}
  <2>1. \A k \in 0 .. m : k \in Numbers16
    BY <1>1, SpaceIs DEF Numbers16
  <2>2. m \in Kept(m, new)
    BY <1>2, SpaceIs DEF Kept
  <2>3. \A k \in Kept(m, new) : k = m
    BY <1>2, <2>1 DEF Kept
  <2> QED
    BY <2>2, <2>3
<1>4. \A k \in Numbers16 : k > m => new[k] = 0
  BY <1>1, <1>2 DEF Numbers16
<1>5. { Rel!Seq16(k) : k \in Kept(m, new) } = {Rel!Seq16(m)}
  BY <1>3
<1>6. new[m] >= 1
  BY <1>2
<1> QED
  BY <1>4, <1>5, <1>6 DEF Remembers

(* OnReceive of a message not seen before. *)
LEMMA ArrivalSound ==
    ASSUME ReliabilityIInv, NEW m \in Nat, m < m_nextMessage, deliveries[m] = 0,
           deliveries' = [deliveries EXCEPT ![m] = @ + 1],
           UNCHANGED << m_nextMessage, m_inFlight, relWire >>,
           ReceiverSound(m_nextMessage, deliveries', relSeenAny', m_latest', m_received')
    PROVE  ReliabilityIInv'
<1>1. PICK n \in Nat : n = m_nextMessage /\ n <= MAX_MESSAGES
  BY DEF ReliabilityIInv
<1>2. m \in Numbers16
  BY <1>1, SpaceIs DEF Numbers16
<1>3. deliveries' \in [Numbers16 -> {0, 1}] /\ deliveries'[m] = 1
      /\ \A k \in Numbers16 : k # m => deliveries'[k] = deliveries[k]
  BY <1>2 DEF ReliabilityIInv
<1>4. \A k \in Numbers16 : deliveries[k] >= 1 => deliveries'[k] >= 1
  BY <1>2, <1>3
<1>5. \A k \in 0 .. n - 1 : k \in Numbers16
  BY <1>1, SpaceIs DEF Numbers16
<1>6. OnWireSound(relWire, n, deliveries')
  <2>1. \A k \in 0 .. n - 1 : deliveries[k] >= 1 => deliveries'[k] >= 1
    BY <1>4, <1>5
  <2>2. OnWireSound(relWire, n, deliveries) /\ \A d \in relWire : Young(d, n)
    BY <1>1 DEF ReliabilityIInv, OnWireSound
  <2>3. n \in Nat /\ n <= n /\ relWire \subseteq relWire
    BY <1>1
  <2>4. PICK new : new = deliveries'
    OBVIOUS
  <2>6. \A k \in 0 .. n - 1 : deliveries[k] >= 1 => new[k] >= 1
    BY <2>1, <2>4
  <2>7. PICK m2 \in Nat : n <= m2 /\ m2 = n
    BY <2>3
  <2>8. \A d \in relWire : Young(d, m2)
    BY <2>2, <2>7
  <2>9. OnWireSound(relWire, m2, new)
    BY <2>2, <2>3, <2>6, <2>7, <2>8, OnWireGrows
  <2>5. OnWireSound(relWire, n, new)
    BY <2>7, <2>9
  <2> QED
    BY <2>4, <2>5
<1>7. AllArrived(m_inFlight, n, deliveries')
  <2>1. AllArrived(m_inFlight, n, deliveries)
    BY <1>1 DEF ReliabilityIInv
  <2> QED
    BY <1>4, <1>5, <2>1 DEF AllArrived
<1>8. \A k \in Numbers16 : deliveries'[k] >= 1 => k < n
  BY <1>1, <1>3 DEF ReliabilityIInv
<1> QED
  BY <1>1, <1>3, <1>6, <1>7, <1>8 DEF ReliabilityIInv

(* However old or repeated the datagram, it is taken exactly if its        *)
(* message is new.                                                         *)
LEMMA OnReceiveSound ==
    ASSUME ReliabilityIInv, NEW d \in relWire, Rel!OnReceive(d) PROVE ReliabilityIInv'
<1>1. PICK n \in Nat, m \in Nat : n = m_nextMessage /\ m = d.msg /\ n <= MAX_MESSAGES
  BY ArrivingIsNear DEF Rel!OnReceive, ReliabilityIInv
<1>2. m < n /\ d.seq = Rel!Seq16(m) /\ n - m <= KEEP + 1
  BY <1>1, ArrivingIsNear DEF Rel!OnReceive
<1>3. deliveries \in [Numbers16 -> {0, 1}] /\ m \in Numbers16
  BY <1>1, <1>2, SpaceIs DEF ReliabilityIInv, Numbers16
<1>4. UNCHANGED << m_nextMessage, m_inFlight, relWire >>
  BY DEF Rel!OnReceive
<1>5. CASE /\ ~relSeenAny
           /\ relSeenAny' = TRUE /\ m_latest' = d.seq /\ m_received' = {d.seq}
           /\ deliveries' = [deliveries EXCEPT ![d.msg] = @ + 1]
  <2>1. \A k \in Numbers16 : deliveries[k] = 0
    BY <1>5 DEF ReliabilityIInv, ReceiverSound
  <2>5. deliveries[m] = 0
    BY <1>3, <2>1
  <2>6. deliveries' = [deliveries EXCEPT ![m] = @ + 1]
    BY <1>1, <1>5
  <2>2. deliveries' = [deliveries EXCEPT ![m] = 1] /\ deliveries[m] = 0
    BY <1>3, <2>5, <2>6
  <2>3. Remembers(m, n, deliveries', Rel!Seq16(m), {Rel!Seq16(m)})
    BY <1>1, <1>2, <1>3, <2>1, <2>2, RemembersFirst
  <2>4. ReceiverSound(n, deliveries', relSeenAny', m_latest', m_received')
    BY <1>2, <1>5, <2>3 DEF ReceiverSound
  <2> QED
    BY <1>1, <1>2, <1>4, <1>5, <2>2, <2>4, ArrivalSound
<1>6. CASE relSeenAny
  <2>1. PICK l \in Nat : Remembers(l, n, deliveries, m_latest, m_received)
    BY <1>1, <1>6 DEF ReliabilityIInv, ReceiverSound
  <2>2. n - l <= SPAN + 1
    BY <1>1, <2>1, NewestIsNear DEF Remembers
  <2>3. d.seq \in m_received <=> deliveries[m] >= 1
    BY <1>1, <1>2, <1>3, <2>1, <2>2, DuplicateArrived
  <2>4. CASE Rel!Duplicate(d.seq)
    <3>1. UNCHANGED relVars
      BY <1>4, <1>6, <2>4 DEF Rel!OnReceive, relVars
    <3> QED
      BY <3>1, ReliabilityUnchanged
  <2>5. CASE ~Rel!Duplicate(d.seq)
    <3>1. /\ m_latest' = IF Rel!SeqGreater(d.seq, m_latest) THEN d.seq ELSE m_latest
          /\ m_received' = Rel!PruneOld(m_latest', m_received \cup {d.seq})
          /\ deliveries' = [deliveries EXCEPT ![d.msg] = @ + 1]
          /\ relSeenAny' = relSeenAny
      BY <1>6, <2>5 DEF Rel!OnReceive
    <3>2. deliveries[m] = 0
      BY <1>3, <2>3, <2>5 DEF Rel!Duplicate
    <3>3. deliveries' = [deliveries EXCEPT ![m] = 1]
      BY <1>1, <1>3, <3>1, <3>2
    <3>4. deliveries' \in [Numbers16 -> {0, 1}]
      BY <1>3, <3>3
    <3>7. PICK latest2, received2, new :
            latest2 = m_latest' /\ received2 = m_received' /\ new = deliveries'
      OBVIOUS
    <3>10. new \in [Numbers16 -> {0, 1}] /\ new[m] = 1
           /\ \A k \in Numbers16 : k # m => new[k] = deliveries[k]
      BY <1>3, <3>3, <3>4, <3>7
    <3>11. Remembers(l, n, deliveries, m_latest, m_received) /\ n <= MAX_MESSAGES /\ m < n
           /\ n - m <= KEEP + 1 /\ n - l <= SPAN + 1 /\ deliveries \in [Numbers16 -> {0, 1}]
      BY <1>1, <1>2, <1>3, <2>1, <2>2
    <3>8. /\ latest2 = IF Rel!SeqGreater(Rel!Seq16(m), m_latest) THEN Rel!Seq16(m) ELSE m_latest
          /\ received2 = Rel!PruneOld(latest2, m_received \cup {Rel!Seq16(m)})
      BY <1>2, <3>1, <3>7
    <3>9. \E x \in Nat : Remembers(x, n, new, latest2, received2)
      BY <3>8, <3>10, <3>11, RemembersMore
    <3>5. \E x \in Nat : Remembers(x, n, deliveries', m_latest', m_received')
      BY <3>7, <3>9
    <3>6. ReceiverSound(n, deliveries', relSeenAny', m_latest', m_received')
      BY <1>6, <3>1, <3>5 DEF ReceiverSound
    <3> QED
      BY <1>1, <1>2, <1>4, <3>1, <3>2, <3>6, ArrivalSound
  <2> QED
    BY <2>4, <2>5
<1>7. relSeenAny \in BOOLEAN
  BY DEF ReliabilityIInv, ReceiverSound
<1> QED
  BY <1>5, <1>6, <1>7 DEF Rel!OnReceive

-----------------------------------------------------------------------------
LEMMA ReliabilityStep ==
    ASSUME ReliabilityIInv, [TransportNext]_allVars PROVE ReliabilityIInv'
<1>1. CASE UNCHANGED relVars
  BY <1>1, ReliabilityUnchanged
<1>2. CASE Rel!Next
  <2>1. CASE Rel!Send
    BY <2>1, SendSound
  <2>2. CASE Rel!SendAck
    BY <2>2, SendAckSound
  <2>3. CASE \E f \in m_inFlight : Rel!CollectTimedOut(f)
    BY <2>3, CollectSound
  <2>4. CASE \E d \in relWire : Rel!OnReceive(d)
    BY <2>4, OnReceiveSound
  <2>5. CASE \E d \in relWire : Rel!OnAck(d)
    BY <2>5, OnAckSound
  <2> QED
    BY <1>2, <2>1, <2>2, <2>3, <2>4, <2>5 DEF Rel!Next
<1> QED
  BY <1>1, <1>2 DEF TransportNext, ChannelNext, ReliabilityNext, LoopbackNext, ServerNext,
     WireNext, StepsNext, TimerNext, allVars

LEMMA ReliabilityFollows ==
    ASSUME ReliabilityIInv PROVE ReliabilityInv
<1>1. Rel!RetiredArrived
  BY DEF ReliabilityIInv, AllArrived, Rel!RetiredArrived
<1>2. Rel!DeliveredOnce
  BY DEF ReliabilityIInv, Numbers16, Rel!DeliveredOnce
<1>3. Rel!ArrivedIsAckable
  BY ArrivedIsInAck DEF Rel!ArrivedIsAckable
<1> QED
  BY <1>1, <1>2, <1>3 DEF ReliabilityInv, Rel!ReliabilityInv

(* Over any number of messages and wraps of the sequence space, and with   *)
(* datagrams lost, repeated and overtaken: no message is retired before it *)
(* arrived, none is handed up twice, and each that arrived and is still in *)
(* flight is in the next acknowledgement (Reliability.h OnSend, OnReceive, *)
(* OnAck), whenever the span in flight and the datagrams' lifetime fit the *)
(* receiver's memory.                                                      *)
THEOREM ReliabilityCorrect == TransportSpec => []ReliabilityInv
<1>1. TransportInit => ReliabilityIInv
  BY ReliabilityHolds DEF TransportInit
<1>2. ReliabilityIInv /\ [TransportNext]_allVars => ReliabilityIInv'
  BY ReliabilityStep
<1>3. ReliabilityIInv => ReliabilityInv
  BY ReliabilityFollows
<1> QED
  BY <1>1, <1>2, <1>3, PTL DEF TransportSpec

(***************************************************************************)
(* The words of the window                                                 *)
(***************************************************************************)
Positions == 0 .. WORD_BITS - 1

LEMMA WordScale ==
    ASSUME NEW i \in Int, NEW j \in Int, i > j
    PROVE  WORD_BITS * i >= WORD_BITS * j + WORD_BITS
<1>1. WORD_BITS \in Nat /\ WORD_BITS > 0
  BY WordsAssumption
<1>2. PICK k \in Nat : k >= 1 /\ i = j + k
  <2>1. i - j \in Nat /\ i - j >= 1 /\ i = j + (i - j)
    OBVIOUS
  <2> QED
    BY <2>1
<1>3. WORD_BITS * k >= WORD_BITS
  BY <1>1, <1>2
<1>4. WORD_BITS * i = WORD_BITS * j + WORD_BITS * k
  BY <1>1, <1>2
<1>5. WORD_BITS * k \in Int /\ WORD_BITS * j \in Int
  BY <1>1
<1> QED
  BY <1>1, <1>3, <1>4, <1>5

(* A place is a word and a position in it, in one way. *)
LEMMA PlaceOnce ==
    ASSUME NEW i \in Int, NEW b \in Positions, NEW j \in Int, NEW c \in Positions,
           WORD_BITS * i + b = WORD_BITS * j + c
    PROVE  i = j /\ b = c
<1>1. WORD_BITS \in Nat /\ WORD_BITS > 0 /\ WORD_BITS * i \in Int /\ WORD_BITS * j \in Int
  BY WordsAssumption
<1>2. ~(i > j)
  BY <1>1, WordScale DEF Positions
<1>3. ~(j > i)
  BY <1>1, WordScale DEF Positions
<1> QED
  BY <1>1, <1>2, <1>3 DEF Positions

LEMMA PlaceOf ==
    ASSUME NEW o \in Nat
    PROVE  \E i \in Nat, b \in Positions :
              o = WORD_BITS * i + b /\ o \div WORD_BITS = i /\ o % WORD_BITS = b
<1>1. WORD_BITS \in Nat /\ WORD_BITS > 0
  BY WordsAssumption
<1>2. PICK i \in Int : i = o \div WORD_BITS
  BY <1>1
<1>3. PICK b \in Positions : b = o % WORD_BITS
  BY <1>1 DEF Positions
<1>4. o = WORD_BITS * i + b
  BY <1>1, <1>2, <1>3
<1>5. i >= 0
  <2>1. 0 > i => WORD_BITS * 0 >= WORD_BITS * i + WORD_BITS
    BY WordScale
  <2>2. WORD_BITS * i \in Int /\ WORD_BITS * 0 = 0
    BY <1>1
  <2> QED
    BY <1>1, <1>3, <1>4, <2>1, <2>2 DEF Positions
<1> QED
  BY <1>2, <1>3, <1>4, <1>5

(* An offset of the window lies in one of its words. *)
LEMMA PlaceInWindow ==
    ASSUME NEW i \in Nat, NEW b \in Positions
    PROVE  WORD_BITS * i + b \in 0 .. WINDOW_BITS - 1 <=> i \in WordIndex
<1>1. /\ WORD_BITS \in Nat /\ WORD_BITS > 0 /\ WORDS \in Nat /\ WINDOW_BITS = WORD_BITS * WORDS
      /\ WORD_BITS * i \in Nat /\ WORD_BITS * WORDS \in Nat /\ b \in Nat /\ b < WORD_BITS
  BY WordsAssumption DEF Positions
<1>2. WORDS > i => WORD_BITS * WORDS >= WORD_BITS * i + WORD_BITS
  BY <1>1, WordScale
<1>3. i > WORDS => WORD_BITS * i >= WORD_BITS * WORDS + WORD_BITS
  BY <1>1, WordScale
<1>4. i = WORDS => WORD_BITS * i = WORD_BITS * WORDS
  OBVIOUS
<1>5. i \in WordIndex <=> i < WORDS
  BY <1>1 DEF WordIndex
<1> QED
  BY <1>1, <1>2, <1>3, <1>4, <1>5

(* The array holds the set when each position of each word does. *)
Holds(words, bits) ==
    /\ words \in [WordIndex -> SUBSET Positions]
    /\ bits \subseteq 0 .. WINDOW_BITS - 1
    /\ \A i \in WordIndex, b \in Positions : b \in words[i] <=> WORD_BITS * i + b \in bits

LEMMA HeldBits ==
    ASSUME NEW words, NEW bits, Holds(words, bits)
    PROVE  BitsOf(words) = bits
<1>1. Offsets = 0 .. WINDOW_BITS - 1 /\ Offsets \subseteq Nat
  BY WordsAssumption DEF Offsets
<1>2. ASSUME NEW o \in Offsets PROVE TestBit(words, o) <=> o \in bits
  <2>1. PICK i \in Nat, b \in Positions :
          o = WORD_BITS * i + b /\ o \div WORD_BITS = i /\ o % WORD_BITS = b
    BY <1>1, PlaceOf
  <2>2. i \in WordIndex
    BY <1>1, <2>1, PlaceInWindow
  <2>3. b \in words[i] <=> o \in bits
    BY <2>1, <2>2 DEF Holds
  <2> QED
    BY <2>1, <2>3 DEF TestBit
<1> QED
  BY <1>1, <1>2 DEF BitsOf, Holds

LEMMA NoBits == Holds(ZeroWords, {})
<1>1. ZeroWords \in [WordIndex -> SUBSET Positions]
  BY DEF ZeroWords
<1>2. \A i \in WordIndex : ZeroWords[i] = {}
  BY DEF ZeroWords
<1> QED
  BY <1>1, <1>2 DEF Holds

LEMMA SetBitHolds ==
    ASSUME NEW words, NEW bits, Holds(words, bits), NEW o \in 0 .. WINDOW_BITS - 1
    PROVE  Holds(SetBit(words, o), bits \cup {o})
<1>1. o \in Nat
  OBVIOUS
<1>2. PICK i \in Nat, b \in Positions :
        o = WORD_BITS * i + b /\ o \div WORD_BITS = i /\ o % WORD_BITS = b
  BY <1>1, PlaceOf
<1>3. i \in WordIndex
  BY <1>2, PlaceInWindow
<1>4. SetBit(words, o) = [words EXCEPT ![i] = @ \cup {b}]
  BY <1>2 DEF SetBit
<1>5. /\ SetBit(words, o) \in [WordIndex -> SUBSET Positions]
      /\ SetBit(words, o)[i] = words[i] \cup {b}
      /\ \A j \in WordIndex : j # i => SetBit(words, o)[j] = words[j]
  BY <1>3, <1>4 DEF Holds
<1>6. ASSUME NEW j \in WordIndex, NEW c \in Positions
      PROVE  c \in SetBit(words, o)[j] <=> WORD_BITS * j + c \in bits \cup {o}
  <2>1. c \in words[j] <=> WORD_BITS * j + c \in bits
    BY DEF Holds
  <2>2. WORD_BITS * j + c = o <=> (j = i /\ c = b)
    <3>1. j \in Int /\ i \in Int
      BY DEF WordIndex
    <3> QED
      BY <1>2, <3>1, PlaceOnce
  <2>3. CASE j = i
    <3>1. c \in SetBit(words, o)[j] <=> (c \in words[j] \/ c = b)
      BY <1>5, <2>3
    <3> QED
      BY <2>1, <2>2, <2>3, <3>1
  <2>4. CASE j # i
    <3>1. SetBit(words, o)[j] = words[j]
      BY <1>5, <2>4
    <3> QED
      BY <2>1, <2>2, <2>4, <3>1
  <2> QED
    BY <2>3, <2>4
<1>7. bits \cup {o} \subseteq 0 .. WINDOW_BITS - 1
  BY DEF Holds
<1> QED
  BY <1>5, <1>6, <1>7 DEF Holds

(* The shifts within a word, position by position. *)
LEMMA ShiftUpMoves ==
    ASSUME NEW w \in SUBSET Positions, NEW k \in Positions, NEW b \in Positions
    PROVE  b \in ShiftUp(w, k) <=> (b >= k /\ b - k \in w)
<1>1. WORD_BITS \in Nat
  BY WordsAssumption
<1>2. ASSUME b \in ShiftUp(w, k) PROVE b >= k /\ b - k \in w
  <2>1. PICK c \in w : b = c + k
    BY <1>2 DEF ShiftUp
  <2>2. c \in Nat /\ c = b - k
    BY <1>1, <2>1 DEF Positions
  <2> QED
    BY <2>1, <2>2 DEF Positions
<1>3. ASSUME b >= k, b - k \in w PROVE b \in ShiftUp(w, k)
  <2>1. PICK c \in w : c = b - k
    BY <1>3
  <2>2. c + k = b /\ c + k < WORD_BITS
    BY <1>1, <2>1 DEF Positions
  <2> QED
    BY <2>1, <2>2 DEF ShiftUp
<1> QED
  BY <1>2, <1>3

LEMMA ShiftDownMoves ==
    ASSUME NEW w \in SUBSET Positions, NEW k \in Positions, k > 0, NEW b \in Positions
    PROVE  b \in ShiftDown(w, WORD_BITS - k) <=> (b < k /\ b - k + WORD_BITS \in w)
<1>1. WORD_BITS \in Nat
  BY WordsAssumption
<1>2. ASSUME b \in ShiftDown(w, WORD_BITS - k) PROVE b < k /\ b - k + WORD_BITS \in w
  <2>1. PICK c \in w : b = c - (WORD_BITS - k)
    BY <1>2 DEF ShiftDown
  <2>2. c \in Nat /\ c < WORD_BITS /\ c = b - k + WORD_BITS
    BY <1>1, <2>1 DEF Positions
  <2> QED
    BY <1>1, <2>1, <2>2 DEF Positions
<1>3. ASSUME b < k, b - k + WORD_BITS \in w PROVE b \in ShiftDown(w, WORD_BITS - k)
  <2>1. PICK c \in w : c = b - k + WORD_BITS
    BY <1>3
  <2>2. c - (WORD_BITS - k) = b /\ c >= WORD_BITS - k
    BY <1>1, <2>1 DEF Positions
  <2> QED
    BY <2>1, <2>2 DEF ShiftDown
<1> QED
  BY <1>2, <1>3

(* Where the bit at a place comes from when the window slides by q words   *)
(* and r positions: the same word, or the one below it.                    *)
LEMMA SlidePlace ==
    ASSUME NEW words, NEW bits, Holds(words, bits), NEW i \in WordIndex, NEW b \in Positions,
           NEW q \in WordIndex, NEW r \in Positions, NEW s \in Nat, s = WORD_BITS * q + r,
           NEW o \in Nat, o = WORD_BITS * i + b
    PROVE  (o >= s /\ o - s \in bits)
             <=> \/ i >= q /\ b >= r /\ b - r \in words[i - q]
                 \/ i >= q + 1 /\ b < r /\ b - r + WORD_BITS \in words[i - q - 1]
<1>1. /\ WORD_BITS \in Nat /\ WORD_BITS > 0 /\ WORDS \in Nat /\ i \in Nat /\ q \in Nat
      /\ b \in Nat /\ b < WORD_BITS /\ r \in Nat /\ r < WORD_BITS /\ i < WORDS /\ q < WORDS
      /\ WORD_BITS * i \in Nat /\ WORD_BITS * q \in Nat
  BY WordsAssumption DEF Positions, WordIndex
<1>2. CASE i < q
  <2>1. WORD_BITS * q >= WORD_BITS * i + WORD_BITS
    BY <1>1, <1>2, WordScale
  <2> QED
    BY <1>1, <1>2, <2>1
<1>3. CASE i >= q
  <2>1. PICK j \in WordIndex : j = i - q
    BY <1>1, <1>3 DEF WordIndex
  <2>2. WORD_BITS * i = WORD_BITS * j + WORD_BITS * q /\ WORD_BITS * j \in Nat /\ j \in Nat
    BY <1>1, <2>1 DEF WordIndex
  <2>3. CASE b >= r
    <3>1. PICK c \in Positions : c = b - r
      BY <1>1, <2>3 DEF Positions
    <3>2. o >= s /\ o - s = WORD_BITS * j + c
      BY <1>1, <2>2, <2>3, <3>1
    <3>3. c \in words[j] <=> WORD_BITS * j + c \in bits
      BY DEF Holds
    <3> QED
      BY <1>1, <1>3, <2>1, <2>3, <3>1, <3>2, <3>3
  <2>4. CASE b < r /\ j = 0
    <3>1. i = q /\ WORD_BITS * i = WORD_BITS * q
      BY <1>1, <2>1, <2>4
    <3> QED
      BY <1>1, <2>4, <3>1
  <2>5. CASE b < r /\ j > 0
    <3>1. PICK c \in Positions : c = b - r + WORD_BITS
      BY <1>1, <2>5 DEF Positions
    <3>2. PICK k \in WordIndex : k = j - 1
      BY <1>1, <2>2, <2>5 DEF WordIndex
    <3>3. WORD_BITS * j = WORD_BITS * k + WORD_BITS /\ WORD_BITS * k \in Nat
      BY <1>1, <3>2, <2>2 DEF WordIndex
    <3>4. o >= s /\ o - s = WORD_BITS * k + c
      BY <1>1, <2>2, <3>1, <3>3
    <3>5. c \in words[k] <=> WORD_BITS * k + c \in bits
      BY DEF Holds
    <3>6. k = i - q - 1 /\ i >= q + 1
      BY <1>1, <2>1, <2>5, <3>2
    <3>7. ~(b >= r)
      BY <1>1, <2>5
    <3> QED
      BY <2>5, <3>1, <3>4, <3>5, <3>6, <3>7
  <2> QED
    BY <1>1, <2>2, <2>3, <2>4, <2>5
<1> QED
  BY <1>1, <1>2, <1>3

(* SlideForward on the words is SlideForward on the set. *)
LEMMA SlideHolds ==
    ASSUME NEW words, NEW bits, Holds(words, bits), NEW s \in Nat
    PROVE  Holds(SlideWords(words, s), SlideForward(bits, s))
<1>1. /\ WORD_BITS \in Nat /\ WORD_BITS > 0 /\ WORDS \in Nat /\ WINDOW_BITS = WORD_BITS * WORDS
      /\ WINDOW_BITS \in Nat
  BY WordsAssumption
<1>2. CASE s >= WORD_BITS * WORDS
  <2>1. SlideWords(words, s) = ZeroWords
    BY <1>2 DEF SlideWords
  <2>2. SlideForward(bits, s) = {}
    BY <1>1, <1>2 DEF SlideForward
  <2> QED
    BY <2>1, <2>2, NoBits
<1>3. CASE ~(s >= WORD_BITS * WORDS)
  <2>1. PICK q \in Nat, r \in Positions :
          s = WORD_BITS * q + r /\ s \div WORD_BITS = q /\ s % WORD_BITS = r
    BY PlaceOf
  <2>2. q \in WordIndex
    <3>1. s \in 0 .. WINDOW_BITS - 1
      BY <1>1, <1>3
    <3> QED
      BY <2>1, <3>1, PlaceInWindow
  <2>3. \A i \in WordIndex : i >= q => i - q \in WordIndex
    BY <1>1, <2>2 DEF WordIndex
  <2>4. \A i \in WordIndex : i >= q + 1 => i - q - 1 \in WordIndex
    BY <1>1, <2>2 DEF WordIndex
  <2>5. words \in [WordIndex -> SUBSET Positions]
    BY DEF Holds
  <2>6. CASE r = 0
    <3>1. SlideWords(words, s) = [i \in WordIndex |-> IF i >= q THEN words[i - q] ELSE {}]
      BY <1>3, <2>1, <2>6 DEF SlideWords
    <3>2. SlideWords(words, s) \in [WordIndex -> SUBSET Positions]
      BY <2>3, <2>5, <3>1
    <3>3. ASSUME NEW i \in WordIndex, NEW b \in Positions
          PROVE  b \in SlideWords(words, s)[i] <=> (i >= q /\ b >= r /\ b - r \in words[i - q])
      <4>1. b >= r /\ b - r = b
        BY <2>6 DEF Positions
      <4>2. SlideWords(words, s)[i] = IF i >= q THEN words[i - q] ELSE {}
        BY <3>1
      <4> QED
        BY <4>1, <4>2
    <3>4. \A b \in Positions : ~(b < r)
      BY <2>6 DEF Positions
    <3>5. ASSUME NEW i \in WordIndex, NEW b \in Positions
          PROVE  b \in SlideWords(words, s)[i] <=> WORD_BITS * i + b \in SlideForward(bits, s)
      <4>2. WORD_BITS * i + b \in 0 .. WINDOW_BITS - 1
        <5>1. i \in Nat
          BY DEF WordIndex
        <5> QED
          BY <5>1, PlaceInWindow
      <4>7. PICK o \in 0 .. WINDOW_BITS - 1 : o = WORD_BITS * i + b
        BY <4>2
      <4>1. (o >= s /\ o - s \in bits)
             <=> \/ i >= q /\ b >= r /\ b - r \in words[i - q]
                 \/ i >= q + 1 /\ b < r /\ b - r + WORD_BITS \in words[i - q - 1]
        BY <2>1, <2>2, <4>7, SlidePlace
      <4>8. o \in SlideForward(bits, s) <=> (o >= s /\ o - s \in bits)
        BY DEF SlideForward
      <4>9. b \in SlideWords(words, s)[i] <=> o \in SlideForward(bits, s)
        BY <3>3, <3>4, <4>1, <4>8
      <4> QED
        BY <4>7, <4>9
    <3>6. SlideForward(bits, s) \subseteq 0 .. WINDOW_BITS - 1
      BY DEF SlideForward
    <3> QED
      BY <3>2, <3>5, <3>6 DEF Holds
  <2>7. CASE r # 0
    <3>0. r > 0
      BY <2>7 DEF Positions
    <3>1. SlideWords(words, s) =
            [i \in WordIndex |->
               (IF i >= q THEN ShiftUp(words[i - q], r) ELSE {})
               \cup (IF i >= q + 1 THEN ShiftDown(words[i - q - 1], WORD_BITS - r) ELSE {})]
      BY <1>3, <2>1, <2>7 DEF SlideWords
    <3>2. ASSUME NEW w \in SUBSET Positions
          PROVE  ShiftUp(w, r) \subseteq Positions /\ ShiftDown(w, WORD_BITS - r) \subseteq Positions
      <4>1. ShiftUp(w, r) \subseteq Positions
        BY <1>1 DEF ShiftUp, Positions
      <4>2. ShiftDown(w, WORD_BITS - r) \subseteq Positions
        BY <1>1 DEF ShiftDown, Positions
      <4> QED
        BY <4>1, <4>2
    <3>3. ASSUME NEW i \in WordIndex
          PROVE  /\ i >= q => words[i - q] \in SUBSET Positions
                 /\ i >= q + 1 => words[i - q - 1] \in SUBSET Positions
      BY <2>3, <2>4, <2>5
    <3>4. SlideWords(words, s) \in [WordIndex -> SUBSET Positions]
      BY <3>1, <3>2, <3>3
    <3>5. ASSUME NEW i \in WordIndex, NEW b \in Positions
          PROVE  b \in SlideWords(words, s)[i] <=> WORD_BITS * i + b \in SlideForward(bits, s)
      <4>2. WORD_BITS * i + b \in 0 .. WINDOW_BITS - 1
        <5>1. i \in Nat
          BY DEF WordIndex
        <5> QED
          BY <5>1, PlaceInWindow
      <4>7. PICK o \in 0 .. WINDOW_BITS - 1 : o = WORD_BITS * i + b
        BY <4>2
      <4>1. (o >= s /\ o - s \in bits)
             <=> \/ i >= q /\ b >= r /\ b - r \in words[i - q]
                 \/ i >= q + 1 /\ b < r /\ b - r + WORD_BITS \in words[i - q - 1]
        BY <2>1, <2>2, <4>7, SlidePlace
      <4>3. i >= q => (b \in ShiftUp(words[i - q], r) <=> (b >= r /\ b - r \in words[i - q]))
        BY <3>3, ShiftUpMoves
      <4>4. i >= q + 1 => (b \in ShiftDown(words[i - q - 1], WORD_BITS - r)
                             <=> (b < r /\ b - r + WORD_BITS \in words[i - q - 1]))
        BY <3>0, <3>3, ShiftDownMoves
      <4>5. b \in SlideWords(words, s)[i]
             <=> \/ i >= q /\ b \in ShiftUp(words[i - q], r)
                 \/ i >= q + 1 /\ b \in ShiftDown(words[i - q - 1], WORD_BITS - r)
        BY <3>1
      <4>8. o \in SlideForward(bits, s) <=> (o >= s /\ o - s \in bits)
        BY DEF SlideForward
      <4>9. b \in SlideWords(words, s)[i] <=> o \in SlideForward(bits, s)
        BY <4>1, <4>3, <4>4, <4>5, <4>8
      <4> QED
        BY <4>7, <4>9
    <3>6. SlideForward(bits, s) \subseteq 0 .. WINDOW_BITS - 1
      BY DEF SlideForward
    <3> QED
      BY <3>4, <3>5, <3>6 DEF Holds
  <2> QED
    BY <2>6, <2>7
<1> QED
  BY <1>2, <1>3

(* CheckAndUpdate on the words is CheckAndUpdate on the set. *)
LEMMA WordsFollow ==
    ASSUME ChannelInv, Holds(m_words, m_bits), NEW n \in PacketNumbers, CheckAndUpdate(n),
           m_words' = CheckAndUpdateWords(m_words, m_seenAny, m_highest, n)
    PROVE  Holds(m_words', m_bits')
<1>0. /\ m_highest \in Nat /\ n \in Nat /\ WINDOW_BITS \in Nat /\ 0 \in 0 .. WINDOW_BITS - 1
      /\ WINDOW_BITS = WORD_BITS * WORDS
  BY WindowAssumption, WordsAssumption DEF ChannelInv, TypeOK, WindowTypeOK, PacketNumbers
<1>1. CASE ~m_seenAny
  <2>1. m_bits' = m_bits \cup {0} /\ m_words' = SetBit(m_words, 0)
    BY <1>1 DEF CheckAndUpdate, CheckAndUpdateWords
  <2> QED
    BY <1>0, <2>1, SetBitHolds
<1>2. CASE m_seenAny /\ n > m_highest
  <2>0. ~(n <= m_highest)
    BY <1>0, <1>2
  <2>5. m_bits' = SlideForward(m_bits, n - m_highest) \cup {0}
    BY <1>2, <2>0 DEF CheckAndUpdate
  <2>1. /\ m_bits' = SlideForward(m_bits, n - m_highest) \cup {0}
        /\ m_words' = SetBit(SlideWords(m_words, n - m_highest), 0)
    BY <1>2, <2>5 DEF CheckAndUpdateWords
  <2>2. PICK s \in Nat : s = n - m_highest
    BY <1>0, <1>2
  <2>3. Holds(SlideWords(m_words, s), SlideForward(m_bits, s))
    BY SlideHolds
  <2>4. Holds(SetBit(SlideWords(m_words, s), 0), SlideForward(m_bits, s) \cup {0})
    BY <1>0, <2>3, SetBitHolds
  <2> QED
    BY <2>1, <2>2, <2>4
<1>3. CASE m_seenAny /\ n <= m_highest
  <2>1. PICK o \in Nat : o = m_highest - n
    BY <1>0, <1>3
  <2>2. /\ m_bits' = IF Fresh(n) THEN m_bits \cup {o} ELSE m_bits
        /\ m_words' = IF o < WINDOW_BITS THEN SetBit(m_words, o) ELSE m_words
    <3>1. ~(n > m_highest)
      BY <1>0, <1>3
    <3>2. m_bits' = IF Fresh(n) THEN m_bits \cup {m_highest - n} ELSE m_bits
      BY <1>3, <3>1 DEF CheckAndUpdate
    <3>3. m_words' = IF m_highest - n < WINDOW_BITS THEN SetBit(m_words, m_highest - n) ELSE m_words
      BY <1>0, <1>3, <3>1 DEF CheckAndUpdateWords
    <3> QED
      BY <2>1, <3>2, <3>3
  <2>3. CASE o < WINDOW_BITS
    <3>1. Holds(SetBit(m_words, o), m_bits \cup {o})
      BY <1>0, <2>3, SetBitHolds
    <3>2. m_bits' = m_bits \cup {o}
      BY <1>0, <1>3, <2>1, <2>2, <2>3 DEF Fresh, InWindow
    <3> QED
      BY <2>2, <2>3, <3>1, <3>2
  <2>4. CASE ~(o < WINDOW_BITS)
    <3>1. ~Fresh(n)
      BY <1>0, <1>3, <2>1, <2>4 DEF Fresh, InWindow, Ahead
    <3> QED
      BY <2>2, <2>4, <3>1
  <2> QED
    BY <2>3, <2>4
<1> QED
  BY <1>0, <1>1, <1>2, <1>3 DEF ChannelInv, TypeOK, WindowTypeOK

WindowIInv == ChannelInv /\ Holds(m_words, m_bits)

LEMMA WindowIInvInit == ASSUME MCInit PROVE WindowIInv
<1>1. ChannelInv
  BY ChannelInitInv DEF MCInit
<1>2. Holds(m_words, m_bits)
  BY NoBits DEF MCInit, Init, WindowInit
<1> QED
  BY <1>1, <1>2 DEF WindowIInv

LEMMA WindowIInvStep == ASSUME WindowIInv, [MCNext]_<< vars, m_words >> PROVE WindowIInv'
<1>1. [Next]_vars
  BY DEF MCNext, Next
<1>2. ChannelInv'
  BY <1>1, ChannelStepInv DEF WindowIInv
<1>3. Holds(m_words, m_bits)'
  <2>1. CASE (SetSenderKeys \/ SetReceiverKeys \/ Seal) /\ UNCHANGED m_words
    BY <2>1 DEF SetSenderKeys, SetReceiverKeys, Seal, windowVars, WindowIInv, Holds
  <2>2. ASSUME NEW n \in PacketNumbers, NEW kind \in Kinds, Open(n, kind),
               m_words' = IF recvHasKeys /\ kind \in {"sealed", "damaged"}
                          THEN CheckAndUpdateWords(m_words, m_seenAny, m_highest, n)
                          ELSE m_words
        PROVE  Holds(m_words, m_bits)'
    <3>1. CASE recvHasKeys /\ kind \in {"sealed", "damaged"}
      <4>1. CheckAndUpdate(n) /\ m_words' = CheckAndUpdateWords(m_words, m_seenAny, m_highest, n)
        BY <2>2, <3>1 DEF Open
      <4>2. Holds(m_words', m_bits')
        BY <4>1, WordsFollow DEF WindowIInv
      <4> QED
        BY <4>2 DEF Holds
    <3>2. CASE ~(recvHasKeys /\ kind \in {"sealed", "damaged"})
      <4>1. m_words' = m_words /\ m_bits' = m_bits
        BY <2>2, <3>2 DEF Open, OpenRefused, windowVars
      <4> QED
        BY <4>1 DEF WindowIInv, Holds
    <3> QED
      BY <3>1, <3>2
  <2>3. CASE UNCHANGED << vars, m_words >>
    BY <2>3 DEF vars, windowVars, WindowIInv, Holds
  <2> QED
    BY <2>1, <2>2, <2>3 DEF MCNext
<1> QED
  BY <1>2, <1>3 DEF WindowIInv

(* The channel of the transport: whatever arrives, in whatever order, the  *)
(* machine words of the window are its set of bits, the bits are exactly   *)
(* the accepted numbers, and no number is accepted or delivered twice      *)
(* (ReplayWindow.h CheckAndUpdate and SlideForward, SecureChannel.h Open). *)
THEOREM WindowCorrect == TransportSpec => [](WindowExact /\ DeliveredAtMostOnce)
<1>1. TransportInit => WindowIInv
  BY WindowIInvInit DEF TransportInit
<1>2. WindowIInv /\ [TransportNext]_allVars => WindowIInv'
  <2> SUFFICES ASSUME WindowIInv, [TransportNext]_allVars PROVE WindowIInv'
    OBVIOUS
  <2>1. [MCNext]_<< vars, m_words >>
    BY DEF TransportNext, ChannelNext, ReliabilityNext, LoopbackNext, ServerNext,
       WireNext, StepsNext, TimerNext, allVars, channel
  <2> QED
    BY <2>1, WindowIInvStep
<1>3. WindowIInv => WindowExact /\ DeliveredAtMostOnce
  <2> SUFFICES ASSUME WindowIInv PROVE WindowExact /\ DeliveredAtMostOnce
    OBVIOUS
  <2>1. WindowExact
    BY HeldBits DEF WindowIInv, WindowExact, WordsHoldBits
  <2>2. DeliveredAtMostOnce
    BY DEF WindowIInv, ChannelInv, TypeOK, WindowTypeOK, NeverFreshTwice, DeliveredAtMostOnce,
       PacketNumbers
  <2> QED
    BY <2>1, <2>2
<1> QED
  BY <1>1, <1>2, <1>3, PTL DEF TransportSpec

(***************************************************************************)
(* The receive threads and main                                            *)
(***************************************************************************)
LEMMA ServerSameCardinality == \A S : Server!Cardinality(S) = Cardinality(S)
BY DEF Server!Cardinality, Cardinality

(* The cancelled receives, each once. *)
LEMMA CancelledListed ==
    LET S == { o \in Ops : ops[o] = "posted" } IN
    /\ Server!Cancelled \in Seq(Ops)
    /\ \A i \in 1 .. Len(Server!Cancelled) : Server!Cancelled[i] \in S
<1> DEFINE S == { o \in Ops : ops[o] = "posted" }
<1>1. IsFiniteSet(S) /\ Cardinality(S) \in Nat /\ ExistsBijection(1 .. Cardinality(S), S)
  BY ServerAssumption, FS_Subset, FS_CardinalityType
<1>2. PICK f \in [1 .. Cardinality(S) -> S] : Server!IsInjective(f)
  BY <1>1 DEF ExistsBijection, Bijection, Injection, IsInjective, Server!IsInjective
<1>3. Server!SetToSeq(S) \in [1 .. Cardinality(S) -> S]
  BY <1>2, ServerSameCardinality DEF Server!SetToSeq
<1>4. PICK n \in Nat : n = Cardinality(S)
  BY <1>1
<1>5. Server!Cancelled \in [1 .. n -> S]
  BY <1>3, <1>4 DEF Server!Cancelled
<1>6. Server!Cancelled \in Seq(S)
  BY <1>5
<1>7. Seq(S) \subseteq Seq(Ops)
  OBVIOUS
<1>8. Len(Server!Cancelled) = n
  BY <1>5, <1>6
<1> QED
  BY <1>5, <1>6, <1>7, <1>8

StopsOf(P) == { i \in 1 .. Len(P) : P[i].key = "stop" }

LEMMA StopsFinite ==
    ASSUME NEW C, NEW P \in Seq(C)
    PROVE  IsFiniteSet(StopsOf(P)) /\ Cardinality(StopsOf(P)) \in Nat
<1>1. Len(P) \in Int /\ 1 \in Int
  OBVIOUS
<1>2. IsFiniteSet(1 .. Len(P))
  BY <1>1, FS_Interval
<1>3. StopsOf(P) \in SUBSET (1 .. Len(P))
  BY DEF StopsOf
<1> QED
  BY <1>2, <1>3, FS_Subset, FS_CardinalityType

(* Taking the head of the port takes its sentinel, if it is one. *)
LEMMA StopsTail ==
    ASSUME NEW C, NEW P \in Seq(C), P # << >>
    PROVE  Cardinality(StopsOf(Tail(P))) =
             IF Head(P).key = "stop" THEN Cardinality(StopsOf(P)) - 1 ELSE Cardinality(StopsOf(P))
<1>1. /\ Tail(P) \in Seq(C) /\ Len(P) \in Nat /\ Len(P) >= 1 /\ Len(Tail(P)) = Len(P) - 1
      /\ Head(P) = P[1] /\ \A i \in 1 .. Len(P) - 1 : Tail(P)[i] = P[i + 1]
  OBVIOUS
<1> DEFINE T == StopsOf(Tail(P))
           f == [i \in T |-> i + 1]
<1>2. IsFiniteSet(T) /\ IsFiniteSet(StopsOf(P)) /\ Cardinality(StopsOf(P)) \in Nat
  BY <1>1, StopsFinite
<1>3. f \in Bijection(T, StopsOf(P) \ {1})
  <2>1. T \subseteq Nat
    BY DEF StopsOf
  <2>2. \A i \in T : i + 1 \in StopsOf(P) \ {1}
    BY <1>1 DEF StopsOf
  <2>3. f \in [T -> StopsOf(P) \ {1}]
    BY <2>2
  <2>4. \A i, j \in T : f[i] = f[j] => i = j
    BY <2>1
  <2>5. \A j \in StopsOf(P) \ {1} : \E i \in T : f[i] = j
    <3> SUFFICES ASSUME NEW j \in StopsOf(P) \ {1} PROVE \E i \in T : f[i] = j
      OBVIOUS
    <3>1. PICK i \in Nat : i = j - 1 /\ i \in 1 .. Len(P) - 1
      BY <1>1 DEF StopsOf
    <3>2. i \in T
      BY <1>1, <3>1 DEF StopsOf
    <3>3. f[i] = j
      BY <3>1, <3>2 DEF StopsOf
    <3> QED
      BY <3>2, <3>3
  <2> QED
    BY <2>3, <2>4, <2>5 DEF Bijection, Injection, Surjection, IsInjective
<1>4. Cardinality(StopsOf(P) \ {1}) = Cardinality(T)
  <2>1. ExistsBijection(T, StopsOf(P) \ {1})
    BY <1>3 DEF ExistsBijection
  <2> QED
    BY <1>2, <2>1, FS_Bijection
<1>5. 1 \in StopsOf(P) <=> Head(P).key = "stop"
  BY <1>1 DEF StopsOf
<1> QED
  BY <1>2, <1>4, <1>5, FS_RemoveElement

Living(W) == { w \in Workers : W[w].at # "exited" }

LEMMA LivingFinite ==
    ASSUME NEW W
    PROVE  IsFiniteSet(Living(W)) /\ Cardinality(Living(W)) \in Nat
           /\ Cardinality(Living(W)) <= Cardinality(Workers) /\ Cardinality(Workers) \in Nat
<1>1. Living(W) \in SUBSET Workers
  BY DEF Living
<1> QED
  BY <1>1, ServerAssumption, FS_Subset, FS_CardinalityType

LEMMA LivingLeaves ==
    ASSUME NEW W, NEW V, NEW w \in Workers, \A v \in Workers : v # w => V[v].at = W[v].at,
           W[w].at # "exited"
    PROVE  Cardinality(Living(V)) =
             IF V[w].at = "exited" THEN Cardinality(Living(W)) - 1 ELSE Cardinality(Living(W))
<1>1. CASE V[w].at = "exited"
  <2>1. Living(V) = Living(W) \ {w} /\ w \in Living(W)
    BY <1>1 DEF Living
  <2> QED
    BY <1>1, <2>1, LivingFinite, FS_RemoveElement
<1>2. CASE V[w].at # "exited"
  <2>1. Living(V) = Living(W)
    BY <1>2 DEF Living
  <2> QED
    BY <1>2, <2>1
<1> QED
  BY <1>1, <1>2

(* CloseSocket puts a sentinel on the port for each worker. *)
LEMMA SentinelsSuffice ==
    ASSUME NEW C, NEW P \in Seq(C), NEW n \in Nat, NEW Q \in Seq(C), Len(Q) = n,
           \A i \in 1 .. n : Q[i].key = "stop"
    PROVE  n <= Cardinality(StopsOf(P \o Q))
<1>1. P \o Q \in Seq(C) /\ Len(P \o Q) = Len(P) + n /\ Len(P) \in Nat
      /\ \A i \in 1 .. n : (P \o Q)[Len(P) + i] = Q[i]
  OBVIOUS
<1> DEFINE f == [i \in 1 .. n |-> Len(P) + i]
<1>2. f \in Injection(1 .. n, StopsOf(P \o Q))
  <2>1. \A i \in 1 .. n : Len(P) + i \in StopsOf(P \o Q)
    BY <1>1 DEF StopsOf
  <2>2. f \in [1 .. n -> StopsOf(P \o Q)]
    BY <2>1
  <2>3. \A i, j \in 1 .. n : f[i] = f[j] => i = j
    BY <1>1
  <2> QED
    BY <2>2, <2>3 DEF Injection, IsInjective
<1>3. IsFiniteSet(StopsOf(P \o Q))
  BY <1>1, StopsFinite
<1>4. Cardinality(1 .. n) <= Cardinality(StopsOf(P \o Q))
  BY <1>2, <1>3, FS_Injection
<1>5. Cardinality(1 .. n) = n
  BY FS_Interval
<1> QED
  BY <1>4, <1>5

-----------------------------------------------------------------------------
Completions == [key : {"recv"}, op : Ops, dg : Nat] \cup {Server!StopKey}
OpStates == {"none", "posted", "done", "lost", "freed"}
WorkerStates ==
    {Server!Absent, Server!AtTop, Server!Waiting, Server!Exited}
    \cup [at : {"callback"}, op : Ops, dg : Nat \ {0}] \cup [at : {"repost"}, op : Ops, dg : Nat]

LEMMA CompletionIs ==
    ASSUME NEW c \in Completions
    PROVE  /\ c.key \in {"recv", "stop"} /\ c.dg \in Nat
           /\ c.key = "stop" => c.op = "none" /\ c.dg = 0
           /\ c.key = "recv" => c.op \in Ops
BY DEF Completions, Server!StopKey

LEMMA WorkerIs ==
    ASSUME NEW u \in WorkerStates
    PROVE  /\ u.at \in {"none", "top", "wait", "exited", "callback", "repost"}
           /\ u.at \in {"callback", "repost"} => u.op \in Ops
           /\ u.at \notin {"callback", "repost"} => u.op = "none"
           /\ u.at = "callback" => u.dg \in Nat /\ u.dg >= 1
           /\ u.dg \in Nat
BY DEF WorkerStates, Server!Absent, Server!AtTop, Server!Waiting, Server!Exited

(* Each operation is posted, on the port or with one worker: the pool.     *)
PoolSound(O, P, W, fails) ==
    /\ \A i, j \in 1 .. Len(P) : P[i].op \in Ops /\ P[i].op = P[j].op => i = j
    /\ \A v, w \in Workers : W[v].op \in Ops /\ W[v].op = W[w].op => v = w
    /\ \A i \in 1 .. Len(P), w \in Workers : P[i].op \in Ops => P[i].op # W[w].op
    /\ \A o \in Ops : O[o] = "done" <=> \/ \E i \in 1 .. Len(P) : P[i].op = o
                                        \/ \E w \in Workers : W[w].op = o
    /\ Cardinality({ o \in Ops : O[o] = "lost" }) <= fails

(* Each of the n datagrams that arrived is in one place: on the port, with *)
(* a worker that has not called back yet, or in the sequence A of those    *)
(* handed over.                                                            *)
TokenSound(A, P, W, n) ==
    /\ \A i, j \in 1 .. Len(A) : A[i] = A[j] => i = j
    /\ \A i \in 1 .. Len(A) : A[i] >= 1 /\ A[i] <= n
    /\ \A i \in 1 .. Len(P) : P[i].dg <= n
    /\ \A i, j \in 1 .. Len(P) : P[i].dg # 0 /\ P[i].dg = P[j].dg => i = j
    /\ \A v, w \in Workers : W[v].at = "callback" /\ W[w].at = "callback" /\ W[v].dg = W[w].dg => v = w
    /\ \A w \in Workers : W[w].at = "callback" =>
          /\ W[w].dg <= n
          /\ \A i \in 1 .. Len(P) : P[i].dg # W[w].dg
          /\ \A i \in 1 .. Len(A) : A[i] # W[w].dg
    /\ \A i \in 1 .. Len(A), j \in 1 .. Len(P) : A[i] # P[j].dg

Covered(A, P, W, n) ==
    \A k \in 1 .. n : \/ \E i \in 1 .. Len(A) : A[i] = k
                      \/ \E i \in 1 .. Len(P) : P[i].dg = k
                      \/ \E w \in Workers : W[w].at = "callback" /\ W[w].dg = k

(* The port grows by one completion. *)
LEMMA TokenArrives ==
    ASSUME NEW A \in Seq(Nat), NEW P \in Seq(Completions), NEW W \in [Workers -> WorkerStates],
           NEW n \in Nat, NEW m \in Nat, NEW c \in Completions,
           \/ c.dg = 0 /\ m = n
           \/ c.dg = n + 1 /\ m = n + 1,
           TokenSound(A, P, W, n)
    PROVE  /\ TokenSound(A, Append(P, c), W, m)
           /\ Covered(A, P, W, n) => Covered(A, Append(P, c), W, m)
<1>1. /\ Len(Append(P, c)) = Len(P) + 1 /\ Len(P) \in Nat /\ Append(P, c)[Len(P) + 1] = c
      /\ \A i \in 1 .. Len(P) : Append(P, c)[i] = P[i] /\ P[i] \in Completions
  OBVIOUS
<1>2. \A i \in 1 .. Len(P) + 1 : i \in 1 .. Len(P) \/ i = Len(P) + 1
  BY <1>1
<1>3. \A i \in 1 .. Len(P) : P[i].dg \in Nat /\ P[i].dg <= n
  BY <1>1, CompletionIs DEF TokenSound
<1>4. \A w \in Workers : W[w].at = "callback" => W[w].dg \in Nat /\ W[w].dg >= 1 /\ W[w].dg <= n
  BY WorkerIs DEF TokenSound
<1>5. \A i \in 1 .. Len(A) : A[i] \in Nat /\ A[i] >= 1 /\ A[i] <= n
  BY DEF TokenSound
<1>6. TokenSound(A, Append(P, c), W, m)
  BY <1>1, <1>2, <1>3, <1>4, <1>5, SMTT(60) DEF TokenSound
<1>7. ASSUME Covered(A, P, W, n) PROVE Covered(A, Append(P, c), W, m)
  <2> SUFFICES ASSUME NEW k \in 1 .. m
               PROVE  \/ \E i \in 1 .. Len(A) : A[i] = k
                      \/ \E i \in 1 .. Len(Append(P, c)) : Append(P, c)[i].dg = k
                      \/ \E w \in Workers : W[w].at = "callback" /\ W[w].dg = k
    BY DEF Covered
  <2>1. CASE k \in 1 .. n
    BY <1>1, <1>2, <1>7, <2>1, SMTT(60) DEF Covered
  <2>2. CASE k \notin 1 .. n
    BY <1>1, <2>2
  <2> QED
    BY <2>1, <2>2
<1> QED
  BY <1>6, <1>7

LEMMA TokenCloses ==
    ASSUME NEW A, NEW P \in Seq(Completions), NEW W \in [Workers -> WorkerStates],
           NEW n \in Nat, NEW Q \in Seq(Completions), \A i \in 1 .. Len(Q) : Q[i].dg = 0,
           TokenSound(A, P, W, n)
    PROVE  TokenSound(A, P \o Q, W, n)
<1>1. /\ Len(P \o Q) = Len(P) + Len(Q) /\ Len(P) \in Nat /\ Len(Q) \in Nat
      /\ \A i \in 1 .. Len(P) : (P \o Q)[i] = P[i]
      /\ \A i \in 1 .. Len(Q) : (P \o Q)[Len(P) + i] = Q[i]
  OBVIOUS
<1>2. \A i \in 1 .. Len(P) + Len(Q) :
        (P \o Q)[i].dg = IF i <= Len(P) THEN P[i].dg ELSE 0
  <2> SUFFICES ASSUME NEW i \in 1 .. Len(P) + Len(Q)
               PROVE  (P \o Q)[i].dg = IF i <= Len(P) THEN P[i].dg ELSE 0
    OBVIOUS
  <2>1. CASE i <= Len(P)
    BY <1>1, <2>1
  <2>2. CASE ~(i <= Len(P))
    <3>1. PICK j \in 1 .. Len(Q) : i = Len(P) + j
      <4>1. i - Len(P) \in 1 .. Len(Q) /\ i = Len(P) + (i - Len(P))
        BY <1>1, <2>2
      <4> QED
        BY <4>1
    <3> QED
      BY <1>1, <2>2, <3>1
  <2> QED
    BY <2>1, <2>2
<1>3. \A w \in Workers : W[w].at = "callback" => W[w].dg \in Nat /\ W[w].dg >= 1
  BY WorkerIs
<1>4. \A i \in 1 .. Len(P) + Len(Q) : (P \o Q)[i].dg # 0 => i \in 1 .. Len(P)
  BY <1>1, <1>2
<1>5. \A i \in 1 .. Len(A) : A[i] >= 1 /\ A[i] # 0
  BY DEF TokenSound
<1> QED
  BY <1>1, <1>2, <1>3, <1>4, <1>5, SMTT(60) DEF TokenSound

LEMMA TokenEmptied ==
    ASSUME NEW A, NEW P, NEW W, NEW n \in Nat, TokenSound(A, P, W, n)
    PROVE  TokenSound(A, << >>, W, n)
BY DEF TokenSound

LEMMA TokenWorkers ==
    ASSUME NEW A, NEW P, NEW W, NEW V, NEW n,
           \A w \in Workers : V[w].at = "callback" => V[w] = W[w],
           TokenSound(A, P, W, n)
    PROVE  TokenSound(A, P, V, n)
BY DEF TokenSound

LEMMA CoveredWorkers ==
    ASSUME NEW A, NEW P, NEW W, NEW V, NEW n,
           \A w \in Workers : W[w].at = "callback" => V[w] = W[w],
           Covered(A, P, W, n)
    PROVE  Covered(A, P, V, n)
BY DEF Covered

(* A worker takes the head of the port. *)
LEMMA TokenTaken ==
    ASSUME NEW A \in Seq(Nat), NEW P \in Seq(Completions), P # << >>,
           NEW W \in [Workers -> WorkerStates], NEW n \in Nat, NEW w \in Workers,
           W[w].at = "wait", NEW u, u.at = "callback" => u.dg = Head(P).dg,
           Head(P).dg > 0 => u.at = "callback", u.at = "callback" => Head(P).dg > 0,
           TokenSound(A, P, W, n)
    PROVE  /\ TokenSound(A, Tail(P), [W EXCEPT ![w] = u], n)
           /\ Covered(A, P, W, n) => Covered(A, Tail(P), [W EXCEPT ![w] = u], n)
<1>1. /\ Tail(P) \in Seq(Completions) /\ Len(P) \in Nat /\ Len(P) >= 1 /\ Len(Tail(P)) = Len(P) - 1
      /\ Head(P) = P[1] /\ \A i \in 1 .. Len(P) - 1 : Tail(P)[i] = P[i + 1] /\ i + 1 \in 1 .. Len(P)
      /\ 1 \in 1 .. Len(P) /\ \A i \in 1 .. Len(P) : P[i] \in Completions
  OBVIOUS
<1>2. \A i \in 1 .. Len(P) : P[i].dg \in Nat
  BY <1>1, CompletionIs
<1> DEFINE V == [W EXCEPT ![w] = u]
<1>3. V[w] = u /\ \A v \in Workers : v # w => V[v] = W[v]
  OBVIOUS
<1>4. \A i \in 1 .. Len(P) - 1 : i + 1 # 1 /\ \A j \in 1 .. Len(P) - 1 : i + 1 = j + 1 => i = j
  BY <1>1
<1>5. \A v \in Workers : V[v].at = "callback" =>
        \/ v # w /\ V[v] = W[v] /\ W[v].at = "callback"
        \/ v = w /\ V[v].dg = P[1].dg /\ P[1].dg > 0
  BY <1>1, <1>3
<1>6. TokenSound(A, Tail(P), V, n)
  <2> HIDE DEF V
  <2>1. \A i \in 1 .. Len(Tail(P)) : Tail(P)[i].dg <= n
    BY <1>1 DEF TokenSound
  <2>2. \A i, j \in 1 .. Len(Tail(P)) : Tail(P)[i].dg # 0 /\ Tail(P)[i].dg = Tail(P)[j].dg => i = j
    BY <1>1, <1>4 DEF TokenSound
  <2>3. \A v, x \in Workers :
          V[v].at = "callback" /\ V[x].at = "callback" /\ V[v].dg = V[x].dg => v = x
    BY <1>1, <1>5 DEF TokenSound
  <2>4. \A v \in Workers : V[v].at = "callback" =>
          /\ V[v].dg <= n
          /\ \A i \in 1 .. Len(Tail(P)) : Tail(P)[i].dg # V[v].dg
          /\ \A i \in 1 .. Len(A) : A[i] # V[v].dg
    <3> SUFFICES ASSUME NEW v \in Workers, V[v].at = "callback"
                 PROVE  /\ V[v].dg <= n
                        /\ \A i \in 1 .. Len(Tail(P)) : Tail(P)[i].dg # V[v].dg
                        /\ \A i \in 1 .. Len(A) : A[i] # V[v].dg
      OBVIOUS
    <3>1. CASE v # w /\ V[v] = W[v] /\ W[v].at = "callback"
      BY <1>1, <3>1 DEF TokenSound
    <3>2. CASE V[v].dg = P[1].dg /\ P[1].dg > 0
      <4>1. \A i \in 1 .. Len(P) - 1 : P[i + 1].dg # P[1].dg
        BY <1>1, <1>2, <1>4, <3>2 DEF TokenSound
      <4> QED
        BY <1>1, <3>2, <4>1 DEF TokenSound
    <3> QED
      BY <1>5, <3>1, <3>2
  <2>5. \A i \in 1 .. Len(A), j \in 1 .. Len(Tail(P)) : A[i] # Tail(P)[j].dg
    BY <1>1 DEF TokenSound
  <2> QED
    BY <2>1, <2>2, <2>3, <2>4, <2>5 DEF TokenSound
<1>7. ASSUME Covered(A, P, W, n) PROVE Covered(A, Tail(P), V, n)
  <2> HIDE DEF V
  <2> SUFFICES ASSUME NEW k \in 1 .. n
               PROVE  \/ \E i \in 1 .. Len(A) : A[i] = k
                      \/ \E i \in 1 .. Len(Tail(P)) : Tail(P)[i].dg = k
                      \/ \E v \in Workers : V[v].at = "callback" /\ V[v].dg = k
    BY DEF Covered
  <2>1. CASE \E i \in 1 .. Len(A) : A[i] = k
    BY <2>1
  <2>2. CASE \E i \in 1 .. Len(P) : P[i].dg = k
    <3>1. PICK i \in 1 .. Len(P) : P[i].dg = k
      BY <2>2
    <3>2. CASE i = 1
      BY <1>1, <1>3, <3>1, <3>2
    <3>3. CASE i # 1
      <4>1. PICK j \in 1 .. Len(P) - 1 : j + 1 = i
        <5>1. i - 1 \in 1 .. Len(P) - 1 /\ (i - 1) + 1 = i
          BY <1>1, <3>3
        <5> QED
          BY <5>1
      <4> QED
        BY <1>1, <3>1, <4>1
    <3> QED
      BY <3>2, <3>3
  <2>3. CASE \E v \in Workers : W[v].at = "callback" /\ W[v].dg = k
    BY <1>3, <2>3
  <2> QED
    BY <1>7, <2>1, <2>2, <2>3 DEF Covered
<1> QED
  BY <1>6, <1>7

(* The callback hands its datagram over. *)
LEMMA TokenHandedOver ==
    ASSUME NEW A \in Seq(Nat), NEW P \in Seq(Completions), NEW W \in [Workers -> WorkerStates],
           NEW n \in Nat, NEW w \in Workers, W[w].at = "callback", NEW u, u.at # "callback",
           TokenSound(A, P, W, n)
    PROVE  /\ TokenSound(Append(A, W[w].dg), P, [W EXCEPT ![w] = u], n)
           /\ Covered(A, P, W, n) => Covered(Append(A, W[w].dg), P, [W EXCEPT ![w] = u], n)
<1> DEFINE V == [W EXCEPT ![w] = u]
           B == Append(A, W[w].dg)
<1>1. V[w] = u /\ \A v \in Workers : v # w => V[v] = W[v]
  OBVIOUS
<1>2. W[w].dg \in Nat /\ W[w].dg >= 1
  BY WorkerIs
<1>3. /\ Len(B) = Len(A) + 1 /\ Len(A) \in Nat /\ B[Len(A) + 1] = W[w].dg
      /\ \A i \in 1 .. Len(A) : B[i] = A[i]
  BY <1>2
<1>4. \A i \in 1 .. Len(A) + 1 : i \in 1 .. Len(A) \/ i = Len(A) + 1
  BY <1>3
<1>5. \A v \in Workers : V[v].at = "callback" => v # w /\ V[v] = W[v]
  BY <1>1
<1>6. TokenSound(B, P, V, n)
  <2> HIDE DEF V, B
  <2>0. \A i \in 1 .. Len(B) :
          (i \in 1 .. Len(A) /\ B[i] = A[i] /\ A[i] # W[w].dg) \/ (i = Len(A) + 1 /\ B[i] = W[w].dg)
    BY <1>3, <1>4 DEF TokenSound
  <2>1. \A i, j \in 1 .. Len(B) : B[i] = B[j] => i = j
    BY <2>0 DEF TokenSound
  <2>2. \A i \in 1 .. Len(B) : B[i] >= 1 /\ B[i] <= n
    BY <1>2, <1>3, <1>4 DEF TokenSound
  <2>3. \A v \in Workers : V[v].at = "callback" =>
          /\ V[v].dg <= n
          /\ \A i \in 1 .. Len(P) : P[i].dg # V[v].dg
          /\ \A i \in 1 .. Len(B) : B[i] # V[v].dg
    <3> SUFFICES ASSUME NEW v \in Workers, V[v].at = "callback"
                 PROVE  /\ V[v].dg <= n
                        /\ \A i \in 1 .. Len(P) : P[i].dg # V[v].dg
                        /\ \A i \in 1 .. Len(B) : B[i] # V[v].dg
      OBVIOUS
    <3>1. v # w /\ V[v] = W[v]
      BY <1>5
    <3>2. V[v].dg # W[w].dg /\ V[v].dg <= n
      BY <3>1 DEF TokenSound
    <3>3. \A i \in 1 .. Len(P) : P[i].dg # V[v].dg
      BY <3>1 DEF TokenSound
    <3>4. \A i \in 1 .. Len(A) : A[i] # V[v].dg
      BY <3>1 DEF TokenSound
    <3> QED
      BY <2>0, <3>2, <3>3, <3>4
  <2>4. \A i \in 1 .. Len(B), j \in 1 .. Len(P) : B[i] # P[j].dg
    BY <1>3, <1>4, SMTT(60) DEF TokenSound
  <2>5. \A v, x \in Workers :
          V[v].at = "callback" /\ V[x].at = "callback" /\ V[v].dg = V[x].dg => v = x
    BY <1>5 DEF TokenSound
  <2> QED
    BY <2>1, <2>2, <2>3, <2>4, <2>5 DEF TokenSound
<1>7. ASSUME Covered(A, P, W, n) PROVE Covered(B, P, V, n)
  <2>1. \A i \in 1 .. Len(A) : i \in 1 .. Len(B) /\ B[i] = A[i]
    BY <1>3
  <2>2. Len(A) + 1 \in 1 .. Len(B)
    BY <1>3
  <2> HIDE DEF V, B
  <2> SUFFICES ASSUME NEW k \in 1 .. n
               PROVE  \/ \E i \in 1 .. Len(B) : B[i] = k
                      \/ \E i \in 1 .. Len(P) : P[i].dg = k
                      \/ \E v \in Workers : V[v].at = "callback" /\ V[v].dg = k
    BY DEF Covered
  <2>3. CASE \E i \in 1 .. Len(A) : A[i] = k
    BY <2>1, <2>3
  <2>4. CASE \E i \in 1 .. Len(P) : P[i].dg = k
    BY <2>4
  <2>5. CASE \E v \in Workers : W[v].at = "callback" /\ W[v].dg = k
    <3>1. PICK v \in Workers : W[v].at = "callback" /\ W[v].dg = k
      BY <2>5
    <3>2. CASE v = w
      BY <1>3, <2>2, <3>1, <3>2
    <3>3. CASE v # w
      BY <1>1, <3>1, <3>3
    <3> QED
      BY <3>2, <3>3
  <2> QED
    BY <1>7, <2>3, <2>4, <2>5 DEF Covered
<1> QED
  BY <1>6, <1>7

-----------------------------------------------------------------------------
(* A posted receive completes. *)
LEMMA PoolCompletes ==
    ASSUME NEW O \in [Ops -> OpStates], NEW P \in Seq(Completions), NEW W \in [Workers -> WorkerStates],
           NEW fails \in Nat, NEW more \in Nat, fails <= more, NEW o \in Ops, O[o] = "posted",
           NEW c \in Completions, c.op = o, PoolSound(O, P, W, fails)
    PROVE  PoolSound([O EXCEPT ![o] = "done"], Append(P, c), W, more)
<1> DEFINE N == [O EXCEPT ![o] = "done"]
           Q == Append(P, c)
<1>1. N[o] = "done" /\ \A x \in Ops : x # o => N[x] = O[x]
  OBVIOUS
<1>2. /\ Len(Q) = Len(P) + 1 /\ Len(P) \in Nat /\ Q[Len(P) + 1] = c
      /\ \A i \in 1 .. Len(P) : Q[i] = P[i]
  OBVIOUS
<1>3. ~(O[o] = "done")
  OBVIOUS
<1>4. (\A i \in 1 .. Len(P) : P[i].op # o) /\ \A w \in Workers : W[w].op # o
  BY <1>3 DEF PoolSound
<1>5. \A i \in 1 .. Len(Q) :
        (i \in 1 .. Len(P) /\ Q[i] = P[i] /\ P[i].op # o) \/ (i = Len(P) + 1 /\ Q[i].op = o)
  BY <1>2, <1>4
<1>6. { x \in Ops : N[x] = "lost" } = { x \in Ops : O[x] = "lost" }
  BY <1>1
<1>7. Cardinality({ x \in Ops : O[x] = "lost" }) \in Nat
  BY ServerAssumption, FS_Subset, FS_CardinalityType
<1> HIDE DEF N, Q
<1>8. \A i, j \in 1 .. Len(Q) : Q[i].op \in Ops /\ Q[i].op = Q[j].op => i = j
  BY <1>5 DEF PoolSound
<1>9. \A i \in 1 .. Len(Q), w \in Workers : Q[i].op \in Ops => Q[i].op # W[w].op
  BY <1>4, <1>5 DEF PoolSound
<1>10. \A x \in Ops : N[x] = "done" <=> \/ \E i \in 1 .. Len(Q) : Q[i].op = x
                                        \/ \E w \in Workers : W[w].op = x
  <2> SUFFICES ASSUME NEW x \in Ops
               PROVE  N[x] = "done" <=> \/ \E i \in 1 .. Len(Q) : Q[i].op = x
                                        \/ \E w \in Workers : W[w].op = x
    OBVIOUS
  <2>1. CASE x = o
    <3>1. Len(P) + 1 \in 1 .. Len(Q)
      BY <1>2
    <3> QED
      BY <1>1, <1>2, <2>1, <3>1
  <2>2. CASE x # o
    <3>1. (\E i \in 1 .. Len(Q) : Q[i].op = x) <=> (\E i \in 1 .. Len(P) : P[i].op = x)
      <4>1. \A i \in 1 .. Len(P) : i \in 1 .. Len(Q) /\ Q[i] = P[i]
        BY <1>2
      <4> QED
        BY <1>5, <2>2, <4>1
    <3> QED
      BY <1>1, <2>2, <3>1 DEF PoolSound
  <2> QED
    BY <2>1, <2>2
<1>12. Cardinality({ x \in Ops : O[x] = "lost" }) <= fails
  BY DEF PoolSound
<1>13. Cardinality({ x \in Ops : O[x] = "lost" }) <= more
  BY <1>7, <1>12
<1>11. Cardinality({ x \in Ops : N[x] = "lost" }) <= more
  BY <1>6, <1>13
<1> QED
  BY <1>8, <1>9, <1>10, <1>11 DEF PoolSound, N, Q

(* A worker that keeps what it has, or had nothing. *)
LEMMA PoolWorkers ==
    ASSUME NEW O, NEW P, NEW W, NEW V, NEW fails, \A w \in Workers : V[w].op = W[w].op,
           PoolSound(O, P, W, fails)
    PROVE  PoolSound(O, P, V, fails)
BY DEF PoolSound

LEMMA PoolTaken ==
    ASSUME NEW O, NEW P \in Seq(Completions), P # << >>, NEW W \in [Workers -> WorkerStates],
           NEW fails, NEW w \in Workers, W[w].op = "none", NEW u, u.op = Head(P).op,
           PoolSound(O, P, W, fails)
    PROVE  PoolSound(O, Tail(P), [W EXCEPT ![w] = u], fails)
<1> DEFINE V == [W EXCEPT ![w] = u]
           Q == Tail(P)
<1>1. /\ Len(P) \in Nat /\ Len(P) >= 1 /\ Len(Q) = Len(P) - 1
      /\ Head(P) = P[1] /\ \A i \in 1 .. Len(P) - 1 : Q[i] = P[i + 1] /\ i + 1 \in 1 .. Len(P)
      /\ 1 \in 1 .. Len(P)
  OBVIOUS
<1>2. V[w] = u /\ \A v \in Workers : v # w => V[v] = W[v]
  OBVIOUS
<1>3. "none" \notin Ops
  BY ServerAssumption
<1>4. \A i \in 1 .. Len(P) - 1 : i + 1 # 1 /\ \A j \in 1 .. Len(P) - 1 : i + 1 = j + 1 => i = j
  BY <1>1
<1> HIDE DEF V, Q
<1>5. \A i, j \in 1 .. Len(Q) : Q[i].op \in Ops /\ Q[i].op = Q[j].op => i = j
  BY <1>1, <1>4, SMTT(60) DEF PoolSound
<1>6. \A v, x \in Workers : V[v].op \in Ops /\ V[v].op = V[x].op => v = x
  BY <1>1, <1>2 DEF PoolSound
<1>7. \A i \in 1 .. Len(Q), v \in Workers : Q[i].op \in Ops => Q[i].op # V[v].op
  <2> SUFFICES ASSUME NEW i \in 1 .. Len(Q), NEW v \in Workers, Q[i].op \in Ops
               PROVE  Q[i].op # V[v].op
    OBVIOUS
  <2>1. Q[i].op = P[i + 1].op /\ i + 1 \in 1 .. Len(P) /\ i + 1 # 1
    BY <1>1, <1>4
  <2>2. CASE v = w
    BY <1>1, <1>2, <2>1, <2>2 DEF PoolSound
  <2>3. CASE v # w
    BY <1>2, <2>1, <2>3 DEF PoolSound
  <2> QED
    BY <2>2, <2>3
<1>8. \A o \in Ops : O[o] = "done" <=> \/ \E i \in 1 .. Len(Q) : Q[i].op = o
                                       \/ \E v \in Workers : V[v].op = o
  <2> SUFFICES ASSUME NEW o \in Ops
               PROVE  \/ \E i \in 1 .. Len(P) : P[i].op = o
                      \/ \E v \in Workers : W[v].op = o
                      <=> \/ \E i \in 1 .. Len(Q) : Q[i].op = o
                          \/ \E v \in Workers : V[v].op = o
    BY DEF PoolSound
  <2>1. ASSUME NEW i \in 1 .. Len(P), P[i].op = o
        PROVE  \/ \E j \in 1 .. Len(Q) : Q[j].op = o
               \/ \E v \in Workers : V[v].op = o
    <3>1. CASE i = 1
      BY <1>1, <1>2, <2>1, <3>1
    <3>2. CASE i # 1
      <4>1. i - 1 \in 1 .. Len(Q) /\ (i - 1) + 1 = i
        BY <1>1, <3>2
      <4>2. PICK j \in 1 .. Len(Q) : j + 1 = i
        BY <4>1
      <4> QED
        BY <1>1, <2>1, <4>2
    <3> QED
      BY <3>1, <3>2
  <2>2. ASSUME NEW v \in Workers, W[v].op = o PROVE \E x \in Workers : V[x].op = o
    BY <1>2, <1>3, <2>2
  <2>3. ASSUME NEW i \in 1 .. Len(Q), Q[i].op = o PROVE \E j \in 1 .. Len(P) : P[j].op = o
    BY <1>1, <2>3
  <2>4. ASSUME NEW v \in Workers, V[v].op = o
        PROVE  \/ \E i \in 1 .. Len(P) : P[i].op = o
               \/ \E x \in Workers : W[x].op = o
    BY <1>1, <1>2, <2>4
  <2> QED
    BY <2>1, <2>2, <2>3, <2>4
<1> QED
  BY <1>5, <1>6, <1>7, <1>8 DEF PoolSound, V, Q

(* A worker posts its operation again, or loses it to a failure. *)
LEMMA PoolReposted ==
    ASSUME NEW O \in [Ops -> OpStates], NEW P, NEW W \in [Workers -> WorkerStates],
           NEW fails \in Nat, NEW more \in Nat, NEW w \in Workers, W[w].op \in Ops,
           NEW s, \/ s = "posted" /\ more = fails
                  \/ s = "lost" /\ more = fails + 1,
           PoolSound(O, P, W, fails)
    PROVE  PoolSound([O EXCEPT ![W[w].op] = s], P, [W EXCEPT ![w] = Server!AtTop], more)
<1> DEFINE o == W[w].op
           V == [W EXCEPT ![w] = Server!AtTop]
           N == [O EXCEPT ![W[w].op] = s]
           lostOf(F) == { x \in Ops : F[x] = "lost" }
<1>1. V[w].op = "none" /\ \A v \in Workers : v # w => V[v] = W[v]
  BY DEF Server!AtTop
<1>2. N[o] = s /\ \A x \in Ops : x # o => N[x] = O[x]
  OBVIOUS
<1>3. "none" \notin Ops /\ o \in Ops
  BY ServerAssumption
<1>4. (\A i \in 1 .. Len(P) : P[i].op # o) /\ \A v \in Workers : v # w => W[v].op # o
  BY <1>3 DEF PoolSound
<1>5. s # "done"
  OBVIOUS
<1>6. IsFiniteSet(lostOf(O)) /\ Cardinality(lostOf(O)) \in Nat /\ Cardinality(lostOf(O)) <= fails
  BY ServerAssumption, FS_Subset, FS_CardinalityType DEF PoolSound
<1>7. Cardinality(lostOf(N)) <= more
  <2>1. CASE s = "posted"
    <3>1. lostOf(N) \in SUBSET lostOf(O)
      BY <1>2, <2>1
    <3>2. Cardinality(lostOf(N)) <= Cardinality(lostOf(O)) /\ IsFiniteSet(lostOf(N))
      BY <1>6, <3>1, FS_Subset
    <3>3. Cardinality(lostOf(N)) \in Nat
      BY <3>2, FS_CardinalityType
    <3> QED
      BY <1>6, <2>1, <3>2, <3>3
  <2>2. CASE s = "lost"
    <3>1. lostOf(N) = lostOf(O) \cup {o}
      BY <1>2, <1>3, <2>2
    <3>4. Cardinality(lostOf(O) \cup {o}) =
            IF o \in lostOf(O) THEN Cardinality(lostOf(O)) ELSE Cardinality(lostOf(O)) + 1
      BY <1>6, FS_AddElement
    <3>2. Cardinality(lostOf(N)) <= Cardinality(lostOf(O)) + 1
      BY <1>6, <3>1, <3>4
    <3>3. Cardinality(lostOf(N)) \in Nat
      BY <1>6, <3>1, FS_AddElement, FS_CardinalityType
    <3> QED
      BY <1>6, <2>2, <3>2, <3>3
  <2> QED
    BY <2>1, <2>2
<1> HIDE DEF V, N, o
<1>8. \A v, x \in Workers : V[v].op \in Ops /\ V[v].op = V[x].op => v = x
  BY <1>1, <1>3 DEF PoolSound
<1>9. \A i \in 1 .. Len(P), v \in Workers : P[i].op \in Ops => P[i].op # V[v].op
  BY <1>1, <1>3 DEF PoolSound
<1>10. \A x \in Ops : N[x] = "done" <=> \/ \E i \in 1 .. Len(P) : P[i].op = x
                                        \/ \E v \in Workers : V[v].op = x
  <2> SUFFICES ASSUME NEW x \in Ops
               PROVE  N[x] = "done" <=> \/ \E i \in 1 .. Len(P) : P[i].op = x
                                        \/ \E v \in Workers : V[v].op = x
    OBVIOUS
  <2>1. CASE x = o
    BY <1>1, <1>2, <1>3, <1>4, <1>5, <2>1
  <2>2. CASE x # o
    <3>1. (\E v \in Workers : V[v].op = x) <=> (\E v \in Workers : W[v].op = x)
      BY <1>1, <1>3, <2>2 DEF o
    <3> QED
      BY <1>2, <2>2, <3>1 DEF PoolSound
  <2> QED
    BY <2>1, <2>2
<1> QED
  BY <1>7, <1>8, <1>9, <1>10 DEF PoolSound, V, N

-----------------------------------------------------------------------------
Stages == {"config", "persist", "listen", "loop", "route", "step", "events", "send", "stopping",
           "returned"}

ListenerType(r, ph, O, P, W, inb, n, fails) ==
    /\ r \in BOOLEAN
    /\ ph \in {"down", "priming", "refused", "up", "stopping", "joining", "stopped"}
    /\ O \in [Ops -> OpStates]
    /\ P \in Seq(Completions) /\ W \in [Workers -> WorkerStates]
    /\ inb \in Seq(Nat) /\ n \in Nat /\ fails \in Nat

(* Where main is tells where the listener is. *)
PhaseSound(p, ph) ==
    /\ p \in Stages
    /\ p \in {"config", "persist"} => ph = "down"
    /\ p = "listen" => ph \in {"down", "priming", "refused", "up"}
    /\ p \in {"loop", "route", "step", "events", "send"} => ph = "up"
    /\ p = "stopping" => ph \in {"stopping", "joining", "stopped"}
    /\ p = "returned" => ph \in {"down", "refused", "stopped"}

HandedOver(p, r, d, i) == r \o (IF p = "route" THEN d ELSE << >>) \o i

(* What each phase of the listener means. *)
ListenerSound(r, ph, O, P, W, A, n, fails) ==
    /\ ph \in {"down", "priming", "refused"} =>
          P = << >> /\ n = 0 /\ A = << >> /\ \A w \in Workers : W[w] = Server!Absent
    /\ ph = "priming" => r
    /\ ph = "up" => r /\ PoolSound(O, P, W, fails) /\ Covered(A, P, W, n)
    /\ ph = "joining" => Cardinality(Living(W)) <= Cardinality(StopsOf(P))
    /\ ph = "stopped" => \A w \in Workers : W[w] = Server!Exited
    /\ TokenSound(A, P, W, n)
    /\ \A o \in Ops : O[o] = "freed" => ph = "stopped"

(* The economy events made are those enqueued and those to be drained. *)
EventsSound(p, db, up, ev, m, enq, com) ==
    /\ m \in Nat /\ db \in BOOLEAN /\ ev \in Seq(Nat) /\ enq \in Seq(Nat)
    /\ p # "events" => ev = << >>
    /\ db => /\ enq \o ev = [i \in 1 .. m |-> i]
             /\ p # "returned" => up
             /\ p = "returned" => ~up /\ com = enq
    /\ p \in {"config", "persist", "listen"} => m = 0 /\ enq = << >>
    /\ p \in {"config", "persist"} => ~db

ServerIInv ==
    /\ ListenerType(running, phase, ops, port, worker, inbound, arrived, failures)
    /\ drained \in Seq(Nat) /\ routed \in Seq(Nat)
    /\ PhaseSound(pc, phase)
    /\ ListenerSound(running, phase, ops, port, worker, HandedOver(pc, routed, drained, inbound),
                     arrived, failures)
    /\ EventsSound(pc, dbAvailable, persistUp, econEvents, made, enqueued, committed)

LEMMA HandedOverType ==
    ASSUME NEW p, NEW r \in Seq(Nat), NEW d \in Seq(Nat), NEW i \in Seq(Nat)
    PROVE  HandedOver(p, r, d, i) \in Seq(Nat)
BY DEF HandedOver

LEMMA ServerFollows ==
    ASSUME ServerIInv PROVE Server!ServerInv
<1> DEFINE A == HandedOver(pc, routed, drained, inbound)
<1>1. A \in Seq(Nat)
  BY HandedOverType DEF ServerIInv, ListenerType
<1>2. TokenSound(A, port, worker, arrived)
  BY DEF ServerIInv, ListenerSound
<1>3. worker \in [Workers -> WorkerStates] /\ port \in Seq(Completions) /\ arrived \in Nat
  BY DEF ServerIInv, ListenerType
<1>4. Server!NoUseAfterFree
  <2> SUFFICES ASSUME NEW w \in Workers, worker[w].at \in {"callback", "repost"},
                      ops[worker[w].op] = "freed"
               PROVE  FALSE
    BY DEF Server!NoUseAfterFree
  <2>1. worker[w].op \in Ops
    BY <1>3, WorkerIs
  <2>2. worker[w] = Server!Exited
    BY <2>1 DEF ServerIInv, ListenerSound
  <2> QED
    BY <2>2 DEF Server!Exited
<1>5. Server!NobodyStranded
  <2>1. phase = "joining" => Cardinality(Living(worker)) <= Cardinality(StopsOf(port))
    BY DEF ServerIInv, ListenerSound
  <2> QED
    BY <2>1, ServerSameCardinality DEF Server!NobodyStranded, Living, StopsOf
<1>6. Server!PoolAccounted
  <2> SUFFICES ASSUME phase = "up"
               PROVE  /\ \A o \in Ops : ops[o] = "done" <=>
                            \/ \E i \in 1 .. Len(port) : port[i].op = o
                            \/ \E w \in Workers : worker[w].op = o
                      /\ Server!Cardinality({ o \in Ops : ops[o] = "lost" }) <= failures
    BY DEF Server!PoolAccounted
  <2>1. PoolSound(ops, port, worker, failures)
    BY DEF ServerIInv, ListenerSound
  <2> QED
    BY <2>1, ServerSameCardinality DEF PoolSound
<1>7. Server!HandedOverOnce
  <2>1. \A i, j \in 1 .. Len(A) : A[i] = A[j] => i = j
    BY <1>2 DEF TokenSound
  <2>2. ASSUME phase = "up"
        PROVE  1 .. arrived = { A[i] : i \in 1 .. Len(A) } \cup ((Server!InHand \cup Server!OnPort) \ {0})
    <3>1. Covered(A, port, worker, arrived)
      BY <2>2 DEF ServerIInv, ListenerSound
    <3>2. ASSUME NEW k \in 1 .. arrived
          PROVE  k \in { A[i] : i \in 1 .. Len(A) } \cup ((Server!InHand \cup Server!OnPort) \ {0})
      <4> HIDE DEF A
      <4>1. k # 0
        BY <1>3
      <4>2. CASE \E i \in 1 .. Len(A) : A[i] = k
        BY <4>2
      <4>3. CASE \E i \in 1 .. Len(port) : port[i].dg = k
        BY <4>1, <4>3 DEF Server!OnPort
      <4>4. CASE \E w \in Workers : worker[w].at = "callback" /\ worker[w].dg = k
        BY <4>1, <4>4 DEF Server!InHand
      <4> QED
        BY <3>1, <4>2, <4>3, <4>4 DEF Covered
    <3>3. \A i \in 1 .. Len(A) : A[i] \in 1 .. arrived
      <4> HIDE DEF A
      <4> QED
        BY <1>1, <1>2, <1>3 DEF TokenSound
    <3>4. ASSUME NEW k \in Server!OnPort, k # 0 PROVE k \in 1 .. arrived
      <4>1. PICK i \in 1 .. Len(port) : k = port[i].dg
        BY <3>4 DEF Server!OnPort
      <4>2. port[i] \in Completions
        BY <1>3
      <4>3. port[i].dg \in Nat /\ port[i].dg <= arrived
        BY <1>2, <4>2, CompletionIs DEF TokenSound
      <4> QED
        BY <1>3, <3>4, <4>1, <4>3
    <3>5. ASSUME NEW k \in Server!InHand PROVE k \in 1 .. arrived
      <4>1. PICK w \in Workers : worker[w].at = "callback" /\ k = worker[w].dg
        BY <3>5 DEF Server!InHand
      <4>2. worker[w].dg \in Nat /\ worker[w].dg >= 1 /\ worker[w].dg <= arrived
        BY <1>2, <1>3, <4>1, WorkerIs DEF TokenSound
      <4> QED
        BY <1>3, <4>1, <4>2
    <3> HIDE DEF A
    <3> QED
      BY <3>2, <3>3, <3>4, <3>5
  <2> QED
    BY <2>1, <2>2 DEF Server!HandedOverOnce, HandedOver
<1>8. Server!NoReceiverOutlivesMain
  BY DEF Server!NoReceiverOutlivesMain, ServerIInv, PhaseSound, ListenerSound, Server!Absent,
     Server!Exited
<1>9. Server!ShutdownKeepsEvents
  <2> SUFFICES ASSUME pc = "returned", dbAvailable
               PROVE  committed = [i \in 1 .. made |-> i] /\ ~persistUp
    BY DEF Server!ShutdownKeepsEvents
  <2>1. econEvents = << >> /\ enqueued \in Seq(Nat) /\ committed = enqueued /\ ~persistUp
        /\ enqueued \o econEvents = [i \in 1 .. made |-> i]
    BY DEF ServerIInv, EventsSound
  <2>2. enqueued \o << >> = enqueued
    BY <2>1
  <2> QED
    BY <2>1, <2>2
<1> QED
  BY <1>4, <1>5, <1>6, <1>7, <1>8, <1>9 DEF Server!ServerInv

-----------------------------------------------------------------------------
(* The steps of the listener, with main where it is. *)
LEMMA ListenerFrame ==
    ASSUME ServerIInv, UNCHANGED Server!mainVars,
           ListenerType(running', phase', ops', port', worker', inbound', arrived', failures'),
           PhaseSound(pc, phase'),
           ListenerSound(running', phase', ops', port', worker',
                         HandedOver(pc, routed, drained, inbound'), arrived', failures')
    PROVE  ServerIInv'
<1>1. UNCHANGED << pc, dbAvailable, persistUp, drained, routed, econEvents, made, enqueued, committed >>
  BY DEF Server!mainVars
<1>2. /\ drained' \in Seq(Nat) /\ routed' \in Seq(Nat) /\ PhaseSound(pc', phase')
      /\ EventsSound(pc', dbAvailable', persistUp', econEvents', made', enqueued', committed')
  BY <1>1 DEF ServerIInv
<1>3. ListenerSound(running', phase', ops', port', worker',
                    HandedOver(pc', routed', drained', inbound'), arrived', failures')
  BY <1>1
<1> QED
  BY <1>2, <1>3 DEF ServerIInv

LEMMA WorkerRunsBetween ==
    ASSUME ServerIInv, NEW w \in Workers, worker[w].at \notin {"none", "exited"}
    PROVE  phase \in {"up", "stopping", "joining"}
BY DEF ServerIInv, ListenerType, ListenerSound, Server!Absent, Server!Exited

LEMMA StartSocketSound ==
    ASSUME ServerIInv, UNCHANGED Server!mainVars, pc = "listen", Server!StartSocket
    PROVE  ServerIInv'
<1>1. /\ phase = "down" /\ phase' \in {"priming", "refused"} /\ running' \in BOOLEAN
      /\ phase' = "priming" => running'
      /\ UNCHANGED << ops, port, worker, inbound, arrived, failures >>
  BY DEF Server!StartSocket, ServerIInv, ListenerType
<1>2. ListenerType(running', phase', ops', port', worker', inbound', arrived', failures')
  BY <1>1 DEF ServerIInv, ListenerType
<1>3. PhaseSound(pc, phase')
  BY <1>1 DEF ServerIInv, PhaseSound
<1>4. ListenerSound(running', phase', ops', port', worker',
                    HandedOver(pc, routed, drained, inbound'), arrived', failures')
  <2> DEFINE A == HandedOver(pc, routed, drained, inbound)
  <2>1. /\ port = << >> /\ arrived = 0 /\ A = << >> /\ \A w \in Workers : worker[w] = Server!Absent
        /\ TokenSound(A, port, worker, arrived) /\ \A o \in Ops : ops[o] # "freed"
    BY <1>1 DEF ServerIInv, ListenerSound
  <2> HIDE DEF A
  <2>2. ListenerSound(running', phase', ops, port, worker, A, arrived, failures)
    BY <1>1, <2>1 DEF ListenerSound
  <2> QED
    BY <1>1, <2>2 DEF A
<1> QED
  BY <1>2, <1>3, <1>4, ListenerFrame

LEMMA StartPoolSound ==
    ASSUME ServerIInv, UNCHANGED Server!mainVars, pc = "listen", Server!StartPool
    PROVE  ServerIInv'
<1> DEFINE A == HandedOver(pc, routed, drained, inbound)
<1>1. /\ phase = "priming" /\ UNCHANGED << port, inbound, arrived >>
      /\ port = << >> /\ arrived = 0 /\ A = << >> /\ \A w \in Workers : worker[w] = Server!Absent
      /\ TokenSound(A, port, worker, arrived) /\ failures \in Nat
  BY DEF Server!StartPool, ServerIInv, ListenerSound, ListenerType
<1> HIDE DEF A
<1>2. CASE /\ ops' = [o \in Ops |-> "posted"] /\ worker' = [w \in Workers |-> Server!AtTop]
           /\ phase' = "up" /\ UNCHANGED << running, failures >>
  <2>1. ListenerType(running', phase', ops', port', worker', inbound', arrived', failures')
    BY <1>1, <1>2 DEF ServerIInv, ListenerType, WorkerStates, OpStates
  <2>2. PhaseSound(pc, phase')
    BY <1>1, <1>2 DEF ServerIInv, PhaseSound
  <2>3. \A w \in Workers : worker'[w].op = "none" /\ worker'[w].at = "top"
    BY <1>2 DEF Server!AtTop
  <2>4. PoolSound(ops', port', worker', failures')
    <3>1. { o \in Ops : ops'[o] = "lost" } = {}
      BY <1>2
    <3>5. Cardinality({ o \in Ops : ops'[o] = "lost" }) = 0
      BY <3>1, FS_EmptySet
    <3>2. Cardinality({ o \in Ops : ops'[o] = "lost" }) <= failures'
      BY <1>1, <1>2, <3>5
    <3>3. "none" \notin Ops
      BY ServerAssumption
    <3>4. \A o \in Ops : ops'[o] # "done"
      BY <1>2
    <3> QED
      BY <1>1, <2>3, <3>2, <3>3, <3>4 DEF PoolSound
  <2>5. Covered(A, port', worker', arrived')
    BY <1>1 DEF Covered
  <2>6. TokenSound(A, port', worker', arrived')
    BY <1>1, <2>3 DEF TokenSound
  <2>7. running
    BY <1>1 DEF ServerIInv, ListenerSound
  <2>8. \A o \in Ops : ops'[o] # "freed"
    BY <1>2
  <2>9. ListenerSound(running', phase', ops', port', worker', A, arrived', failures')
    BY <1>2, <2>4, <2>5, <2>6, <2>7, <2>8 DEF ListenerSound
  <2> QED
    BY <1>1, <2>1, <2>2, <2>9, ListenerFrame DEF A
<1>3. CASE /\ failures' = failures + 1
           /\ \E posted2 \in SUBSET Ops : posted2 # Ops /\ ops' = [o \in Ops |-> IF o \in posted2 THEN "posted" ELSE "none"]
           /\ running' = FALSE /\ phase' = "refused" /\ UNCHANGED worker
  <2>5. ops' \in [Ops -> OpStates]
    BY <1>3 DEF OpStates
  <2>7. failures' = failures + 1 /\ running' = FALSE /\ phase' = "refused" /\ worker' = worker
    BY <1>3
  <2>6. failures' \in Nat
    BY <1>1, <2>7
  <2>1. ListenerType(FALSE, "refused", ops', port, worker, inbound, arrived, failures')
    BY <1>1, <2>5, <2>6 DEF ServerIInv, ListenerType
  <2>8. ListenerType(running', phase', ops', port', worker', inbound', arrived', failures')
    BY <1>1, <2>1, <2>7
  <2>2. PhaseSound(pc, phase')
    BY <1>1, <1>3 DEF ServerIInv, PhaseSound
  <2>3. \A o \in Ops : ops'[o] # "freed"
    BY <1>3
  <2>4. ListenerSound(running', phase', ops', port', worker', A, arrived', failures')
    BY <1>1, <1>3, <2>3 DEF ListenerSound
  <2> QED
    BY <1>1, <2>2, <2>4, <2>8, ListenerFrame DEF A
<1> QED
  BY <1>2, <1>3 DEF Server!StartPool

(* Arrive and ReceiveFails. *)
LEMMA CompletesSound ==
    ASSUME ServerIInv, UNCHANGED Server!mainVars, NEW o \in Ops,
           Server!Arrive(o) \/ Server!ReceiveFails(o)
    PROVE  ServerIInv'
<1> DEFINE A == HandedOver(pc, routed, drained, inbound)
<1>0. /\ phase \in {"up", "stopping"} /\ ops[o] = "posted" /\ ops' = [ops EXCEPT ![o] = "done"]
      /\ UNCHANGED << running, phase, worker, inbound >>
  BY DEF Server!Arrive, Server!ReceiveFails, Server!SocketOpen
<1>13. /\ port \in Seq(Completions) /\ worker \in [Workers -> WorkerStates]
       /\ arrived \in Nat /\ failures \in Nat
       /\ ops \in [Ops -> OpStates]
       /\ drained \in Seq(Nat) /\ routed \in Seq(Nat) /\ inbound \in Seq(Nat)
  BY DEF ServerIInv, ListenerType
<1>14. A \in Seq(Nat)
  BY <1>13, HandedOverType
<1>1. /\ A \in Seq(Nat) /\ port \in Seq(Completions) /\ worker \in [Workers -> WorkerStates]
      /\ arrived \in Nat /\ failures \in Nat
      /\ ops \in [Ops -> OpStates]
  BY <1>13, <1>14
<1>2. /\ TokenSound(A, port, worker, arrived)
      /\ phase = "up" => running /\ PoolSound(ops, port, worker, failures)
                         /\ Covered(A, port, worker, arrived)
      /\ \A x \in Ops : ops[x] = "freed" => phase = "stopped"
  BY DEF ServerIInv, ListenerSound
<1> HIDE DEF A
<1>3. PICK c \in Completions :
        /\ port' = Append(port, c) /\ c.op = o
        /\ \/ c.dg = 0 /\ arrived' = arrived
           \/ c.dg = arrived + 1 /\ arrived' = arrived + 1
  <2>1. CASE Server!Arrive(o)
    <3>1. Server!Completion(o, arrived + 1) \in Completions
      BY <1>1 DEF Server!Completion, Completions
    <3> QED
      BY <2>1, <3>1 DEF Server!Arrive, Server!Completion
  <2>2. CASE Server!ReceiveFails(o)
    <3>1. Server!Completion(o, 0) \in Completions
      BY <1>1 DEF Server!Completion, Completions
    <3> QED
      BY <2>2, <3>1 DEF Server!ReceiveFails, Server!Completion
  <2> QED
    BY <2>1, <2>2
<1>4. arrived' \in Nat /\ failures' \in Nat /\ failures <= failures'
  BY <1>1 DEF Server!Arrive, Server!ReceiveFails
<1>5. PICK n \in Nat, more \in Nat : n = arrived' /\ more = failures' /\ failures <= more
  BY <1>4
<1>6. TokenSound(A, Append(port, c), worker, n)
      /\ (Covered(A, port, worker, arrived) => Covered(A, Append(port, c), worker, n))
  BY <1>1, <1>2, <1>3, <1>5, TokenArrives
<1>7. phase = "up" => PoolSound([ops EXCEPT ![o] = "done"], Append(port, c), worker, more)
  BY <1>0, <1>1, <1>2, <1>3, <1>5, PoolCompletes
<1>8. Append(port, c) \in Seq(Completions) /\ [ops EXCEPT ![o] = "done"] \in [Ops -> OpStates]
  BY <1>1 DEF OpStates
<1>9. ListenerType(running', phase', ops', port', worker', inbound', arrived', failures')
  BY <1>0, <1>1, <1>3, <1>4, <1>8 DEF ServerIInv, ListenerType
<1>10. PhaseSound(pc, phase')
  BY <1>0 DEF ServerIInv
<1>11. \A x \in Ops : [ops EXCEPT ![o] = "done"][x] # "freed"
  BY <1>0, <1>1, <1>2
<1>12. ListenerSound(running', phase', ops', port', worker', A, arrived', failures')
  <2>1. ListenerSound(running, phase, [ops EXCEPT ![o] = "done"], Append(port, c), worker, A, n, more)
    BY <1>0, <1>2, <1>6, <1>7, <1>11 DEF ListenerSound
  <2> QED
    BY <1>0, <1>3, <1>5, <2>1
<1> QED
  BY <1>0, <1>9, <1>10, <1>12, ListenerFrame DEF A

LEMMA WorkerTopSound ==
    ASSUME ServerIInv, UNCHANGED Server!mainVars, NEW w \in Workers, Server!WorkerTop(w)
    PROVE  ServerIInv'
<1> DEFINE A == HandedOver(pc, routed, drained, inbound)
<1>0. /\ worker[w].at = "top"
      /\ worker' = [worker EXCEPT ![w] = IF running THEN Server!Waiting ELSE Server!Exited]
      /\ UNCHANGED << running, phase, ops, port, inbound, arrived, failures >>
  BY DEF Server!WorkerTop
<1>1. phase \in {"up", "stopping", "joining"}
  BY <1>0, WorkerRunsBetween
<1>2. /\ TokenSound(A, port, worker, arrived)
      /\ phase = "up" => running /\ PoolSound(ops, port, worker, failures)
                         /\ Covered(A, port, worker, arrived)
      /\ phase = "joining" => Cardinality(Living(worker)) <= Cardinality(StopsOf(port))
      /\ \A x \in Ops : ops[x] = "freed" => phase = "stopped"
  BY DEF ServerIInv, ListenerSound
<1>3. worker \in [Workers -> WorkerStates] /\ port \in Seq(Completions)
  BY DEF ServerIInv, ListenerType
<1> HIDE DEF A
<1>4. PICK u \in {Server!Waiting, Server!Exited} : worker' = [worker EXCEPT ![w] = u]
  BY <1>0
<1>5. u \in WorkerStates /\ u.op = "none" /\ u.at # "callback"
  BY DEF WorkerStates, Server!Waiting, Server!Exited
<1> DEFINE V == [worker EXCEPT ![w] = u]
<1>6. V \in [Workers -> WorkerStates] /\ V[w] = u /\ \A v \in Workers : v # w => V[v] = worker[v]
  BY <1>3, <1>5
<1>7. worker[w].op = "none"
  BY <1>0, <1>3, WorkerIs
<1> HIDE DEF V
<1>8. TokenSound(A, port, V, arrived)
  <2>1. \A v \in Workers : V[v].at = "callback" => V[v] = worker[v]
    BY <1>5, <1>6
  <2> QED
    BY <1>2, <2>1, TokenWorkers
<1>9. phase = "up" => Covered(A, port, V, arrived)
  <2>1. \A v \in Workers : worker[v].at = "callback" => V[v] = worker[v]
    BY <1>0, <1>6
  <2> QED
    BY <1>2, <2>1, CoveredWorkers
<1>10. phase = "up" => PoolSound(ops, port, V, failures)
  <2>1. \A v \in Workers : V[v].op = worker[v].op
    BY <1>5, <1>6, <1>7
  <2> QED
    BY <1>2, <2>1, PoolWorkers
<1>11. phase = "joining" => Cardinality(Living(V)) <= Cardinality(StopsOf(port))
  <2>1. Cardinality(Living(V)) \in Nat /\ Cardinality(Living(worker)) \in Nat
    BY LivingFinite
  <2>2. Cardinality(StopsOf(port)) \in Nat
    BY <1>3, StopsFinite
  <2>3. Cardinality(Living(V)) <= Cardinality(Living(worker))
    <3>1. worker[w].at # "exited" /\ \A v \in Workers : v # w => V[v].at = worker[v].at
      BY <1>0, <1>6
    <3>2. Cardinality(Living(V)) =
            IF V[w].at = "exited" THEN Cardinality(Living(worker)) - 1 ELSE Cardinality(Living(worker))
      BY <3>1, LivingLeaves
    <3> QED
      BY <2>1, <3>2
  <2> QED
    BY <1>2, <2>1, <2>2, <2>3
<1>12. ListenerSound(running, phase, ops, port, V, A, arrived, failures)
  BY <1>1, <1>2, <1>8, <1>9, <1>10, <1>11 DEF ListenerSound
<1>13. worker' = V
  BY <1>4 DEF V
<1>14. ListenerType(running', phase', ops', port', worker', inbound', arrived', failures')
  BY <1>0, <1>6, <1>13 DEF ServerIInv, ListenerType
<1>15. PhaseSound(pc, phase')
  BY <1>0 DEF ServerIInv
<1>16. ListenerSound(running', phase', ops', port', worker', A, arrived', failures')
  BY <1>0, <1>12, <1>13
<1> QED
  BY <1>0, <1>14, <1>15, <1>16, ListenerFrame DEF A

LEMMA WorkerTakesSound ==
    ASSUME ServerIInv, UNCHANGED Server!mainVars, NEW w \in Workers, Server!WorkerTakes(w)
    PROVE  ServerIInv'
<1> DEFINE A == HandedOver(pc, routed, drained, inbound)
<1>0. /\ worker[w].at = "wait" /\ port # << >> /\ port' = Tail(port)
      /\ worker' = [worker EXCEPT ![w] =
            IF Head(port).key = "stop" THEN Server!Exited
            ELSE [at |-> IF Head(port).dg > 0 THEN "callback" ELSE "repost",
                  op |-> Head(port).op, dg |-> Head(port).dg]]
      /\ UNCHANGED << running, phase, ops, inbound, arrived, failures >>
  BY DEF Server!WorkerTakes
<1>1. phase \in {"up", "stopping", "joining"}
  BY <1>0, WorkerRunsBetween
<1>2. /\ TokenSound(A, port, worker, arrived)
      /\ phase = "up" => running /\ PoolSound(ops, port, worker, failures)
                         /\ Covered(A, port, worker, arrived)
      /\ phase = "joining" => Cardinality(Living(worker)) <= Cardinality(StopsOf(port))
      /\ \A x \in Ops : ops[x] = "freed" => phase = "stopped"
  BY DEF ServerIInv, ListenerSound
<1>3. worker \in [Workers -> WorkerStates] /\ port \in Seq(Completions) /\ arrived \in Nat
      /\ A \in Seq(Nat)
  BY HandedOverType DEF ServerIInv, ListenerType
<1> HIDE DEF A
<1>4. PICK c \in Completions : c = Head(port)
  BY <1>0, <1>3
<1>5. PICK u : u = IF c.key = "stop" THEN Server!Exited
                   ELSE [at |-> IF c.dg > 0 THEN "callback" ELSE "repost", op |-> c.op, dg |-> c.dg]
  OBVIOUS
<1>6. /\ c.key \in {"recv", "stop"} /\ c.dg \in Nat
      /\ c.key = "stop" => c.op = "none" /\ c.dg = 0
      /\ c.key = "recv" => c.op \in Ops
  BY CompletionIs
<1>7. /\ u.at = "callback" => u.dg = c.dg /\ c.dg > 0
      /\ c.dg > 0 => u.at = "callback"
      /\ u.op = c.op
      /\ u.at = "exited" <=> c.key = "stop"
      /\ u \in WorkerStates
  <2>1. CASE c.key = "stop"
    BY <1>5, <1>6, <2>1 DEF Server!Exited, WorkerStates
  <2>2. CASE c.key # "stop" /\ c.dg > 0
    <3>1. u = [at |-> "callback", op |-> c.op, dg |-> c.dg]
      BY <1>5, <2>2
    <3>2. c.op \in Ops /\ c.dg \in Nat \ {0}
      BY <1>6, <2>2
    <3> QED
      BY <2>2, <3>1, <3>2 DEF WorkerStates
  <2>3. CASE c.key # "stop" /\ ~(c.dg > 0)
    <3>1. u = [at |-> "repost", op |-> c.op, dg |-> c.dg]
      BY <1>5, <2>3
    <3> QED
      BY <1>6, <2>3, <3>1 DEF WorkerStates
  <2> QED
    BY <2>1, <2>2, <2>3
<1> DEFINE V == [worker EXCEPT ![w] = u]
<1>8. worker' = V
  BY <1>0, <1>4, <1>5
<1>9. TokenSound(A, Tail(port), V, arrived)
      /\ (Covered(A, port, worker, arrived) => Covered(A, Tail(port), V, arrived))
  BY <1>0, <1>2, <1>3, <1>4, <1>7, TokenTaken
<1>10. phase = "up" => PoolSound(ops, Tail(port), V, failures)
  <2>1. worker[w].op = "none"
    BY <1>0, <1>3, WorkerIs
  <2> QED
    BY <1>0, <1>2, <1>3, <1>4, <1>7, <2>1, PoolTaken
<1>11. V \in [Workers -> WorkerStates] /\ V[w] = u /\ \A v \in Workers : v # w => V[v] = worker[v]
  BY <1>3, <1>7
<1> HIDE DEF V
<1>12. phase = "joining" => Cardinality(Living(V)) <= Cardinality(StopsOf(Tail(port)))
  <2>1. Cardinality(Living(V)) \in Nat /\ Cardinality(Living(worker)) \in Nat
    BY LivingFinite
  <2>2. Cardinality(StopsOf(port)) \in Nat
    BY <1>3, StopsFinite
  <2>3. Cardinality(StopsOf(Tail(port))) =
          IF c.key = "stop" THEN Cardinality(StopsOf(port)) - 1 ELSE Cardinality(StopsOf(port))
    BY <1>0, <1>3, <1>4, StopsTail
  <2>4. Cardinality(Living(V)) =
          IF u.at = "exited" THEN Cardinality(Living(worker)) - 1 ELSE Cardinality(Living(worker))
    <3>1. worker[w].at # "exited" /\ \A v \in Workers : v # w => V[v].at = worker[v].at
      BY <1>0, <1>11
    <3>2. Cardinality(Living(V)) =
            IF V[w].at = "exited" THEN Cardinality(Living(worker)) - 1 ELSE Cardinality(Living(worker))
      BY <3>1, LivingLeaves
    <3> QED
      BY <1>11, <3>2
  <2> QED
    BY <1>2, <1>7, <2>1, <2>2, <2>3, <2>4
<1>13. ListenerSound(running, phase, ops, Tail(port), V, A, arrived, failures)
  BY <1>1, <1>2, <1>9, <1>10, <1>12 DEF ListenerSound
<1>14. Tail(port) \in Seq(Completions)
  BY <1>0, <1>3
<1>15. ListenerType(running', phase', ops', port', worker', inbound', arrived', failures')
  BY <1>0, <1>8, <1>11, <1>14 DEF ServerIInv, ListenerType
<1>16. PhaseSound(pc, phase')
  BY <1>0 DEF ServerIInv
<1>17. ListenerSound(running', phase', ops', port', worker', A, arrived', failures')
  BY <1>0, <1>8, <1>13
<1> QED
  BY <1>0, <1>15, <1>16, <1>17, ListenerFrame DEF A

LEMMA HandOverLast ==
    ASSUME NEW X \in Seq(Nat), NEW i \in Seq(Nat), NEW e \in Nat
    PROVE  X \o Append(i, e) = Append(X \o i, e)
<1>1. Append(i, e) = i \o << e >>
  BY AppendIsConcat
<1>2. X \o i \in Seq(Nat) /\ << e >> \in Seq(Nat)
  OBVIOUS
<1>3. Append(X \o i, e) = (X \o i) \o << e >>
  BY <1>2, AppendIsConcat
<1>4. (X \o i) \o << e >> = X \o (i \o << e >>)
  BY <1>2, ConcatAssociative, SMTT(60)
<1> QED
  BY <1>1, <1>3, <1>4

LEMMA CallbackSound ==
    ASSUME ServerIInv, UNCHANGED Server!mainVars, NEW w \in Workers, Server!Callback(w)
    PROVE  ServerIInv'
<1> DEFINE A == HandedOver(pc, routed, drained, inbound)
           u == [worker[w] EXCEPT !.at = "repost"]
<1>0. /\ worker[w].at = "callback" /\ inbound' = Append(inbound, worker[w].dg)
      /\ worker' = [worker EXCEPT ![w].at = "repost"]
      /\ UNCHANGED << running, phase, ops, port, arrived, failures >>
  BY DEF Server!Callback
<1>1. phase \in {"up", "stopping", "joining"}
  BY <1>0, WorkerRunsBetween
<1>2. /\ TokenSound(A, port, worker, arrived)
      /\ phase = "up" => running /\ PoolSound(ops, port, worker, failures)
                         /\ Covered(A, port, worker, arrived)
      /\ phase = "joining" => Cardinality(Living(worker)) <= Cardinality(StopsOf(port))
      /\ \A x \in Ops : ops[x] = "freed" => phase = "stopped"
  BY DEF ServerIInv, ListenerSound
<1>3. worker \in [Workers -> WorkerStates] /\ port \in Seq(Completions) /\ arrived \in Nat
      /\ drained \in Seq(Nat) /\ routed \in Seq(Nat) /\ inbound \in Seq(Nat)
  BY DEF ServerIInv, ListenerType
<1>4. A \in Seq(Nat)
  BY <1>3, HandedOverType
<1>5. worker[w].dg \in Nat /\ worker[w].op \in Ops
  BY <1>0, <1>3, WorkerIs
<1>6. u = [at |-> "repost", op |-> worker[w].op, dg |-> worker[w].dg]
  <2>1. worker[w] \in [at : {"callback"}, op : Ops, dg : Nat \ {0}]
    BY <1>0, <1>3 DEF WorkerStates, Server!Absent, Server!AtTop, Server!Waiting, Server!Exited
  <2>2. worker[w] = [at |-> worker[w].at, op |-> worker[w].op, dg |-> worker[w].dg]
    BY <2>1
  <2> QED
    BY <2>2
<1>7. worker' = [worker EXCEPT ![w] = u]
  BY <1>0
<1>8. HandedOver(pc, routed, drained, Append(inbound, worker[w].dg)) = Append(A, worker[w].dg)
  <2>1. PICK X : X = routed \o (IF pc = "route" THEN drained ELSE << >>)
    OBVIOUS
  <2>2. X \in Seq(Nat)
    BY <1>3, <2>1
  <2>3. X \o Append(inbound, worker[w].dg) = Append(X \o inbound, worker[w].dg)
    BY <1>3, <1>5, <2>2, HandOverLast
  <2> QED
    BY <2>1, <2>3 DEF HandedOver
<1> HIDE DEF A, u
<1>9. u \in WorkerStates /\ u.op = worker[w].op /\ u.at = "repost"
  BY <1>5, <1>6 DEF WorkerStates
<1>10. TokenSound(Append(A, worker[w].dg), port, [worker EXCEPT ![w] = u], arrived)
       /\ (Covered(A, port, worker, arrived)
             => Covered(Append(A, worker[w].dg), port, [worker EXCEPT ![w] = u], arrived))
  BY <1>0, <1>2, <1>3, <1>4, <1>9, TokenHandedOver
<1> DEFINE V == [worker EXCEPT ![w] = u]
<1>11. V \in [Workers -> WorkerStates] /\ V[w] = u /\ \A v \in Workers : v # w => V[v] = worker[v]
  BY <1>3, <1>9
<1> HIDE DEF V
<1>12. phase = "up" => PoolSound(ops, port, V, failures)
  <2>1. \A v \in Workers : V[v].op = worker[v].op
    BY <1>9, <1>11
  <2> QED
    BY <1>2, <2>1, PoolWorkers
<1>13. phase = "joining" => Cardinality(Living(V)) <= Cardinality(StopsOf(port))
  <2>1. Living(V) = Living(worker)
    BY <1>0, <1>9, <1>11 DEF Living
  <2> QED
    BY <1>2, <2>1
<1>14. ListenerSound(running, phase, ops, port, V, Append(A, worker[w].dg), arrived, failures)
  BY <1>1, <1>2, <1>10, <1>12, <1>13 DEF ListenerSound, V
<1>15. worker' = V
  BY <1>7 DEF V
<1>16. Append(inbound, worker[w].dg) \in Seq(Nat)
  BY <1>3, <1>5
<1>17. ListenerType(running', phase', ops', port', worker', inbound', arrived', failures')
  BY <1>0, <1>11, <1>15, <1>16 DEF ServerIInv, ListenerType
<1>18. PhaseSound(pc, phase')
  BY <1>0 DEF ServerIInv
<1>19. ListenerSound(running', phase', ops', port', worker',
                     HandedOver(pc, routed, drained, inbound'), arrived', failures')
  BY <1>0, <1>8, <1>14, <1>15
<1> QED
  BY <1>0, <1>17, <1>18, <1>19, ListenerFrame

LEMMA RepostSound ==
    ASSUME ServerIInv, UNCHANGED Server!mainVars, NEW w \in Workers, Server!Repost(w)
    PROVE  ServerIInv'
<1> DEFINE A == HandedOver(pc, routed, drained, inbound)
           V == [worker EXCEPT ![w] = Server!AtTop]
<1>0. /\ worker[w].at = "repost" /\ worker' = V
      /\ UNCHANGED << running, phase, port, inbound, arrived >>
  BY DEF Server!Repost
<1>1. phase \in {"up", "stopping", "joining"}
  BY <1>0, WorkerRunsBetween
<1>2. /\ TokenSound(A, port, worker, arrived)
      /\ phase = "up" => running /\ PoolSound(ops, port, worker, failures)
                         /\ Covered(A, port, worker, arrived)
      /\ phase = "joining" => Cardinality(Living(worker)) <= Cardinality(StopsOf(port))
      /\ \A x \in Ops : ops[x] = "freed" => phase = "stopped"
  BY DEF ServerIInv, ListenerSound
<1>3. worker \in [Workers -> WorkerStates] /\ port \in Seq(Completions) /\ arrived \in Nat
      /\ failures \in Nat /\ ops \in [Ops -> OpStates] /\ running \in BOOLEAN
  BY DEF ServerIInv, ListenerType
<1> HIDE DEF A
<1>4. worker[w].op \in Ops
  BY <1>0, <1>3, WorkerIs
<1>5. PICK s \in {"posted", "lost"} :
        /\ ops' = [ops EXCEPT ![worker[w].op] = s]
        /\ \/ s = "posted" /\ failures' = failures
           \/ s = "lost" /\ failures' = failures + 1
           \/ s = "lost" /\ ~running /\ failures' = failures
  BY DEF Server!Repost
<1>6. PICK more \in Nat : more = failures'
  BY <1>3, <1>5
<1>7. phase = "up" => PoolSound([ops EXCEPT ![worker[w].op] = s], port, V, more)
  <2> SUFFICES ASSUME phase = "up" PROVE PoolSound([ops EXCEPT ![worker[w].op] = s], port, V, more)
    OBVIOUS
  <2>1. \/ s = "posted" /\ more = failures
        \/ s = "lost" /\ more = failures + 1
    BY <1>2, <1>5, <1>6
  <2> QED
    BY <1>2, <1>3, <1>4, <2>1, PoolReposted
<1>8. Server!AtTop \in WorkerStates /\ Server!AtTop.at = "top"
  BY DEF WorkerStates, Server!AtTop
<1>9. V \in [Workers -> WorkerStates] /\ V[w].at = "top" /\ \A v \in Workers : v # w => V[v] = worker[v]
  BY <1>3, <1>8
<1> HIDE DEF V
<1>10. TokenSound(A, port, V, arrived)
  <2>1. \A v \in Workers : V[v].at = "callback" => V[v] = worker[v]
    BY <1>9
  <2> QED
    BY <1>2, <2>1, TokenWorkers
<1>11. phase = "up" => Covered(A, port, V, arrived)
  <2>1. \A v \in Workers : worker[v].at = "callback" => V[v] = worker[v]
    BY <1>0, <1>9
  <2> QED
    BY <1>2, <2>1, CoveredWorkers
<1>12. phase = "joining" => Cardinality(Living(V)) <= Cardinality(StopsOf(port))
  <2>1. Living(V) = Living(worker)
    BY <1>0, <1>9 DEF Living
  <2> QED
    BY <1>2, <2>1
<1>13. [ops EXCEPT ![worker[w].op] = s] \in [Ops -> OpStates]
  BY <1>3, <1>5 DEF OpStates
<1>14. \A x \in Ops : [ops EXCEPT ![worker[w].op] = s][x] # "freed"
  BY <1>1, <1>2, <1>3, <1>4, <1>5
<1>15. ListenerSound(running, phase, [ops EXCEPT ![worker[w].op] = s], port, V, A, arrived, more)
  BY <1>1, <1>2, <1>7, <1>10, <1>11, <1>12, <1>14 DEF ListenerSound
<1>16. ListenerType(running', phase', ops', port', worker', inbound', arrived', failures')
  BY <1>0, <1>5, <1>6, <1>9, <1>13 DEF ServerIInv, ListenerType
<1>17. PhaseSound(pc, phase')
  BY <1>0 DEF ServerIInv
<1>18. ListenerSound(running', phase', ops', port', worker', A, arrived', failures')
  BY <1>0, <1>5, <1>6, <1>15
<1> QED
  BY <1>0, <1>16, <1>17, <1>18, ListenerFrame DEF A

LEMMA CloseSocketSound ==
    ASSUME ServerIInv, UNCHANGED Server!mainVars, Server!CloseSocket
    PROVE  ServerIInv'
<1> DEFINE A == HandedOver(pc, routed, drained, inbound)
           n == Len(Server!Cancelled)
           m == Cardinality(Workers)
           Q == [i \in 1 .. n |-> Server!Completion(Server!Cancelled[i], 0)]
           S == [i \in 1 .. m |-> Server!StopKey]
<1>0. /\ phase = "stopping" /\ phase' = "joining"
      /\ ops' = [o \in Ops |-> IF ops[o] = "posted" THEN "done" ELSE ops[o]]
      /\ port' = port \o Q \o S
      /\ UNCHANGED << running, worker, inbound, arrived, failures >>
  BY ServerSameCardinality DEF Server!CloseSocket, Server!Sentinels
<1>1. TokenSound(A, port, worker, arrived) /\ \A o \in Ops : ops[o] # "freed"
  BY <1>0 DEF ServerIInv, ListenerSound
<1>2. worker \in [Workers -> WorkerStates] /\ port \in Seq(Completions) /\ arrived \in Nat
      /\ ops \in [Ops -> OpStates]
  BY DEF ServerIInv, ListenerType
<1> HIDE DEF A
<1>3. Server!Cancelled \in Seq(Ops) /\ n \in Nat
  BY CancelledListed
<1>4. m \in Nat
  BY ServerAssumption, FS_CardinalityType
<1>5. \A i \in 1 .. n : Server!Completion(Server!Cancelled[i], 0) \in Completions
                        /\ Server!Completion(Server!Cancelled[i], 0).dg = 0
  BY <1>3 DEF Completions, Server!Completion
<1>6. Server!StopKey \in Completions /\ Server!StopKey.dg = 0 /\ Server!StopKey.key = "stop"
  BY DEF Completions, Server!StopKey
<1> HIDE DEF n, m
<1>7. Q \in Seq(Completions) /\ Len(Q) = n /\ \A i \in 1 .. Len(Q) : Q[i].dg = 0
  BY <1>3, <1>5
<1>8. S \in Seq(Completions) /\ Len(S) = m
      /\ \A i \in 1 .. Len(S) : S[i].dg = 0 /\ S[i].key = "stop"
  BY <1>4, <1>6
<1> HIDE DEF Q, S
<1>9. TokenSound(A, port \o Q, worker, arrived)
  BY <1>1, <1>2, <1>7, TokenCloses
<1>10. port \o Q \in Seq(Completions) /\ port \o Q \o S \in Seq(Completions)
  BY <1>2, <1>7, <1>8
<1>11. TokenSound(A, (port \o Q) \o S, worker, arrived)
  BY <1>2, <1>8, <1>9, <1>10, TokenCloses
<1>12. Cardinality(Living(worker)) <= Cardinality(StopsOf((port \o Q) \o S))
  <2>1. m <= Cardinality(StopsOf((port \o Q) \o S))
    BY <1>4, <1>8, <1>10, SentinelsSuffice
  <2>2. Cardinality(StopsOf((port \o Q) \o S)) \in Nat
    BY <1>10, StopsFinite
  <2>3. Cardinality(Living(worker)) <= m /\ Cardinality(Living(worker)) \in Nat
    BY LivingFinite DEF m
  <2> QED
    BY <1>4, <2>1, <2>2, <2>3
<1>13. ops' \in [Ops -> OpStates] /\ \A o \in Ops : ops'[o] # "freed"
  BY <1>0, <1>1, <1>2 DEF OpStates
<1>14. ListenerType(running', phase', ops', port', worker', inbound', arrived', failures')
  BY <1>0, <1>10, <1>13 DEF ServerIInv, ListenerType
<1>15. PhaseSound(pc, phase')
  BY <1>0 DEF ServerIInv, PhaseSound
<1>16. ListenerSound(running, "joining", ops', (port \o Q) \o S, worker, A, arrived, failures)
  BY <1>11, <1>12, <1>13 DEF ListenerSound
<1>17. ListenerSound(running', phase', ops', port', worker', A, arrived', failures')
  BY <1>0, <1>16
<1> QED
  BY <1>0, <1>14, <1>15, <1>17, ListenerFrame DEF A

LEMMA FinishStopSound ==
    ASSUME ServerIInv, UNCHANGED Server!mainVars, Server!FinishStop
    PROVE  ServerIInv'
<1> DEFINE A == HandedOver(pc, routed, drained, inbound)
<1>0. /\ phase = "joining" /\ phase' = "stopped" /\ port' = << >>
      /\ \A w \in Workers : worker[w].at = "exited"
      /\ ops' = [o \in Ops |-> "freed"] /\ UNCHANGED << running, worker, inbound, arrived, failures >>
  BY DEF Server!FinishStop, Server!Joined
<1>1. TokenSound(A, port, worker, arrived)
  BY DEF ServerIInv, ListenerSound
<1>2. worker \in [Workers -> WorkerStates] /\ arrived \in Nat
  BY DEF ServerIInv, ListenerType
<1> HIDE DEF A
<1>3. TokenSound(A, << >>, worker, arrived)
  BY <1>1, <1>2, TokenEmptied
<1>4. \A w \in Workers : worker[w] = Server!Exited
  BY <1>0, <1>2 DEF WorkerStates, Server!Absent, Server!AtTop, Server!Waiting
<1>5. ListenerSound(running, "stopped", ops', << >>, worker, A, arrived, failures)
  BY <1>3, <1>4 DEF ListenerSound
<1>6. ListenerType(running', phase', ops', port', worker', inbound', arrived', failures')
  BY <1>0 DEF ServerIInv, ListenerType, OpStates
<1>7. PhaseSound(pc, phase')
  BY <1>0 DEF ServerIInv, PhaseSound
<1>8. ListenerSound(running', phase', ops', port', worker', A, arrived', failures')
  BY <1>0, <1>5
<1> QED
  BY <1>0, <1>6, <1>7, <1>8, ListenerFrame DEF A

-----------------------------------------------------------------------------
(* The steps of main. *)
LEMMA EventNumbers ==
    ASSUME NEW s \in Seq(Nat), NEW m \in Nat, NEW e \in Nat, s = [i \in 1 .. m |-> i]
    PROVE  s \o [i \in 1 .. e |-> m + i] = [i \in 1 .. m + e |-> i]
<1>1. /\ [i \in 1 .. e |-> m + i] \in Seq(Nat) /\ [i \in 1 .. m + e |-> i] \in Seq(Nat)
      /\ s \o [i \in 1 .. e |-> m + i] \in Seq(Nat)
  <2>1. [i \in 1 .. e |-> m + i] \in Seq(Nat) /\ [i \in 1 .. m + e |-> i] \in Seq(Nat)
    OBVIOUS
  <2> QED
    BY <2>1, ConcatProperties
<1>2. PICK t \in Seq(Nat), l \in Seq(Nat), r \in Seq(Nat) :
        t = [i \in 1 .. e |-> m + i] /\ l = s \o t /\ r = [i \in 1 .. m + e |-> i]
  BY <1>1
<1>3. Len(s) = m /\ Len(t) = e /\ Len(r) = m + e
  BY <1>2
<1>4. Len(l) = m + e
  BY <1>2, <1>3
<1>5. \A k \in 1 .. m + e : r[k] = k
  BY <1>2
<1>6. \A k \in 1 .. m + e : l[k] = k
  <2> SUFFICES ASSUME NEW k \in 1 .. m + e PROVE l[k] = k
    OBVIOUS
  <2>1. CASE k <= m
    BY <1>2, <1>3, <2>1
  <2>2. CASE k > m
    <3>1. l[k] = t[k - m] /\ k - m \in 1 .. e
      BY <1>2, <1>3, <2>2
    <3> QED
      BY <1>2, <3>1
  <2> QED
    BY <2>1, <2>2
<1>7. l = r
  BY <1>3, <1>4, <1>5, <1>6
<1> QED
  BY <1>2, <1>7

LEMMA MainFrame ==
    ASSUME ServerIInv, UNCHANGED << running, phase, ops, port, worker, arrived, failures >>,
           inbound' \in Seq(Nat), drained' \in Seq(Nat), routed' \in Seq(Nat),
           HandedOver(pc', routed', drained', inbound') = HandedOver(pc, routed, drained, inbound),
           PhaseSound(pc', phase),
           EventsSound(pc', dbAvailable', persistUp', econEvents', made', enqueued', committed')
    PROVE  ServerIInv'
<1>1. ListenerType(running', phase', ops', port', worker', inbound', arrived', failures')
  BY DEF ServerIInv, ListenerType
<1>2. ListenerSound(running', phase', ops', port', worker',
                    HandedOver(pc', routed', drained', inbound'), arrived', failures')
  BY DEF ServerIInv
<1> QED
  BY <1>1, <1>2 DEF ServerIInv

(* Before the first pass there is nothing to lose. *)
LEMMA NothingQueued ==
    ASSUME NEW p, NEW db \in BOOLEAN, NEW up, NEW com,
           db => up /\ p \notin {"config", "persist", "returned"}
    PROVE  EventsSound(p, db, up, << >>, 0, << >>, com)
<1>1. << >> \in Seq(Nat) /\ 0 \in Nat
  OBVIOUS
<1>2. << >> \o << >> = [i \in 1 .. 0 |-> i]
  OBVIOUS
<1> QED
  BY <1>1, <1>2 DEF EventsSound

LEMMA BootSound ==
    ASSUME ServerIInv, Server!BootBasics \/ Server!BootPersistence PROVE ServerIInv'
<1>0. UNCHANGED << running, phase, ops, port, worker, arrived, failures, inbound, drained, routed,
                   econEvents, made, enqueued, committed >>
      /\ pc \in {"config", "persist"}
  BY DEF Server!BootBasics, Server!BootPersistence, Server!loopVars, Server!listenerVars
<1>1. /\ inbound \in Seq(Nat) /\ drained \in Seq(Nat) /\ routed \in Seq(Nat)
      /\ PhaseSound(pc, phase)
      /\ EventsSound(pc, dbAvailable, persistUp, econEvents, made, enqueued, committed)
  BY DEF ServerIInv, ListenerType
<1>2. pc' \in {"persist", "listen", "returned"}
  BY DEF Server!BootBasics, Server!BootPersistence
<1>3. HandedOver(pc', routed', drained', inbound') = HandedOver(pc, routed, drained, inbound)
  BY <1>0, <1>2 DEF HandedOver
<1>4. PhaseSound(pc', phase)
  BY <1>0, <1>1, <1>2 DEF PhaseSound, Stages
<1>5. made = 0 /\ enqueued = << >> /\ econEvents = << >> /\ ~dbAvailable
  BY <1>0, <1>1 DEF EventsSound
<1>6. dbAvailable = FALSE
  BY <1>1, <1>5 DEF EventsSound
<1>7. PICK p, db, up : p = pc' /\ db = dbAvailable' /\ up = persistUp'
  OBVIOUS
<1>8. EventsSound(pc', dbAvailable', persistUp', econEvents', made', enqueued', committed')
  <2>1. db \in BOOLEAN /\ (db => up /\ p \notin {"config", "persist", "returned"})
    <3>1. CASE Server!BootBasics
      BY <1>6, <1>7, <3>1 DEF Server!BootBasics
    <3>2. CASE Server!BootPersistence
      <4>1. CASE dbAvailable' = TRUE /\ persistUp' = TRUE /\ pc' = "listen"
        BY <1>7, <4>1
      <4>2. CASE UNCHANGED << dbAvailable, persistUp >>
        BY <1>6, <1>7, <4>2
      <4> QED
        BY <3>2, <4>1, <4>2 DEF Server!BootPersistence
    <3> QED
      BY <3>1, <3>2
  <2>2. PICK com : com = committed'
    OBVIOUS
  <2>3. EventsSound(p, db, up, << >>, 0, << >>, com)
    BY <2>1, NothingQueued
  <2> QED
    BY <1>0, <1>5, <1>7, <2>2, <2>3
<1> QED
  BY <1>0, <1>1, <1>3, <1>4, <1>8, MainFrame

LEMMA ListenerStartedSound ==
    ASSUME ServerIInv, Server!ListenerStarted PROVE ServerIInv'
<1>0. UNCHANGED << running, phase, ops, port, worker, arrived, failures, inbound, drained, routed,
                   econEvents, made, enqueued, dbAvailable >>
      /\ pc = "listen"
      /\ \/ phase = "up" /\ pc' = "loop" /\ UNCHANGED << persistUp, committed >>
         \/ phase = "refused" /\ pc' = "returned" /\ persistUp' = FALSE /\ committed' = enqueued
  BY DEF Server!ListenerStarted, Server!listenerVars
<1>1. /\ inbound \in Seq(Nat) /\ drained \in Seq(Nat) /\ routed \in Seq(Nat)
      /\ PhaseSound(pc, phase)
      /\ EventsSound(pc, dbAvailable, persistUp, econEvents, made, enqueued, committed)
  BY DEF ServerIInv, ListenerType
<1>2. HandedOver(pc', routed', drained', inbound') = HandedOver(pc, routed, drained, inbound)
  BY <1>0 DEF HandedOver
<1>3. PhaseSound(pc', phase)
  BY <1>0 DEF PhaseSound, Stages
<1>4. EventsSound(pc', dbAvailable', persistUp', econEvents', made', enqueued', committed')
  BY <1>0, <1>1 DEF EventsSound
<1> QED
  BY <1>0, <1>1, <1>2, <1>3, <1>4, MainFrame

LEMMA ConsoleSound ==
    ASSUME ServerIInv, Server!ConsoleCtrlHandler PROVE ServerIInv'
<1>0. UNCHANGED << running, phase, ops, port, worker, arrived, failures, inbound, drained, routed,
                   econEvents, made, enqueued, dbAvailable, persistUp, committed, pc >>
  BY DEF Server!ConsoleCtrlHandler, Server!listenerVars, Server!loopVars
<1>1. /\ inbound \in Seq(Nat) /\ drained \in Seq(Nat) /\ routed \in Seq(Nat)
      /\ PhaseSound(pc, phase)
      /\ EventsSound(pc, dbAvailable, persistUp, econEvents, made, enqueued, committed)
  BY DEF ServerIInv, ListenerType
<1> QED
  BY <1>0, <1>1, MainFrame

(* The batch leaves `inbound' and enters the pass whole. *)
LEMMA DrainSound ==
    ASSUME ServerIInv, Server!Drain PROVE ServerIInv'
<1>0. UNCHANGED << running, phase, ops, port, worker, arrived, failures, routed,
                   econEvents, made, enqueued, dbAvailable, persistUp, committed >>
      /\ pc = "loop" /\ pc' = "route" /\ drained' = inbound /\ inbound' = << >>
  BY DEF Server!Drain, Server!SwapInbound
<1>1. /\ inbound \in Seq(Nat) /\ drained \in Seq(Nat) /\ routed \in Seq(Nat)
      /\ PhaseSound(pc, phase)
      /\ EventsSound(pc, dbAvailable, persistUp, econEvents, made, enqueued, committed)
  BY DEF ServerIInv, ListenerType
<1>2. routed \o inbound \o << >> = routed \o << >> \o inbound
  <2>1. routed \o << >> = routed /\ routed \o inbound \in Seq(Nat)
    BY <1>1
  <2>2. (routed \o inbound) \o << >> = routed \o inbound
    BY <2>1
  <2> QED
    BY <2>1, <2>2
<1>3. HandedOver(pc', routed', drained', inbound') = HandedOver(pc, routed, drained, inbound)
  BY <1>0, <1>2 DEF HandedOver
<1>4. PhaseSound(pc', phase)
  BY <1>0, <1>1 DEF PhaseSound, Stages
<1>5. EventsSound(pc', dbAvailable', persistUp', econEvents', made', enqueued', committed')
  BY <1>0, <1>1 DEF EventsSound
<1>6. inbound' \in Seq(Nat) /\ drained' \in Seq(Nat) /\ routed' \in Seq(Nat)
  BY <1>0, <1>1
<1> QED
  BY <1>0, <1>3, <1>4, <1>5, <1>6, MainFrame

LEMMA RouteSound ==
    ASSUME ServerIInv, Server!Route PROVE ServerIInv'
<1>0. UNCHANGED << running, phase, ops, port, worker, arrived, failures, inbound, drained,
                   econEvents, made, enqueued, dbAvailable, persistUp, committed >>
      /\ pc = "route" /\ pc' = "step" /\ routed' = routed \o drained
  BY DEF Server!Route, Server!listenerVars
<1>1. /\ inbound \in Seq(Nat) /\ drained \in Seq(Nat) /\ routed \in Seq(Nat)
      /\ PhaseSound(pc, phase)
      /\ EventsSound(pc, dbAvailable, persistUp, econEvents, made, enqueued, committed)
  BY DEF ServerIInv, ListenerType
<1>2. (routed \o drained) \o << >> = routed \o drained /\ routed \o drained \in Seq(Nat)
  <2>1. routed \o drained \in Seq(Nat)
    BY <1>1
  <2> QED
    BY <2>1
<1>3. HandedOver(pc', routed', drained', inbound') = HandedOver(pc, routed, drained, inbound)
  BY <1>0, <1>2 DEF HandedOver
<1>4. PhaseSound(pc', phase)
  BY <1>0, <1>1 DEF PhaseSound, Stages
<1>5. EventsSound(pc', dbAvailable', persistUp', econEvents', made', enqueued', committed')
  BY <1>0, <1>1 DEF EventsSound
<1>6. inbound' \in Seq(Nat) /\ drained' \in Seq(Nat) /\ routed' \in Seq(Nat)
  BY <1>0, <1>1, <1>2
<1> QED
  BY <1>0, <1>3, <1>4, <1>5, <1>6, MainFrame

LEMMA SimStepsSound ==
    ASSUME ServerIInv, NEW n \in 0 .. 1, NEW e \in 0 .. 1, Server!SimSteps(n, e) PROVE ServerIInv'
<1>0. UNCHANGED << running, phase, ops, port, worker, arrived, failures, inbound, drained, routed,
                   enqueued, dbAvailable, persistUp, committed >>
      /\ pc = "step" /\ pc' = "events" /\ made' = made + e
      /\ econEvents' = econEvents \o [i \in 1 .. e |-> made + i]
  BY DEF Server!SimSteps, Server!listenerVars
<1>1. /\ inbound \in Seq(Nat) /\ drained \in Seq(Nat) /\ routed \in Seq(Nat)
      /\ PhaseSound(pc, phase)
      /\ EventsSound(pc, dbAvailable, persistUp, econEvents, made, enqueued, committed)
  BY DEF ServerIInv, ListenerType
<1>2. /\ made \in Nat /\ e \in Nat /\ enqueued \in Seq(Nat) /\ econEvents = << >>
      /\ dbAvailable \in BOOLEAN
      /\ dbAvailable => persistUp /\ enqueued \o econEvents = [i \in 1 .. made |-> i]
  BY <1>0, <1>1 DEF EventsSound
<1>3. PICK t : t = [i \in 1 .. e |-> made + i]
  OBVIOUS
<1>4. t \in Seq(Nat)
  BY <1>2, <1>3
<1>5. econEvents' = t
  BY <1>0, <1>2, <1>3, <1>4
<1>6. dbAvailable => enqueued \o t = [i \in 1 .. made' |-> i]
  <2> SUFFICES ASSUME dbAvailable PROVE enqueued \o t = [i \in 1 .. made' |-> i]
    OBVIOUS
  <2>1. enqueued \o << >> = enqueued
    BY <1>2
  <2>2. enqueued = [i \in 1 .. made |-> i]
    BY <1>2, <2>1
  <2> QED
    BY <1>0, <1>2, <1>3, <2>2, EventNumbers
<1>7. made' \in Nat
  BY <1>0, <1>2
<1>8. EventsSound(pc', dbAvailable', persistUp', econEvents', made', enqueued', committed')
  BY <1>0, <1>2, <1>4, <1>5, <1>6, <1>7 DEF EventsSound
<1>9. HandedOver(pc', routed', drained', inbound') = HandedOver(pc, routed, drained, inbound)
  BY <1>0 DEF HandedOver
<1>10. PhaseSound(pc', phase)
  BY <1>0, <1>1 DEF PhaseSound, Stages
<1> QED
  BY <1>0, <1>1, <1>8, <1>9, <1>10, MainFrame

LEMMA PublishSound ==
    ASSUME ServerIInv, Server!Publish PROVE ServerIInv'
<1>0. UNCHANGED << running, phase, ops, port, worker, arrived, failures, inbound, drained, routed,
                   made, dbAvailable, persistUp, committed >>
      /\ pc = "events" /\ pc' = "send" /\ econEvents' = << >>
      /\ enqueued' = IF dbAvailable THEN enqueued \o econEvents ELSE enqueued
  BY DEF Server!Publish, Server!DrainEvents, Server!listenerVars
<1>1. /\ inbound \in Seq(Nat) /\ drained \in Seq(Nat) /\ routed \in Seq(Nat)
      /\ PhaseSound(pc, phase)
      /\ EventsSound(pc, dbAvailable, persistUp, econEvents, made, enqueued, committed)
  BY DEF ServerIInv, ListenerType
<1>2. /\ made \in Nat /\ enqueued \in Seq(Nat) /\ econEvents \in Seq(Nat)
      /\ dbAvailable \in BOOLEAN
      /\ dbAvailable => persistUp /\ enqueued \o econEvents = [i \in 1 .. made |-> i]
  BY <1>0, <1>1 DEF EventsSound
<1>3. enqueued' \in Seq(Nat)
  BY <1>0, <1>2
<1>4. dbAvailable => enqueued' \o << >> = [i \in 1 .. made |-> i]
  <2> SUFFICES ASSUME dbAvailable PROVE enqueued' \o << >> = [i \in 1 .. made |-> i]
    OBVIOUS
  <2>1. enqueued' \o << >> = enqueued'
    BY <1>3
  <2> QED
    BY <1>0, <1>2, <2>1
<1>5. EventsSound(pc', dbAvailable', persistUp', econEvents', made', enqueued', committed')
  <2>1. << >> \in Seq(Nat)
    OBVIOUS
  <2> QED
    BY <1>0, <1>2, <1>3, <1>4, <2>1 DEF EventsSound
<1>6. HandedOver(pc', routed', drained', inbound') = HandedOver(pc, routed, drained, inbound)
  BY <1>0 DEF HandedOver
<1>7. PhaseSound(pc', phase)
  BY <1>0, <1>1 DEF PhaseSound, Stages
<1> QED
  BY <1>0, <1>1, <1>5, <1>6, <1>7, MainFrame

LEMMA FlushSound ==
    ASSUME ServerIInv, Server!Flush PROVE ServerIInv'
<1>0. UNCHANGED << running, phase, ops, port, worker, arrived, failures, inbound, drained, routed,
                   econEvents, made, enqueued, dbAvailable, persistUp, committed >>
      /\ pc = "send" /\ pc' = "loop"
  BY DEF Server!Flush, Server!listenerVars
<1>1. /\ inbound \in Seq(Nat) /\ drained \in Seq(Nat) /\ routed \in Seq(Nat)
      /\ PhaseSound(pc, phase)
      /\ EventsSound(pc, dbAvailable, persistUp, econEvents, made, enqueued, committed)
  BY DEF ServerIInv, ListenerType
<1>2. EventsSound(pc', dbAvailable', persistUp', econEvents', made', enqueued', committed')
  BY <1>0, <1>1 DEF EventsSound
<1>3. HandedOver(pc', routed', drained', inbound') = HandedOver(pc, routed, drained, inbound)
  BY <1>0 DEF HandedOver
<1>4. PhaseSound(pc', phase)
  BY <1>0, <1>1 DEF PhaseSound, Stages
<1> QED
  BY <1>0, <1>1, <1>2, <1>3, <1>4, MainFrame

(* The one step main and the listener take together. *)
LEMMA StopListenerSound ==
    ASSUME ServerIInv, Server!StopListener PROVE ServerIInv'
<1> DEFINE A == HandedOver(pc, routed, drained, inbound)
<1>0. UNCHANGED << ops, port, worker, arrived, failures, inbound, drained, routed,
                   econEvents, made, enqueued, dbAvailable, persistUp, committed >>
      /\ pc = "loop" /\ pc' = "stopping" /\ running' = FALSE /\ phase' = "stopping" /\ phase = "up"
  BY DEF Server!StopListener, Server!BeginStop, Server!loopVars
<1>1. /\ inbound \in Seq(Nat) /\ drained \in Seq(Nat) /\ routed \in Seq(Nat)
      /\ EventsSound(pc, dbAvailable, persistUp, econEvents, made, enqueued, committed)
      /\ ListenerType(running, phase, ops, port, worker, inbound, arrived, failures)
      /\ TokenSound(A, port, worker, arrived) /\ \A o \in Ops : ops[o] # "freed"
  BY <1>0 DEF ServerIInv, ListenerType, ListenerSound
<1>2. EventsSound(pc', dbAvailable', persistUp', econEvents', made', enqueued', committed')
  BY <1>0, <1>1 DEF EventsSound
<1>3. HandedOver(pc', routed', drained', inbound') = A
  BY <1>0 DEF HandedOver
<1> HIDE DEF A
<1>4. PhaseSound(pc', phase')
  BY <1>0 DEF PhaseSound, Stages
<1>5. ListenerType(FALSE, "stopping", ops, port, worker, inbound, arrived, failures)
  BY <1>1 DEF ListenerType
<1>6. ListenerSound(FALSE, "stopping", ops, port, worker, A, arrived, failures)
  BY <1>1 DEF ListenerSound
<1>7. ListenerType(running', phase', ops', port', worker', inbound', arrived', failures')
  BY <1>0, <1>5
<1>8. ListenerSound(running', phase', ops', port', worker', HandedOver(pc', routed', drained', inbound'),
                    arrived', failures')
  BY <1>0, <1>3, <1>6
<1>9. drained' \in Seq(Nat) /\ routed' \in Seq(Nat)
  BY <1>0, <1>1
<1> QED
  BY <1>2, <1>4, <1>7, <1>8, <1>9 DEF ServerIInv

LEMMA ReturnSound ==
    ASSUME ServerIInv, Server!Return PROVE ServerIInv'
<1>0. UNCHANGED << running, phase, ops, port, worker, arrived, failures, inbound, drained, routed,
                   econEvents, made, enqueued, dbAvailable >>
      /\ pc = "stopping" /\ pc' = "returned" /\ phase = "stopped"
      /\ persistUp' = FALSE /\ committed' = IF persistUp THEN enqueued ELSE committed
  BY DEF Server!Return, Server!listenerVars
<1>1. /\ inbound \in Seq(Nat) /\ drained \in Seq(Nat) /\ routed \in Seq(Nat)
      /\ PhaseSound(pc, phase)
      /\ EventsSound(pc, dbAvailable, persistUp, econEvents, made, enqueued, committed)
  BY DEF ServerIInv, ListenerType
<1>2. EventsSound(pc', dbAvailable', persistUp', econEvents', made', enqueued', committed')
  BY <1>0, <1>1 DEF EventsSound
<1>3. HandedOver(pc', routed', drained', inbound') = HandedOver(pc, routed, drained, inbound)
  BY <1>0 DEF HandedOver
<1>4. PhaseSound(pc', phase)
  BY <1>0, <1>1 DEF PhaseSound, Stages
<1> QED
  BY <1>0, <1>1, <1>2, <1>3, <1>4, MainFrame

-----------------------------------------------------------------------------
LEMMA ServerStarts == ASSUME Server!Init PROVE ServerIInv
<1>0. /\ running = FALSE /\ phase = "down" /\ ops = [o \in Ops |-> "none"] /\ port = << >>
      /\ worker = [w \in Workers |-> Server!Absent]
      /\ inbound = << >> /\ arrived = 0 /\ failures = 0 /\ pc = "config"
      /\ dbAvailable = FALSE /\ drained = << >> /\ routed = << >>
      /\ econEvents = << >> /\ made = 0 /\ enqueued = << >>
  BY DEF Server!Init, Server!ListenerInit, Server!MainInit
<1>1. ListenerType(running, phase, ops, port, worker, inbound, arrived, failures)
  <2>1. << >> \in Seq(Completions) /\ << >> \in Seq(Nat) /\ 0 \in Nat
    OBVIOUS
  <2>2. Server!Absent \in WorkerStates
    BY DEF WorkerStates
  <2>3. worker \in [Workers -> WorkerStates]
    BY <1>0, <2>2
  <2>4. ops \in [Ops -> OpStates]
    BY <1>0 DEF OpStates
  <2> HIDE DEF Completions
  <2> QED
    BY <1>0, <2>1, <2>3, <2>4 DEF ListenerType
<1>2. PhaseSound(pc, phase)
  BY <1>0 DEF PhaseSound, Stages
<1>3. HandedOver(pc, routed, drained, inbound) = << >>
  <2>1. << >> \o << >> \o << >> = << >>
    OBVIOUS
  <2> QED
    BY <1>0, <2>1 DEF HandedOver
<1>4. TokenSound(<< >>, << >>, worker, 0)
  BY <1>0 DEF TokenSound, Server!Absent
<1>5. ListenerSound(running, "down", ops, << >>, worker, << >>, 0, failures)
  BY <1>0, <1>4 DEF ListenerSound
<1>6. EventsSound(pc, dbAvailable, persistUp, econEvents, made, enqueued, committed)
  BY <1>0, NothingQueued
<1>7. << >> \in Seq(Nat)
  OBVIOUS
<1> QED
  BY <1>0, <1>1, <1>2, <1>3, <1>5, <1>6, <1>7 DEF ServerIInv

LEMMA ServerUnchanged == ASSUME ServerIInv, UNCHANGED serverVars PROVE ServerIInv'
<1>1. /\ ListenerType(running', phase', ops', port', worker', inbound', arrived', failures')
      /\ PhaseSound(pc, phase')
      /\ ListenerSound(running', phase', ops', port', worker',
                       HandedOver(pc, routed, drained, inbound'), arrived', failures')
  BY DEF serverVars, ServerIInv
<1>2. UNCHANGED Server!mainVars
  BY DEF serverVars, Server!mainVars
<1> QED
  BY <1>1, <1>2, ListenerFrame

LEMMA ServerStep == ASSUME ServerIInv, [TransportNext]_allVars PROVE ServerIInv'
<1>1. CASE UNCHANGED serverVars
  BY <1>1, ServerUnchanged
<1>2. CASE Server!MainNext
  BY <1>2, BootSound, ListenerStartedSound, ConsoleSound, DrainSound, RouteSound, PublishSound,
     FlushSound, StopListenerSound, ReturnSound, SimStepsSound DEF Server!MainNext
<1>3. CASE Server!ListenerNext /\ (phase \in {"down", "priming"} => pc = "listen")
           /\ UNCHANGED Server!mainVars
  <2>1. CASE Server!StartSocket
    BY <1>3, <2>1, StartSocketSound DEF Server!StartSocket
  <2>2. CASE Server!StartPool
    BY <1>3, <2>2, StartPoolSound DEF Server!StartPool
  <2>3. CASE Server!CloseSocket
    BY <1>3, <2>3, CloseSocketSound
  <2>4. CASE Server!FinishStop
    BY <1>3, <2>4, FinishStopSound
  <2>5. CASE \E o \in Ops : Server!Arrive(o) \/ Server!ReceiveFails(o)
    BY <1>3, <2>5, CompletesSound
  <2>6. CASE \E w \in Workers : Server!WorkerTop(w) \/ Server!WorkerTakes(w) \/ Server!Callback(w)
                                \/ Server!Repost(w)
    BY <1>3, <2>6, WorkerTopSound, WorkerTakesSound, CallbackSound, RepostSound
  <2> QED
    BY <1>3, <2>1, <2>2, <2>3, <2>4, <2>5, <2>6 DEF Server!ListenerNext
<1> QED
  BY <1>1, <1>2, <1>3 DEF TransportNext, ChannelNext, ReliabilityNext, LoopbackNext, ServerNext,
     WireNext, StepsNext, TimerNext, allVars, Server!Next

(* Receive threads and main, for any number of workers, operations and     *)
(* datagrams and in any order of their steps: no freed operation is        *)
(* touched, Stop strands no worker, every datagram is handed over once,    *)
(* and the end of the program loses no event and leaves no thread          *)
(* (IocpUdpListener.cpp WorkerLoop and Stop, ERServer.cpp main).           *)
THEOREM ServerCorrect == TransportSpec => []ServerInv
<1>1. TransportInit => ServerIInv
  BY ServerStarts DEF TransportInit
<1>2. ServerIInv /\ [TransportNext]_allVars => ServerIInv'
  BY ServerStep
<1>3. ServerIInv => ServerInv
  BY ServerFollows DEF ServerInv
<1> QED
  BY <1>1, <1>2, <1>3, PTL DEF TransportSpec

-----------------------------------------------------------------------------
(* The clocks.  A whole step is worth STEP * ONE of the accumulator; what  *)
(* a frame takes in is worth MAX_CATCH_UP of them at most, so what is left *)
(* when no step may be taken any more is less than one.                    *)

Whole == STEP * ONE

ClockTypeOK ==
    /\ real \in Nat /\ m_last \in Nat /\ m_last <= real /\ framePhase \in {"outer", "steps"}
    /\ m_accumulator \in Nat /\ m_simTickCount \in Nat
    /\ m_stepsThisFrame \in 0 .. MAX_CATCH_UP /\ m_factor \in FLOOR .. ONE

ClockIInv ==
    /\ ClockTypeOK
    /\ framePhase = "outer" => m_accumulator < Whole
    /\ framePhase = "steps" => m_accumulator < (MAX_CATCH_UP + 1 - m_stepsThisFrame) * Whole
    /\ m_simTickCount * Whole + m_accumulator <= m_last * ONE

TimerIInv == m_qpcSecondCounter \in 0 .. FREQUENCY - 1

LEMMA TimesGrow ==
    ASSUME NEW a \in Nat, NEW b \in Nat, NEW c \in Nat, NEW d \in Nat, a <= c, b <= d
    PROVE  a * b \in Nat /\ a * b <= c * d
<1>1. PICK x, y : x = c - a /\ y = d - b
  OBVIOUS
<1>2. x \in Nat /\ y \in Nat /\ c = a + x /\ d = b + y
  BY <1>1
<1>3. c * d = a * b + a * y + x * b + x * y
  BY <1>2
<1>4. a * b \in Nat /\ a * y \in Nat /\ x * b \in Nat /\ x * y \in Nat
  BY <1>2
<1> QED
  BY <1>3, <1>4

LEMMA WholeIs == Whole \in Nat \ {0} /\ STEP \in Nat \ {0} /\ ONE \in Nat \ {0} /\ MAX_CATCH_UP \in Nat \ {0}
<1>1. STEP \in Nat \ {0} /\ ONE \in Nat \ {0} /\ MAX_CATCH_UP \in Nat \ {0}
  BY ClockAssumption
<1>2. STEP * ONE \in Nat /\ STEP * ONE >= 1 * 1
  BY <1>1, TimesGrow
<1> QED
  BY <1>1, <1>2 DEF Whole

LEMMA ClampedTo ==
    ASSUME NEW v \in Int, NEW lo \in Int, NEW hi \in Int, lo <= hi
    PROVE  /\ Clock!Clamp(v, lo, hi) \in lo .. hi
           /\ v <= hi => Clock!Clamp(v, lo, hi) >= v
BY DEF Clock!Clamp

LEMMA IntakeIs ==
    ASSUME NEW e \in Nat
    PROVE  /\ Clock!Intake(e) \in Nat /\ Clock!Intake(e) <= e /\ Clock!Intake(e) <= STEP * MAX_CATCH_UP
<1>1. PICK most : most = STEP * MAX_CATCH_UP
  OBVIOUS
<1>2. most \in Nat
  BY <1>1, WholeIs, TimesGrow
<1>3. PICK S : S = {e, most}
  OBVIOUS
<1>4. \E x \in S : \A y \in S : x <= y
  BY <1>2, <1>3
<1>5. Clock!Min(S) \in S /\ \A y \in S : Clock!Min(S) <= y
  BY <1>4 DEF Clock!Min
<1>6. Clock!Intake(e) = Clock!Min(S)
  BY <1>1, <1>3 DEF Clock!Intake
<1> QED
  BY <1>1, <1>2, <1>3, <1>5, <1>6

LEMMA QuotientIs ==
    ASSUME NEW a \in Nat, NEW b \in Nat \ {0}
    PROVE  a \div b \in Nat /\ (b <= a => a \div b >= 1) /\ a \div b <= a
OBVIOUS

(* The factor stays between the floor and full speed; within its budget a  *)
(* step brings it closer to full speed, for what the easing is too coarse  *)
(* to move is within the snap.                                             *)
LEMMA FactorMoves ==
    ASSUME m_factor \in FLOOR .. ONE, NEW cost \in Nat \ {0}
    PROVE  /\ Clock!Update(cost) \in FLOOR .. ONE
           /\ cost <= STEP /\ m_factor < ONE => Clock!Update(cost) > m_factor
<1>1. /\ FLOOR \in Nat /\ 1 <= FLOOR /\ FLOOR <= ONE /\ ONE \in Nat /\ SNAP \in Nat /\ EASE_UP <= SNAP + 1
      /\ EASE_UP \in Nat \ {0} /\ EASE_DOWN \in Nat \ {0} /\ STEP \in Nat \ {0} /\ m_factor \in Nat
  BY ClockAssumption
<1>2. PICK target : target = Clock!Target(cost)
  OBVIOUS
<1>3. target \in FLOOR .. ONE /\ (cost <= STEP => target = ONE)
  <2>1. CASE cost > STEP
    <3>1. ONE * STEP \in Nat
      BY <1>1
    <3>2. (ONE * STEP) \div cost \in Int
      BY <3>1, QuotientIs
    <3>3. target = Clock!Clamp((ONE * STEP) \div cost, FLOOR, ONE)
      BY <1>2, <2>1 DEF Clock!Target
    <3> QED
      BY <1>1, <2>1, <3>2, <3>3, ClampedTo
  <2>2. CASE ~(cost > STEP)
    BY <1>1, <1>2, <2>2 DEF Clock!Target
  <2> QED
    BY <2>1, <2>2
<1>4. PICK eased : eased = IF target < m_factor
                           THEN m_factor - (m_factor - target) \div EASE_DOWN
                           ELSE m_factor + (target - m_factor) \div EASE_UP
  OBVIOUS
<1>5. eased \in Int
  <2>1. CASE target < m_factor
    <3>1. m_factor - target \in Nat
      BY <1>1, <1>3, <2>1
    <3>2. (m_factor - target) \div EASE_DOWN \in Nat
      BY <1>1, <3>1, QuotientIs
    <3> QED
      BY <1>1, <1>4, <2>1, <3>2
  <2>2. CASE ~(target < m_factor)
    <3>1. target - m_factor \in Nat
      BY <1>1, <1>3, <2>2
    <3>2. (target - m_factor) \div EASE_UP \in Nat
      BY <1>1, <3>1, QuotientIs
    <3> QED
      BY <1>1, <1>4, <2>2, <3>2
  <2> QED
    BY <2>1, <2>2
<1>6. PICK clamped : clamped = Clock!Clamp(eased, FLOOR, ONE)
  OBVIOUS
<1>7. clamped \in FLOOR .. ONE /\ (eased <= ONE => clamped >= eased)
  BY <1>1, <1>5, <1>6, ClampedTo
<1>8. Clock!Update(cost) = IF clamped >= ONE - SNAP THEN ONE ELSE clamped
  BY <1>2, <1>4, <1>6 DEF Clock!Update
<1>9. Clock!Update(cost) \in FLOOR .. ONE
  BY <1>1, <1>7, <1>8
<1>10. ASSUME cost <= STEP, m_factor < ONE PROVE Clock!Update(cost) > m_factor
  <2>1. PICK d, q : d = ONE - m_factor /\ q = d \div EASE_UP
    OBVIOUS
  <2>2. d \in Nat \ {0} /\ ONE = m_factor + d
    BY <1>1, <1>10, <2>1
  <2>3. q \in Nat /\ (EASE_UP <= d => q >= 1) /\ q <= d
    BY <1>1, <2>1, <2>2, QuotientIs
  <2>4. eased = m_factor + q /\ eased <= ONE
    BY <1>1, <1>3, <1>4, <1>10, <2>1, <2>2, <2>3
  <2>5. clamped >= m_factor + q
    BY <1>7, <2>4
  <2>6. CASE EASE_UP <= d
    BY <1>1, <1>7, <1>8, <1>10, <2>3, <2>5, <2>6
  <2>7. CASE ~(EASE_UP <= d)
    <3>1. clamped >= ONE - SNAP
      BY <1>1, <1>7, <2>2, <2>3, <2>5, <2>7
    <3> QED
      BY <1>8, <1>10, <3>1
  <2> QED
    BY <2>6, <2>7
<1> QED
  BY <1>9, <1>10

LEMMA ClockTakesIn == ASSUME ClockIInv, Clock!Tick PROVE ClockIInv'
<1>1. /\ real \in Nat /\ m_last \in Nat /\ m_last <= real /\ m_accumulator \in Nat /\ m_simTickCount \in Nat
      /\ m_factor \in FLOOR .. ONE /\ m_accumulator < Whole
      /\ m_simTickCount * Whole + m_accumulator <= m_last * ONE
  BY DEF ClockIInv, ClockTypeOK, Clock!Tick
<1>2. PICK e, w : e = real - m_last /\ w = Clock!Intake(e)
  OBVIOUS
<1>3. e \in Nat
  BY <1>1, <1>2
<1>4. w \in Nat /\ w <= e /\ w <= STEP * MAX_CATCH_UP
  BY <1>2, <1>3, IntakeIs
<1>5. /\ m_accumulator' = m_accumulator + w * m_factor /\ m_last' = real /\ m_stepsThisFrame' = 0
      /\ framePhase' = "steps" /\ real' = real /\ m_simTickCount' = m_simTickCount /\ m_factor' = m_factor
  BY <1>2 DEF Clock!Tick, Clock!Measured
<1>6. m_factor \in Nat /\ m_factor <= ONE /\ ONE \in Nat
  BY <1>1, ClockAssumption
<1>7. w * m_factor \in Nat /\ w * m_factor <= e * ONE
  BY <1>3, <1>4, <1>6, TimesGrow
<1>8. w * m_factor <= MAX_CATCH_UP * Whole
  <2>1. PICK most : most = STEP * MAX_CATCH_UP
    OBVIOUS
  <2>2. most \in Nat
    BY <2>1, WholeIs, TimesGrow
  <2>3. w * m_factor <= most * ONE
    BY <1>4, <1>6, <2>1, <2>2, TimesGrow
  <2>4. most * ONE = MAX_CATCH_UP * Whole
    BY <2>1, WholeIs DEF Whole
  <2> QED
    BY <2>3, <2>4
<1>9. m_accumulator' \in Nat /\ m_accumulator' < (MAX_CATCH_UP + 1 - m_stepsThisFrame') * Whole
  <2>1. MAX_CATCH_UP * Whole \in Nat /\ Whole \in Nat /\ MAX_CATCH_UP \in Nat
    BY WholeIs, TimesGrow
  <2>2. (MAX_CATCH_UP + 1 - 0) * Whole = MAX_CATCH_UP * Whole + Whole
    BY <2>1
  <2>3. m_accumulator + w * m_factor < MAX_CATCH_UP * Whole + Whole
    BY <1>1, <1>7, <1>8, <2>1
  <2> QED
    BY <1>1, <1>5, <1>7, <2>2, <2>3
<1>10. m_simTickCount' * Whole + m_accumulator' <= m_last' * ONE
  <2>1. m_last * ONE + e * ONE = real * ONE
    BY <1>1, <1>2, <1>3, <1>6
  <2>2. m_simTickCount * Whole \in Nat /\ m_last * ONE \in Nat /\ e * ONE \in Nat
    BY <1>1, <1>3, <1>6, WholeIs, TimesGrow
  <2>3. m_simTickCount * Whole + (m_accumulator + w * m_factor) <= m_last * ONE + e * ONE
    BY <1>1, <1>7, <2>2
  <2> QED
    BY <1>5, <2>1, <2>3
<1>11. ClockTypeOK'
  BY <1>1, <1>5, <1>9, WholeIs DEF ClockTypeOK
<1> QED
  BY <1>5, <1>9, <1>10, <1>11 DEF ClockIInv

LEMMA ClockConsumes ==
    ASSUME ClockIInv, NEW c \in TickCosts, Clock!ConsumeStep(c)
    PROVE  ClockIInv'
<1>1. /\ real \in Nat /\ m_last \in Nat /\ m_last <= real /\ m_accumulator \in Nat /\ m_simTickCount \in Nat
      /\ m_factor \in FLOOR .. ONE /\ m_stepsThisFrame \in Nat /\ m_stepsThisFrame < MAX_CATCH_UP
      /\ m_accumulator < (MAX_CATCH_UP + 1 - m_stepsThisFrame) * Whole /\ m_accumulator >= Whole
      /\ m_simTickCount * Whole + m_accumulator <= m_last * ONE
  BY WholeIs DEF ClockIInv, ClockTypeOK, Clock!ConsumeStep, Clock!Ready, Whole
<1>2. /\ m_accumulator' = m_accumulator - Whole /\ m_simTickCount' = m_simTickCount + 1
      /\ m_stepsThisFrame' = m_stepsThisFrame + 1 /\ m_factor' = Clock!Update(c)
      /\ real' = real /\ m_last' = m_last /\ framePhase' = "steps"
  BY DEF Clock!ConsumeStep, Whole
<1>3. m_factor' \in FLOOR .. ONE
  BY <1>1, <1>2, FactorMoves, ClockAssumption
<1>4. Whole \in Nat /\ MAX_CATCH_UP \in Nat
  BY WholeIs
<1>5. PICK k : k = MAX_CATCH_UP - m_stepsThisFrame
  OBVIOUS
<1>6. k \in Nat /\ MAX_CATCH_UP + 1 - m_stepsThisFrame = k + 1 /\ MAX_CATCH_UP + 1 - (m_stepsThisFrame + 1) = k
  BY <1>1, <1>4, <1>5
<1>7. (k + 1) * Whole = k * Whole + Whole /\ k * Whole \in Nat
  BY <1>4, <1>6, TimesGrow
<1>8. m_accumulator' \in Nat /\ m_accumulator' < (MAX_CATCH_UP + 1 - m_stepsThisFrame') * Whole
  BY <1>1, <1>2, <1>4, <1>6, <1>7
<1>9. m_simTickCount' * Whole + m_accumulator' <= m_last' * ONE
  <2>1. (m_simTickCount + 1) * Whole = m_simTickCount * Whole + Whole /\ m_simTickCount * Whole \in Nat
    BY <1>1, <1>4, TimesGrow
  <2>2. m_last * ONE \in Nat
    BY <1>1, WholeIs, TimesGrow
  <2> QED
    BY <1>1, <1>2, <1>4, <2>1, <2>2
<1>10. ClockTypeOK'
  BY <1>1, <1>2, <1>3, <1>4, <1>8 DEF ClockTypeOK
<1> QED
  BY <1>2, <1>8, <1>9, <1>10 DEF ClockIInv

LEMMA ClockRests == ASSUME ClockIInv, Clock!ConsumeNothing PROVE ClockIInv'
<1>1. /\ m_accumulator \in Nat /\ m_stepsThisFrame \in 0 .. MAX_CATCH_UP
      /\ m_accumulator < (MAX_CATCH_UP + 1 - m_stepsThisFrame) * Whole
      /\ ~(m_stepsThisFrame < MAX_CATCH_UP /\ m_accumulator >= Whole)
  BY DEF ClockIInv, ClockTypeOK, Clock!ConsumeNothing, Clock!Ready, Whole
<1>2. /\ real' = real /\ m_last' = m_last /\ framePhase' = "outer" /\ m_accumulator' = m_accumulator
      /\ m_simTickCount' = m_simTickCount /\ m_stepsThisFrame' = m_stepsThisFrame /\ m_factor' = m_factor
  BY DEF Clock!ConsumeNothing
<1>3. Whole \in Nat /\ MAX_CATCH_UP \in Nat
  BY WholeIs
<1>4. m_accumulator < Whole
  <2>1. CASE m_stepsThisFrame < MAX_CATCH_UP
    BY <1>1, <1>3, <2>1
  <2>2. CASE m_stepsThisFrame = MAX_CATCH_UP
    <3>1. MAX_CATCH_UP + 1 - m_stepsThisFrame = 1 /\ 1 * Whole = Whole
      BY <1>3, <2>2
    <3> QED
      BY <1>1, <3>1
  <2> QED
    BY <1>1, <1>3, <2>1, <2>2
<1>5. ClockTypeOK'
  BY <1>2 DEF ClockIInv, ClockTypeOK
<1> QED
  BY <1>2, <1>4, <1>5 DEF ClockIInv

LEMMA ClockResets == ASSUME ClockIInv, Clock!ResetAccumulator PROVE ClockIInv'
<1>1. /\ real' = real /\ m_last' = real /\ framePhase' = "outer" /\ m_accumulator' = 0
      /\ m_simTickCount' = m_simTickCount /\ m_stepsThisFrame' = 0 /\ m_factor' = m_factor
  BY DEF Clock!ResetAccumulator, ClockIInv, ClockTypeOK
<1>2. ClockTypeOK'
  BY <1>1, WholeIs DEF ClockIInv, ClockTypeOK
<1>3. m_simTickCount' * Whole + m_accumulator' <= m_last' * ONE
  <2>1. /\ real \in Nat /\ m_last \in Nat /\ m_last <= real /\ m_accumulator \in Nat /\ m_simTickCount \in Nat
        /\ m_simTickCount * Whole + m_accumulator <= m_last * ONE
    BY DEF ClockIInv, ClockTypeOK
  <2>2. m_last * ONE <= real * ONE /\ m_last * ONE \in Nat /\ real * ONE \in Nat /\ m_simTickCount * Whole \in Nat
    BY <2>1, WholeIs, TimesGrow
  <2> QED
    BY <1>1, <2>1, <2>2
<1> QED
  BY <1>1, <1>2, <1>3, WholeIs DEF ClockIInv

LEMMA ClockWaits == ASSUME ClockIInv, NEW d \in Elapsed, Clock!TimePasses(d) PROVE ClockIInv'
<1>1. /\ real' = real + d /\ m_last' = m_last /\ framePhase' = framePhase /\ m_accumulator' = m_accumulator
      /\ m_simTickCount' = m_simTickCount /\ m_stepsThisFrame' = m_stepsThisFrame /\ m_factor' = m_factor
  BY DEF Clock!TimePasses
<1>2. d \in Nat
  BY ClockAssumption
<1>3. ClockTypeOK'
  BY <1>1, <1>2 DEF ClockIInv, ClockTypeOK
<1> QED
  BY <1>1, <1>3 DEF ClockIInv

LEMMA ClockUnchanged ==
    ASSUME ClockIInv,
           UNCHANGED << real, m_last, framePhase, m_accumulator, m_simTickCount, m_stepsThisFrame, m_factor >>
    PROVE  ClockIInv'
BY DEF ClockIInv, ClockTypeOK

LEMMA TimerMoves == ASSUME TimerIInv, [TransportNext]_allVars PROVE TimerIInv'
<1>1. CASE UNCHANGED m_qpcSecondCounter
  BY <1>1 DEF TimerIInv
<1>2. FREQUENCY \in Nat \ {0}
  BY ClockAssumption
<1>3. ASSUME NEW d \in Elapsed, Clock!TimerUpdate(d) PROVE TimerIInv'
  <2>1. PICK counter : counter = m_qpcSecondCounter + d
    OBVIOUS
  <2>2. counter \in Nat
    BY <1>2, <2>1, ClockAssumption DEF TimerIInv
  <2>3. m_qpcSecondCounter' = IF counter >= FREQUENCY THEN counter % FREQUENCY ELSE counter
    BY <1>3, <2>1 DEF Clock!TimerUpdate, Clock!SecondsOff
  <2>4. counter % FREQUENCY \in 0 .. FREQUENCY - 1
    BY <1>2, <2>2
  <2> QED
    BY <1>2, <2>2, <2>3, <2>4 DEF TimerIInv
<1>4. CASE Clock!ResetElapsedTime
  BY <1>2, <1>4 DEF Clock!ResetElapsedTime, TimerIInv
<1>5. CASE Clock!StepNext
  BY <1>1, <1>5 DEF Clock!StepNext, Clock!TimePasses, Clock!ConsumeStep, Clock!Tick, Clock!ConsumeNothing,
     Clock!ResetAccumulator, Clock!timerVars
<1> QED
  BY <1>1, <1>3, <1>4, <1>5 DEF TransportNext, ChannelNext, ReliabilityNext, LoopbackNext, ServerNext,
     WireNext, StepsNext, TimerNext, allVars, clockVars, Clock!TimerNext

LEMMA ClockMoves == ASSUME ClockIInv, [TransportNext]_allVars PROVE ClockIInv'
<1>1. CASE UNCHANGED << real, m_last, framePhase, m_accumulator, m_simTickCount, m_stepsThisFrame, m_factor >>
  BY <1>1, ClockUnchanged
<1>2. CASE Clock!StepNext
  BY <1>2, ClockWaits, ClockConsumes, ClockTakesIn, ClockRests, ClockResets DEF Clock!StepNext
<1>3. CASE Clock!TimerNext
  BY <1>1, <1>3 DEF Clock!TimerNext, Clock!TimerUpdate, Clock!ResetElapsedTime, Clock!stepVars
<1> QED
  BY <1>1, <1>2, <1>3 DEF TransportNext, ChannelNext, ReliabilityNext, LoopbackNext, ServerNext,
     WireNext, StepsNext, TimerNext, allVars, clockVars

LEMMA ClockStarts == ASSUME Clock!Init PROVE ClockIInv /\ TimerIInv
<1>1. /\ real = 0 /\ m_last = 0 /\ framePhase = "outer" /\ m_accumulator = 0 /\ m_simTickCount = 0
      /\ m_stepsThisFrame = 0 /\ m_factor = ONE /\ m_qpcSecondCounter = 0
  BY DEF Clock!Init
<1>2. FLOOR \in Nat /\ FLOOR <= ONE /\ FREQUENCY \in Nat \ {0}
  BY ClockAssumption
<1>3. 0 * Whole = 0 /\ 0 * ONE = 0
  BY WholeIs
<1>4. ClockTypeOK
  BY <1>1, <1>2, WholeIs DEF ClockTypeOK
<1> QED
  BY <1>1, <1>2, <1>3, <1>4, WholeIs DEF ClockIInv, TimerIInv

LEMMA ClockFollows == ASSUME ClockIInv PROVE Clock!RemainderBelowStep /\ Clock!NeverAhead
<1>1. /\ real \in Nat /\ m_last \in Nat /\ m_last <= real /\ m_accumulator \in Nat /\ m_simTickCount \in Nat
      /\ m_simTickCount * Whole + m_accumulator <= m_last * ONE
      /\ framePhase = "outer" => m_accumulator < Whole
  BY DEF ClockIInv, ClockTypeOK
<1>2. m_last * ONE <= real * ONE /\ m_last * ONE \in Nat /\ real * ONE \in Nat /\ m_simTickCount * Whole \in Nat
  BY <1>1, WholeIs, TimesGrow
<1>3. m_simTickCount * STEP * ONE = m_simTickCount * Whole
  BY <1>1, WholeIs DEF Whole
<1> QED
  BY <1>1, <1>2, <1>3 DEF Clock!RemainderBelowStep, Clock!NeverAhead, Whole

(* Less than a step is left between frames, the simulation is never ahead  *)
(* of real time, the frame counter closes every second, and a step inside  *)
(* its budget brings a dilated clock nearer to full speed                  *)
(* (FixedStepAccumulator.h, TimeDilation.h, TimerCore.h).                  *)
THEOREM ClockCorrect == TransportSpec => ClockKeepsTime
<1>1. TransportInit => ClockIInv /\ TimerIInv
  BY ClockStarts DEF TransportInit
<1>2. ClockIInv /\ [TransportNext]_allVars => ClockIInv'
  BY ClockMoves
<1>3. TimerIInv /\ [TransportNext]_allVars => TimerIInv'
  BY TimerMoves
<1>4. ClockIInv => (part = "steps" => Clock!RemainderBelowStep /\ Clock!NeverAhead)
  BY ClockFollows
<1>5. TimerIInv => (part = "timer" => Clock!SecondsClose)
  BY ClockAssumption DEF TimerIInv, Clock!SecondsClose
<1>6. ClockIInv /\ ClockIInv' => [part = "steps" => Clock!RecoveryStep]_allVars
  <2> SUFFICES ASSUME ClockIInv, ClockIInv' PROVE Clock!RecoveryStep
    OBVIOUS
  <2>1. m_factor \in FLOOR .. ONE /\ m_factor' \in FLOOR .. ONE
    BY DEF ClockIInv, ClockTypeOK
  <2>2. \A c \in TickCosts : c <= STEP /\ m_factor < ONE => Clock!Update(c) > m_factor
    BY <2>1, FactorMoves, ClockAssumption
  <2> QED
    BY <2>1, <2>2 DEF Clock!RecoveryStep
<1> QED
  BY <1>1, <1>2, <1>3, <1>4, <1>5, <1>6, PTL DEF TransportSpec, ClockKeepsTime

-----------------------------------------------------------------------------
(***************************************************************************)
(* The test wire                                                           *)
(***************************************************************************)
LEMMA LoopSameCardinality == \A S : Loop!Cardinality(S) = Cardinality(S)
BY DEF Loop!Cardinality, Cardinality

(* A bijection keeps the size.                                             *)
LEMMA SameSize ==
    ASSUME NEW S, IsFiniteSet(S), NEW T, NEW f \in [S -> T], \A x, y \in S : f[x] = f[y] => x = y,
           \A y \in T : \E x \in S : f[x] = y
    PROVE  IsFiniteSet(T) /\ Cardinality(T) = Cardinality(S)
<1>1. f \in Bijection(S, T)
  BY DEF Bijection, Injection, Surjection, IsInjective
<1>2. ExistsBijection(S, T)
  BY <1>1 DEF ExistsBijection
<1> QED
  BY <1>2, FS_Bijection

Places(s, id) == { i \in 1 .. Len(s) : s[i].id = id }
Count(s, id) == Cardinality(Places(s, id))
Members(s) == { s[i] : i \in 1 .. Len(s) }

LEMMA CopiesAre == \A p, s : Loop!Copies(p, s) = Count(s, p.id)
BY LoopSameCardinality DEF Loop!Copies, Count, Places

LEMMA PlacesFinite ==
    ASSUME NEW D, NEW s \in Seq(D), NEW id
    PROVE  /\ IsFiniteSet(Places(s, id)) /\ Count(s, id) \in Nat /\ Places(s, id) \subseteq 1 .. Len(s)
           /\ IsFiniteSet(1 .. Len(s)) /\ Len(s) \in Nat /\ Cardinality(1 .. Len(s)) = Len(s)
<1>1. Len(s) \in Nat
  OBVIOUS
<1>2. IsFiniteSet(1 .. Len(s)) /\ Cardinality(1 .. Len(s)) = Len(s)
  BY <1>1, FS_Interval
<1>3. Places(s, id) \in SUBSET (1 .. Len(s))
  BY DEF Places
<1> QED
  BY <1>1, <1>2, <1>3, FS_Subset, FS_CardinalityType DEF Count

(* No member of that number, no copy.                                      *)
LEMMA CountNone ==
    ASSUME NEW D, NEW s \in Seq(D), NEW id, \A d \in Members(s) : d.id # id
    PROVE  Count(s, id) = 0
<1>1. Places(s, id) = {}
  BY DEF Places, Members
<1> QED
  BY <1>1, FS_EmptySet DEF Count

LEMMA CountEmpty == \A id : Count(<< >>, id) = 0
<1> SUFFICES ASSUME NEW id PROVE Count(<< >>, id) = 0
  OBVIOUS
<1>1. Places(<< >>, id) = {}
  BY DEF Places
<1> QED
  BY <1>1, FS_EmptySet DEF Count

LEMMA CountOne ==
    ASSUME NEW D, NEW d \in D, NEW id
    PROVE  Count(<< d >>, id) = IF d.id = id THEN 1 ELSE 0
<1>1. CASE d.id = id
  <2>1. Places(<< d >>, id) = {1}
    BY <1>1 DEF Places
  <2> QED
    BY <1>1, <2>1, FS_Singleton DEF Count
<1>2. CASE d.id # id
  <2>1. Places(<< d >>, id) = {}
    BY <1>2 DEF Places
  <2> QED
    BY <1>2, <2>1, FS_EmptySet DEF Count
<1> QED
  BY <1>1, <1>2

(* Sequences one after the other hold what they hold together.             *)
LEMMA CountJoined ==
    ASSUME NEW D, NEW s \in Seq(D), NEW t \in Seq(D), NEW id
    PROVE  /\ Count(s \o t, id) = Count(s, id) + Count(t, id)
           /\ s \o t \in Seq(D) /\ Members(s \o t) = Members(s) \cup Members(t)
<1>1. PICK m, n, u : m = Len(s) /\ n = Len(t) /\ u = s \o t
  OBVIOUS
<1>2. /\ m \in Nat /\ n \in Nat /\ u \in Seq(D) /\ Len(u) = m + n
      /\ \A i \in 1 .. m + n : u[i] = IF i <= m THEN s[i] ELSE t[i - m]
  BY <1>1, ConcatProperties
<1>3. \A i \in 1 .. m : i \in 1 .. m + n /\ u[i] = s[i]
  BY <1>2
<1>4. \A j \in 1 .. n : m + j \in 1 .. m + n /\ u[m + j] = t[j]
  <2> SUFFICES ASSUME NEW j \in 1 .. n PROVE m + j \in 1 .. m + n /\ u[m + j] = t[j]
    OBVIOUS
  <2>1. m + j \in 1 .. m + n /\ ~(m + j <= m) /\ m + j - m = j
    BY <1>2
  <2> QED
    BY <1>2, <2>1
<1>5. \A i \in 1 .. m + n : i \in 1 .. m \/ \E j \in 1 .. n : i = m + j
  <2> SUFFICES ASSUME NEW i \in 1 .. m + n, i \notin 1 .. m PROVE \E j \in 1 .. n : i = m + j
    OBVIOUS
  <2>1. i - m \in 1 .. n /\ i = m + (i - m)
    BY <1>2
  <2> QED
    BY <2>1
<1>6. PICK P, Q, R : P = Places(s, id) /\ Q = Places(t, id) /\ R = { m + j : j \in Q }
  OBVIOUS
<1>7. /\ IsFiniteSet(P) /\ IsFiniteSet(Q) /\ Cardinality(P) \in Nat /\ Cardinality(Q) \in Nat
      /\ P \subseteq 1 .. m /\ Q \subseteq 1 .. n
  BY <1>1, <1>6, PlacesFinite DEF Count
<1>8. IsFiniteSet(R) /\ Cardinality(R) = Cardinality(Q)
  <2> DEFINE f == [j \in Q |-> m + j]
  <2>1. f \in [Q -> R]
    BY <1>6
  <2>2. \A x, y \in Q : f[x] = f[y] => x = y
    BY <1>2, <1>7
  <2>3. \A y \in R : \E x \in Q : f[x] = y
    BY <1>6
  <2> HIDE DEF f
  <2> QED
    BY <1>7, <2>1, <2>2, <2>3, SameSize
<1>9. Places(u, id) = P \cup R
  <2>1. \A i \in 1 .. m + n : u[i].id = id <=> i \in P \cup R
    <3> SUFFICES ASSUME NEW i \in 1 .. m + n PROVE u[i].id = id <=> i \in P \cup R
      OBVIOUS
    <3>1. CASE i \in 1 .. m
      <4>1. i \notin R
        BY <1>2, <1>6, <1>7, <3>1
      <4> QED
        BY <1>1, <1>3, <1>6, <3>1, <4>1 DEF Places
    <3>2. CASE i \notin 1 .. m
      <4>1. PICK j \in 1 .. n : i = m + j
        BY <1>5, <3>2
      <4>2. i \in R <=> j \in Q
        BY <1>2, <1>6, <1>7, <4>1
      <4>3. i \notin P
        BY <1>7, <3>2
      <4> QED
        BY <1>1, <1>4, <1>6, <4>1, <4>2, <4>3 DEF Places
    <3> QED
      BY <3>1, <3>2
  <2>2. P \cup R \subseteq 1 .. m + n
    BY <1>2, <1>3, <1>4, <1>6, <1>7
  <2> QED
    BY <1>2, <2>1, <2>2 DEF Places
<1>10. P \cap R = {}
  BY <1>2, <1>6, <1>7
<1>11. Cardinality(P \cup R) = Cardinality(P) + Cardinality(R)
  <2>1. Cardinality(P \cup R) = Cardinality(P) + Cardinality(R) - Cardinality(P \cap R)
    BY <1>7, <1>8, FS_Union
  <2>2. Cardinality(P \cap R) = 0
    BY <1>10, FS_EmptySet
  <2>3. PICK a, b, c, d : a = Cardinality(P) /\ b = Cardinality(R) /\ c = Cardinality(P \cup R) /\ d = Cardinality(P \cap R)
    OBVIOUS
  <2>4. a \in Nat /\ b \in Nat /\ c = a + b - d /\ d = 0
    BY <1>7, <1>8, <2>1, <2>2, <2>3
  <2>5. c = a + b
    BY <2>4
  <2> QED
    BY <2>3, <2>5
<1>12. Members(u) = Members(s) \cup Members(t)
  <2>1. ASSUME NEW d \in Members(u) PROVE d \in Members(s) \cup Members(t)
    BY <1>1, <1>2, <1>3, <1>4, <1>5, <2>1 DEF Members
  <2>2. ASSUME NEW d \in Members(s) \cup Members(t) PROVE d \in Members(u)
    BY <1>1, <1>2, <1>3, <1>4, <2>2 DEF Members
  <2> QED
    BY <2>1, <2>2
<1> QED
  BY <1>1, <1>2, <1>6, <1>8, <1>9, <1>11, <1>12 DEF Count

\* k holds what s holds at the places I.
Keeps(k, s, I) ==
    Members(k) = { s[i] : i \in I } /\ \A id : Count(k, id) = Cardinality({ i \in I : s[i].id = id })

(* Kept, in order: the members at the places I, as often as there.         *)
LEMMA KeptIs ==
    ASSUME NEW D, NEW s \in Seq(D), NEW I, I \subseteq 1 .. Len(s)
    PROVE  Loop!Kept(s, I) \in Seq(D) /\ Keeps(Loop!Kept(s, I), s, I)
<1> DEFINE n == Cardinality(I)
           Below(x) == { j \in I : j <= x }
           rank == [x \in I |-> Cardinality(Below(x))]
<1>1. IsFiniteSet(I) /\ n \in Nat /\ I \subseteq Nat
  <2>1. IsFiniteSet(1 .. Len(s)) /\ I \in SUBSET (1 .. Len(s))
    BY PlacesFinite
  <2>2. IsFiniteSet(I)
    BY <2>1, FS_Subset
  <2>3. n \in Nat
    BY <2>2, FS_CardinalityType
  <2> QED
    BY <2>1, <2>2, <2>3
<1>2. \A x \in I : IsFiniteSet(Below(x)) /\ rank[x] \in Nat /\ rank[x] <= n
  <2> SUFFICES ASSUME NEW x \in I PROVE IsFiniteSet(Below(x)) /\ rank[x] \in Nat /\ rank[x] <= n
    OBVIOUS
  <2>1. Below(x) \subseteq I
    OBVIOUS
  <2> QED
    BY <1>1, <2>1, FS_Subset, FS_CardinalityType
<1>3. ASSUME NEW x \in I, NEW y \in I, x < y PROVE rank[x] < rank[y]
  <2>1. x \in Nat /\ y \in Nat
    BY <1>1
  <2>2. \A j \in I : j \in Nat /\ (j <= x => j <= y)
    BY <1>1, <1>3, <2>1
  <2>3. PICK A, B : A = Below(x) /\ B = Below(y)
    OBVIOUS
  <2>4. A \subseteq B /\ IsFiniteSet(A) /\ IsFiniteSet(B)
    BY <1>2, <2>2, <2>3
  <2>5. y \in B /\ y \notin A
    BY <1>3, <2>1, <2>3
  <2>6. A # B
    BY <2>5
  <2>7. Cardinality(A) <= Cardinality(B) /\ (Cardinality(A) = Cardinality(B) => A = B)
    BY <2>4, FS_Subset
  <2>8. PICK a, b : a = Cardinality(A) /\ b = Cardinality(B)
    OBVIOUS
  <2>9. a \in Nat /\ b \in Nat /\ a <= b /\ a # b
    BY <2>4, <2>6, <2>7, <2>8, FS_CardinalityType
  <2>10. a < b
    BY <2>9
  <2> QED
    BY <2>3, <2>8, <2>10
<1>4. \A x, y \in I : x # y => rank[x] # rank[y]
  <2> SUFFICES ASSUME NEW x \in I, NEW y \in I, x # y PROVE rank[x] # rank[y]
    OBVIOUS
  <2>1. x < y \/ y < x
    BY <1>1
  <2>2. rank[x] < rank[y] \/ rank[y] < rank[x]
    BY <1>3, <2>1
  <2> HIDE DEF rank
  <2>3. rank[x] \in Nat /\ rank[y] \in Nat
    BY <1>2
  <2> QED
    BY <2>2, <2>3
<1>5. \A x \in I : rank[x] \in 1 .. n
  <2> SUFFICES ASSUME NEW x \in I PROVE rank[x] \in 1 .. n
    OBVIOUS
  <2>1. Below(x) # {}
    BY <1>1
  <2>2. Cardinality(Below(x)) # 0
    BY <1>2, <2>1, FS_EmptySet
  <2>3. rank[x] # 0 /\ rank[x] \in Nat /\ rank[x] <= n
    BY <1>2, <2>2
  <2> HIDE DEF rank, n
  <2> QED
    BY <1>1, <2>3
<1>6. rank \in Injection(I, 1 .. n)
  <2>1. rank \in [I -> 1 .. n]
    BY <1>5
  <2> QED
    BY <1>4, <2>1 DEF Injection, IsInjective
<1>7. IsFiniteSet(1 .. n) /\ Cardinality(1 .. n) = n
  BY <1>1, FS_Interval
<1>8. rank \in Surjection(I, 1 .. n)
  BY <1>6, <1>7, FS_Injection
<1>9. \A i \in 1 .. n : \E x \in I : rank[x] = i
  BY <1>8 DEF Surjection
<1>10. PICK e : e = [i \in 1 .. n |-> CHOOSE x \in I : Cardinality(Below(x)) = i]
  OBVIOUS
<1>11. PICK k : k = Loop!Kept(s, I)
  OBVIOUS
<1>12. k = [i \in 1 .. n |-> s[e[i]]]
  <2>1. k = [i \in 1 .. Loop!Cardinality(I) |-> s[CHOOSE x \in I : Loop!Cardinality({ j \in I : j <= x }) = i]]
    BY <1>11 DEF Loop!Kept
  <2>2. k = [i \in 1 .. n |-> s[CHOOSE x \in I : Cardinality(Below(x)) = i]]
    BY <2>1 DEF Loop!Cardinality, Cardinality
  <2>3. \A i \in 1 .. n : e[i] = CHOOSE x \in I : Cardinality(Below(x)) = i
    BY <1>10
  <2> HIDE DEF n, Below
  <2>4. \A i \in 1 .. n : k[i] = s[e[i]]
    BY <2>2, <2>3
  <2> QED
    BY <2>2, <2>4
<1> HIDE DEF n, Below
<1>13. \A i \in 1 .. n : e[i] \in I /\ rank[e[i]] = i
  <2> SUFFICES ASSUME NEW i \in 1 .. n PROVE e[i] \in I /\ rank[e[i]] = i
    OBVIOUS
  <2>1. \E x \in I : Cardinality(Below(x)) = i
    BY <1>9
  <2>2. e[i] = CHOOSE x \in I : Cardinality(Below(x)) = i
    BY <1>10
  <2>3. e[i] \in I /\ Cardinality(Below(e[i])) = i
    BY <2>1, <2>2
  <2> QED
    BY <2>3
<1> HIDE DEF rank
<1>14. \A x \in I : rank[x] \in 1 .. n /\ e[rank[x]] = x
  BY <1>4, <1>5, <1>13
<1>15. k \in Seq(D) /\ Len(k) = n /\ \A i \in 1 .. n : k[i] = s[e[i]]
  <2>1. ASSUME NEW i \in 1 .. n PROVE s[e[i]] \in D
    <3>1. e[i] \in 1 .. Len(s)
      BY <1>13
    <3> QED
      BY <3>1, ElementOfSeq
  <2> QED
    BY <1>1, <1>12, <2>1
<1>16. Members(k) = { s[i] : i \in I }
  <2>1. ASSUME NEW d \in Members(k) PROVE d \in { s[i] : i \in I }
    BY <1>13, <1>15 DEF Members
  <2>2. ASSUME NEW x \in I PROVE s[x] \in Members(k)
    <3>1. rank[x] \in 1 .. n /\ k[rank[x]] = s[x]
      BY <1>14, <1>15
    <3> QED
      BY <1>15, <3>1 DEF Members
  <2> QED
    BY <2>1, <2>2
<1>17. ASSUME NEW id PROVE Count(k, id) = Cardinality({ i \in I : s[i].id = id })
  <2>1. PICK P, T : P = Places(k, id) /\ T = { i \in I : s[i].id = id }
    OBVIOUS
  <2>2. P = { i \in 1 .. n : k[i].id = id } /\ IsFiniteSet(P)
    BY <1>15, <2>1, PlacesFinite DEF Places
  <2> DEFINE f == [i \in P |-> e[i]]
  <2>3. f \in [P -> T]
    BY <1>13, <1>15, <2>1, <2>2
  <2>4. \A x, y \in P : f[x] = f[y] => x = y
    BY <1>13, <2>2
  <2>5. \A y \in T : \E x \in P : f[x] = y
    <3> SUFFICES ASSUME NEW y \in T PROVE \E x \in P : f[x] = y
      OBVIOUS
    <3>1. y \in I /\ s[y].id = id
      BY <2>1
    <3>2. rank[y] \in 1 .. n /\ e[rank[y]] = y
      BY <1>14, <3>1
    <3>3. rank[y] \in P
      BY <1>15, <2>2, <3>1, <3>2
    <3> QED
      BY <3>2, <3>3
  <2> HIDE DEF f
  <2> QED
    <3>1. Cardinality(T) = Cardinality(P)
      BY <2>2, <2>3, <2>4, <2>5, SameSize
    <3> QED
      BY <2>1, <3>1 DEF Count
<1> QED
  BY <1>11, <1>15, <1>16, <1>17 DEF Keeps

-----------------------------------------------------------------------------
Datagrams == [id : Nat, dst : Ports, bind : Nat]
Queues(qs) == DOMAIN qs \subseteq Ports /\ \A q \in DOMAIN qs : qs[q] \in Seq(Datagrams)
Addressed(ds, p) == \A d \in Members(ds) : d.id = p.id => d.dst = p.dst
Queued(qs, p) == IF p.dst \in DOMAIN qs THEN Count(qs[p.dst], p.id) ELSE 0

\* Datagrams of ds have moved into queues, ds2 is left: none is lost whose port
\* is bound, none is there more often, and queues get what is sent to them.
Moved(qs, ds, qs2, ds2) ==
    /\ Queues(qs2) /\ DOMAIN qs2 = DOMAIN qs
    /\ ds2 \in Seq(Datagrams) /\ Members(ds2) \subseteq Members(ds)
    /\ \A q \in DOMAIN qs : \A d \in Members(qs2[q]) : d \in Members(qs[q]) \/ (d \in Members(ds) /\ d.dst = q)
    /\ \A p : Addressed(ds, p) =>
          /\ Queued(qs2, p) + Count(ds2, p.id) <= Queued(qs, p) + Count(ds, p.id)
          /\ p.dst \in DOMAIN qs => Queued(qs2, p) + Count(ds2, p.id) = Queued(qs, p) + Count(ds, p.id)

LEMMA CountsAreNumbers ==
    ASSUME NEW qs, Queues(qs), NEW ds \in Seq(Datagrams), NEW p
    PROVE  Queued(qs, p) \in Nat /\ Count(ds, p.id) \in Nat
<1>1. Count(ds, p.id) \in Nat
  BY PlacesFinite
<1>2. ASSUME p.dst \in DOMAIN qs PROVE Count(qs[p.dst], p.id) \in Nat
  <2>1. qs[p.dst] \in Seq(Datagrams)
    BY <1>2 DEF Queues
  <2> QED
    BY <2>1, PlacesFinite
<1> QED
  BY <1>1, <1>2 DEF Queued

(* Deliver: every datagram goes to the queue of its port.                  *)
LEMMA DeliveredMoves ==
    ASSUME NEW qs, Queues(qs), NEW ds \in Seq(Datagrams)
    PROVE  Moved(qs, ds, Loop!Delivered(qs, ds), << >>)
<1>1. PICK qs2 : qs2 = Loop!Delivered(qs, ds)
  OBVIOUS
<1>2. PICK kept : kept = [q \in Ports |-> Loop!Kept(ds, { i \in 1 .. Len(ds) : ds[i].dst = q })]
  OBVIOUS
<1>3. ASSUME NEW q \in Ports
      PROVE  /\ kept[q] \in Seq(Datagrams) /\ \A d \in Members(kept[q]) : d \in Members(ds) /\ d.dst = q
             /\ \A id : Count(kept[q], id) = Cardinality({ i \in 1 .. Len(ds) : ds[i].dst = q /\ ds[i].id = id })
  <2>1. PICK I : I = { i \in 1 .. Len(ds) : ds[i].dst = q }
    OBVIOUS
  <2>2. I \subseteq 1 .. Len(ds) /\ kept[q] = Loop!Kept(ds, I)
    BY <1>2, <2>1
  <2>3. /\ kept[q] \in Seq(Datagrams) /\ Members(kept[q]) = { ds[i] : i \in I }
        /\ \A id : Count(kept[q], id) = Cardinality({ i \in I : ds[i].id = id })
    <3>1. kept[q] \in Seq(Datagrams) /\ Keeps(kept[q], ds, I)
      BY <2>2, KeptIs
    <3> QED
      BY <3>1 DEF Keeps
  <2>4. \A id : { i \in I : ds[i].id = id } = { i \in 1 .. Len(ds) : ds[i].dst = q /\ ds[i].id = id }
    BY <2>1
  <2>5. \A d \in Members(kept[q]) : d \in Members(ds) /\ d.dst = q
    BY <2>1, <2>3 DEF Members
  <2> QED
    BY <2>3, <2>4, <2>5
<1>4. DOMAIN qs2 = DOMAIN qs /\ \A q \in DOMAIN qs : q \in Ports /\ qs2[q] = qs[q] \o kept[q]
  BY <1>1, <1>2 DEF Loop!Delivered, Queues
<1>5. ASSUME NEW q \in DOMAIN qs
      PROVE  /\ qs2[q] \in Seq(Datagrams) /\ Members(qs2[q]) = Members(qs[q]) \cup Members(kept[q])
             /\ \A id : Count(qs2[q], id) = Count(qs[q], id) + Count(kept[q], id)
  <2>1. PICK s, t : s = qs[q] /\ t = kept[q]
    OBVIOUS
  <2>2. s \in Seq(Datagrams) /\ t \in Seq(Datagrams) /\ qs2[q] = s \o t
    BY <1>3, <1>4, <2>1 DEF Queues
  <2> QED
    BY <2>1, <2>2, CountJoined
<1>6. Queues(qs2) /\ << >> \in Seq(Datagrams) /\ Members(<< >>) = {}
  BY <1>4, <1>5 DEF Queues, Members
<1>7. \A q \in DOMAIN qs : \A d \in Members(qs2[q]) : d \in Members(qs[q]) \/ (d \in Members(ds) /\ d.dst = q)
  BY <1>3, <1>4, <1>5
<1>8. ASSUME NEW p, Addressed(ds, p)
      PROVE  /\ Queued(qs2, p) + Count(<< >>, p.id) <= Queued(qs, p) + Count(ds, p.id)
             /\ p.dst \in DOMAIN qs => Queued(qs2, p) + Count(<< >>, p.id) = Queued(qs, p) + Count(ds, p.id)
  <2>1. Count(<< >>, p.id) = 0 /\ Queued(qs, p) \in Nat /\ Count(ds, p.id) \in Nat
    BY CountEmpty, CountsAreNumbers
  <2>2. CASE p.dst \notin DOMAIN qs
    <3>1. Queued(qs, p) = 0 /\ Queued(qs2, p) = 0
      BY <1>4, <2>2 DEF Queued
    <3> QED
      BY <2>1, <2>2, <3>1
  <2>3. CASE p.dst \in DOMAIN qs
    <3>1. PICK q : q = p.dst
      OBVIOUS
    <3>2. { i \in 1 .. Len(ds) : ds[i].dst = q /\ ds[i].id = p.id } = Places(ds, p.id)
      <4>1. \A i \in 1 .. Len(ds) : ds[i].id = p.id => ds[i].dst = q
        BY <1>8, <3>1 DEF Addressed, Members
      <4> QED
        BY <4>1 DEF Places
    <3>3. Count(kept[q], p.id) = Count(ds, p.id)
      <4>1. q \in Ports
        BY <1>4, <2>3, <3>1
      <4>2. PICK id : id = p.id
        OBVIOUS
      <4>3. Count(kept[q], id) = Cardinality({ i \in 1 .. Len(ds) : ds[i].dst = q /\ ds[i].id = id })
        BY <1>3, <4>1
      <4>4. { i \in 1 .. Len(ds) : ds[i].dst = q /\ ds[i].id = id } = Places(ds, id)
        BY <3>2, <4>2
      <4>5. Count(kept[q], id) = Cardinality(Places(ds, id))
        BY <4>3, <4>4
      <4> QED
        BY <4>2, <4>5 DEF Count
    <3>4. Queued(qs2, p) = Queued(qs, p) + Count(ds, p.id)
      BY <1>4, <1>5, <2>3, <3>1, <3>3 DEF Queued
    <3> QED
      BY <2>1, <3>4
  <2> QED
    BY <2>2, <2>3
<1> QED
  BY <1>1, <1>4, <1>6, <1>7, <1>8 DEF Moved

\* m of n places, each once; what is there and what is elsewhere.
Picks(o, m, n) == o \in [1 .. m -> 1 .. n] /\ \A i, j \in 1 .. m : i # j => o[i] # o[j]
Picked(held, o, m) == [k \in 1 .. m |-> held[o[k]]]
Left(held, o, m) == Loop!Kept(held, { i \in 1 .. Len(held) : \A k \in 1 .. m : o[k] # i })

(* What is released and what stays are together what was held.             *)
LEMMA PickedAndLeft ==
    ASSUME NEW held \in Seq(Datagrams), NEW m \in Nat, NEW o, Picks(o, m, Len(held)),
           NEW picked, picked = Picked(held, o, m), NEW left, left = Left(held, o, m)
    PROVE  /\ picked \in Seq(Datagrams) /\ Members(picked) \subseteq Members(held)
           /\ left \in Seq(Datagrams) /\ Members(left) \subseteq Members(held)
           /\ \A id : Count(held, id) = Count(picked, id) + Count(left, id)
<1>1. PICK J : J = { i \in 1 .. Len(held) : \A k \in 1 .. m : o[k] # i }
  OBVIOUS
<1>2. J \subseteq 1 .. Len(held) /\ left = Loop!Kept(held, J)
  BY <1>1 DEF Left
<1>8. o \in [1 .. m -> 1 .. Len(held)] /\ \A i, j \in 1 .. m : i # j => o[i] # o[j]
  BY DEF Picks
<1>3. /\ left \in Seq(Datagrams) /\ Members(left) = { held[i] : i \in J }
      /\ \A id : Count(left, id) = Cardinality({ i \in J : held[i].id = id })
  <2>1. left \in Seq(Datagrams) /\ Keeps(left, held, J)
    BY <1>2, KeptIs
  <2> QED
    BY <2>1 DEF Keeps
<1>4. \A k \in 1 .. m : held[o[k]] \in Datagrams /\ held[o[k]] \in Members(held)
  <2> SUFFICES ASSUME NEW k \in 1 .. m PROVE held[o[k]] \in Datagrams /\ held[o[k]] \in Members(held)
    OBVIOUS
  <2>1. o[k] \in 1 .. Len(held)
    BY <1>8
  <2> QED
    BY <2>1, ElementOfSeq DEF Members
<1>5. picked \in Seq(Datagrams) /\ Len(picked) = m /\ \A k \in 1 .. m : picked[k] = held[o[k]]
  BY <1>4 DEF Picked
<1>6. Members(picked) \subseteq Members(held) /\ Members(left) \subseteq Members(held)
  <2>1. Members(picked) = { picked[k] : k \in 1 .. m }
    BY <1>5 DEF Members
  <2>2. Members(picked) \subseteq Members(held)
    BY <1>4, <1>5, <2>1
  <2>3. Members(left) \subseteq Members(held)
    BY <1>2, <1>3 DEF Members
  <2> QED
    BY <2>2, <2>3
<1>7. ASSUME NEW id PROVE Count(held, id) = Count(picked, id) + Count(left, id)
  <2>1. PICK P, Q, A, B : /\ P = Places(held, id) /\ Q = Places(picked, id)
                          /\ A = P \ J /\ B = { i \in J : held[i].id = id }
    OBVIOUS
  <2>2. IsFiniteSet(P) /\ IsFiniteSet(Q) /\ Count(picked, id) = Cardinality(Q) /\ Count(held, id) = Cardinality(P)
    BY <1>5, <2>1, PlacesFinite DEF Count
  <2>3. Q = { k \in 1 .. m : held[o[k]].id = id }
    BY <1>5, <2>1 DEF Places
  <2>4. P = A \cup B /\ A \cap B = {}
    BY <1>2, <2>1 DEF Places
  <2>5. \A i \in A : i \in 1 .. Len(held) /\ held[i].id = id /\ \E k \in 1 .. m : o[k] = i
    BY <1>1, <2>1 DEF Places
  <2>6. Cardinality(A) = Cardinality(Q)
    <3> DEFINE f == [k \in Q |-> o[k]]
    <3>1. \A k \in Q : o[k] \in A
      BY <1>1, <1>8, <2>1, <2>3 DEF Places
    <3>2. f \in [Q -> A]
      BY <3>1
    <3>3. \A x, y \in Q : f[x] = f[y] => x = y
      BY <1>8, <2>3
    <3>4. \A i \in A : \E k \in Q : f[k] = i
      BY <2>3, <2>5
    <3> HIDE DEF f
    <3> QED
      BY <2>2, <3>2, <3>3, <3>4, SameSize
  <2>7. IsFiniteSet(A) /\ IsFiniteSet(B)
    BY <2>2, <2>4, FS_Subset
  <2>8. Cardinality(A \cup B) = Cardinality(A) + Cardinality(B) - Cardinality(A \cap B)
    BY <2>7, FS_Union
  <2>9. Cardinality(A \cap B) = 0
    BY <2>4, FS_EmptySet
  <2>10. Count(left, id) = Cardinality(B)
    BY <1>3, <2>1
  <2>11. PICK a, b, c, d : /\ a = Cardinality(A) /\ b = Cardinality(B)
                           /\ c = Cardinality(A \cup B) /\ d = Cardinality(A \cap B)
    OBVIOUS
  <2>12. a \in Nat /\ b \in Nat /\ c = a + b - d /\ d = 0
    BY <2>7, <2>8, <2>9, <2>11, FS_CardinalityType
  <2>13. c = a + b
    BY <2>12
  <2> QED
    BY <2>2, <2>4, <2>6, <2>10, <2>11, <2>13
<1> QED
  BY <1>3, <1>5, <1>6, <1>7

(* What a release does not queue stays held: no datagram is lost or        *)
(* doubled by the order it leaves in.                                      *)
LEMMA ReleasedMoves ==
    ASSUME NEW qs, Queues(qs), NEW held \in Seq(Datagrams), NEW keep \in Nat, NEW r \in Loop!Released(qs, held, keep)
    PROVE  Moved(qs, held, r[1], r[2])
<1>1. CASE Len(held) <= keep
  <2>1. r[1] = qs /\ r[2] = held
    BY <1>1 DEF Loop!Released
  <2>2. \A p : Queued(qs, p) \in Nat /\ Count(held, p.id) \in Nat
    BY CountsAreNumbers
  <2>3. \A p : Queued(qs, p) + Count(held, p.id) <= Queued(qs, p) + Count(held, p.id)
    BY <2>2
  <2> QED
    BY <2>1, <2>3 DEF Moved
<1>2. CASE ~(Len(held) <= keep)
  <2>1. PICK m : m = Len(held) - keep
    OBVIOUS
  <2>2. m \in Nat
    BY <1>2, <2>1
  <2>3. PICK o : Picks(o, m, Len(held)) /\ r = << Loop!Delivered(qs, Picked(held, o, m)), Left(held, o, m) >>
    BY <1>2, <2>1 DEF Loop!Released, Picks, Picked, Left
  <2>4. PICK picked, left : picked = Picked(held, o, m) /\ left = Left(held, o, m)
    OBVIOUS
  <2>5. /\ picked \in Seq(Datagrams) /\ Members(picked) \subseteq Members(held)
        /\ left \in Seq(Datagrams) /\ Members(left) \subseteq Members(held)
        /\ \A id : Count(held, id) = Count(picked, id) + Count(left, id)
    BY <2>2, <2>3, <2>4, PickedAndLeft
  <2>6. PICK qs2 : qs2 = Loop!Delivered(qs, picked)
    OBVIOUS
  <2>7. r[1] = qs2 /\ r[2] = left
    BY <2>3, <2>4, <2>6
  <2>8. Moved(qs, picked, qs2, << >>)
    BY <2>5, <2>6, DeliveredMoves
  <2>9. Queues(qs2) /\ DOMAIN qs2 = DOMAIN qs
    BY <2>8 DEF Moved
  <2>10. \A q \in DOMAIN qs : \A d \in Members(qs2[q]) : d \in Members(qs[q]) \/ (d \in Members(held) /\ d.dst = q)
    BY <2>5, <2>8 DEF Moved
  <2>11. ASSUME NEW p, Addressed(held, p)
         PROVE  /\ Queued(qs2, p) + Count(left, p.id) <= Queued(qs, p) + Count(held, p.id)
                /\ p.dst \in DOMAIN qs => Queued(qs2, p) + Count(left, p.id) = Queued(qs, p) + Count(held, p.id)
    <3>1. Addressed(picked, p)
      BY <2>5, <2>11 DEF Addressed
    <3>2. /\ Queued(qs2, p) + Count(<< >>, p.id) <= Queued(qs, p) + Count(picked, p.id)
          /\ p.dst \in DOMAIN qs => Queued(qs2, p) + Count(<< >>, p.id) = Queued(qs, p) + Count(picked, p.id)
      BY <2>8, <3>1 DEF Moved
    <3>3. PICK a, b, c, d : a = Queued(qs2, p) /\ b = Queued(qs, p) /\ c = Count(picked, p.id) /\ d = Count(left, p.id)
      OBVIOUS
    <3>4. a \in Nat /\ b \in Nat /\ c \in Nat /\ d \in Nat /\ Count(<< >>, p.id) = 0 /\ Count(held, p.id) = c + d
      BY <2>5, <2>9, <3>3, CountsAreNumbers, CountEmpty
    <3>5. a + 0 <= b + c => a + d <= b + (c + d)
      BY <3>4
    <3>6. a + 0 = b + c => a + d = b + (c + d)
      BY <3>4
    <3> QED
      BY <3>2, <3>3, <3>4, <3>5, <3>6
  <2> QED
    BY <2>5, <2>7, <2>9, <2>10, <2>11 DEF Moved
<1> QED
  BY <1>1, <1>2

-----------------------------------------------------------------------------
Posts == [id : Nat, dst : Ports, bind : Nat, heard : BOOLEAN]

\* A datagram comes from a posted one; if somebody was bound to its port then,
\* the same binding is there still.
Traceable(d, ps, qs, bs) ==
    \E p \in ps : p.id = d.id /\ p.dst = d.dst /\ (p.heard => d.dst \in DOMAIN qs /\ bs[d.dst] = p.bind)

WireTypes(qs, held, ps, gt, bs) ==
    /\ Queues(qs) /\ held \in Seq(Datagrams) /\ gt \in Seq([id : Nat, now : Nat]) /\ bs \in [Ports -> Nat]
    /\ IsFiniteSet(ps) /\ ps \subseteq Posts /\ \A p \in ps : p.id <= Cardinality(ps)
    /\ \A p, r \in ps : p.id = r.id => p = r
    /\ \A p \in ps : p.bind <= bs[p.dst]

WireTraced(qs, held, ps, gt, bs) ==
    /\ \A d \in Members(held) : Traceable(d, ps, qs, bs)
    /\ \A q \in DOMAIN qs : \A d \in Members(qs[q]) : d.dst = q /\ Traceable(d, ps, qs, bs)
    /\ \A g \in Members(gt) : \E p \in ps : p.id = g.id /\ (p.heard => g.now = p.bind)

InTransit(p, qs, held, gt) == Count(gt, p.id) + Queued(qs, p) + Count(held, p.id)

WireCounted(imp, qs, held, ps, gt, bs) ==
    \A p \in ps :
        /\ InTransit(p, qs, held, gt) <= (IF imp.dups THEN 2 ELSE 1)
        /\ (~imp.lossy /\ p.heard /\ p.dst \in DOMAIN qs /\ bs[p.dst] = p.bind) => InTransit(p, qs, held, gt) >= 1

WireSound(imp, qs, held, ps, gt, bs) ==
    /\ imp.reorderDepth \in Nat
    /\ WireTypes(qs, held, ps, gt, bs) /\ WireTraced(qs, held, ps, gt, bs) /\ WireCounted(imp, qs, held, ps, gt, bs)

WireIInv == WireSound(m_imp, m_queues, m_holdBuffer, posted, got, binds)

(* All that is in transit comes from the post of its number.               *)
LEMMA AddressedAll ==
    ASSUME NEW qs, NEW held, NEW ps, NEW gt, NEW bs, WireTypes(qs, held, ps, gt, bs), WireTraced(qs, held, ps, gt, bs),
           NEW p \in ps
    PROVE  Addressed(held, p) /\ \A q \in DOMAIN qs : Addressed(qs[q], p)
<1>1. \A d : Traceable(d, ps, qs, bs) /\ d.id = p.id => d.dst = p.dst
  BY DEF Traceable, WireTypes
<1> QED
  BY <1>1 DEF WireTraced, Addressed

LEMMA TransitIsNumber ==
    ASSUME NEW qs, NEW held, NEW ps, NEW gt, NEW bs, WireTypes(qs, held, ps, gt, bs), NEW p
    PROVE  Count(gt, p.id) \in Nat /\ Queued(qs, p) \in Nat /\ Count(held, p.id) \in Nat
<1>1. Queues(qs) /\ held \in Seq(Datagrams) /\ gt \in Seq([id : Nat, now : Nat])
  BY DEF WireTypes
<1>2. Count(gt, p.id) \in Nat
  BY <1>1, PlacesFinite
<1> QED
  BY <1>1, <1>2, CountsAreNumbers

(* Moving datagrams along keeps the wire sound.                            *)
LEMMA MovingKeeps ==
    ASSUME NEW imp, NEW qs, NEW held, NEW ps, NEW gt, NEW bs, WireSound(imp, qs, held, ps, gt, bs),
           NEW qs2, NEW held2, Moved(qs, held, qs2, held2)
    PROVE  WireSound(imp, qs2, held2, ps, gt, bs)
<1>1. WireTypes(qs, held, ps, gt, bs) /\ WireTraced(qs, held, ps, gt, bs) /\ WireCounted(imp, qs, held, ps, gt, bs)
  BY DEF WireSound
<1>2. Queues(qs2) /\ DOMAIN qs2 = DOMAIN qs /\ held2 \in Seq(Datagrams) /\ Members(held2) \subseteq Members(held)
  BY DEF Moved
<1>3. WireTypes(qs2, held2, ps, gt, bs)
  BY <1>1, <1>2 DEF WireTypes
<1>4. \A d : Traceable(d, ps, qs, bs) => Traceable(d, ps, qs2, bs)
  BY <1>2 DEF Traceable
<1>5. WireTraced(qs2, held2, ps, gt, bs)
  <2>1. \A d \in Members(held2) : Traceable(d, ps, qs2, bs)
    BY <1>1, <1>2, <1>4 DEF WireTraced
  <2>2. ASSUME NEW q \in DOMAIN qs2, NEW d \in Members(qs2[q]) PROVE d.dst = q /\ Traceable(d, ps, qs2, bs)
    <3>1. q \in DOMAIN qs /\ (d \in Members(qs[q]) \/ (d \in Members(held) /\ d.dst = q))
      BY <1>2, <2>2 DEF Moved
    <3> QED
      BY <1>1, <1>4, <3>1 DEF WireTraced
  <2> QED
    BY <1>1, <2>1, <2>2 DEF WireTraced
<1>6. ASSUME NEW p \in ps
      PROVE  /\ InTransit(p, qs2, held2, gt) <= (IF imp.dups THEN 2 ELSE 1)
             /\ (~imp.lossy /\ p.heard /\ p.dst \in DOMAIN qs2 /\ bs[p.dst] = p.bind) => InTransit(p, qs2, held2, gt) >= 1
  <2>1. Addressed(held, p)
    BY <1>1, AddressedAll
  <2>2. /\ Queued(qs2, p) + Count(held2, p.id) <= Queued(qs, p) + Count(held, p.id)
        /\ p.dst \in DOMAIN qs => Queued(qs2, p) + Count(held2, p.id) = Queued(qs, p) + Count(held, p.id)
    BY <2>1 DEF Moved
  <2>3. PICK g, a, b, c, d : /\ g = Count(gt, p.id) /\ a = Queued(qs2, p) /\ b = Count(held2, p.id)
                             /\ c = Queued(qs, p) /\ d = Count(held, p.id)
    OBVIOUS
  <2>4. g \in Nat /\ a \in Nat /\ b \in Nat /\ c \in Nat /\ d \in Nat
    BY <1>1, <1>3, <2>3, TransitIsNumber
  <2>5. InTransit(p, qs, held, gt) = g + c + d /\ InTransit(p, qs2, held2, gt) = g + a + b
    BY <2>3 DEF InTransit
  <2>6. g + a + b <= g + c + d /\ (p.dst \in DOMAIN qs => g + a + b = g + c + d)
    BY <2>2, <2>3, <2>4
  <2>7. PICK cap : cap = IF imp.dups THEN 2 ELSE 1
    OBVIOUS
  <2>8. cap \in Nat /\ g + c + d <= cap
        /\ ((~imp.lossy /\ p.heard /\ p.dst \in DOMAIN qs /\ bs[p.dst] = p.bind) => g + c + d >= 1)
    BY <1>1, <2>5, <2>7 DEF WireCounted
  <2>9. g + a + b <= cap
    BY <2>4, <2>6, <2>8
  <2> QED
    BY <1>2, <2>4, <2>5, <2>6, <2>7, <2>8, <2>9
<1>7. WireCounted(imp, qs2, held2, ps, gt, bs)
  BY <1>6 DEF WireCounted
<1> QED
  BY <1>3, <1>5, <1>7 DEF WireSound

(* A new post, of which one or two copies are held, or of which none is    *)
(* and the wire may lose.                                                  *)
LEMMA PostingKeeps ==
    ASSUME NEW imp, NEW qs, NEW held, NEW ps, NEW gt, NEW bs, WireSound(imp, qs, held, ps, gt, bs),
           NEW dst \in Ports, NEW n, n = Cardinality(ps) + 1,
           NEW r, r = [id |-> n, dst |-> dst, bind |-> bs[dst], heard |-> dst \in DOMAIN qs],
           NEW d, d = [id |-> n, dst |-> dst, bind |-> bs[dst]],
           NEW copies, \/ copies = << >> /\ imp.lossy
                       \/ copies = << d >>
                       \/ copies = << d, d >> /\ imp.dups
    PROVE  WireSound(imp, qs, held \o copies, ps \cup {r}, gt, bs)
<1>1. WireTypes(qs, held, ps, gt, bs) /\ WireTraced(qs, held, ps, gt, bs) /\ WireCounted(imp, qs, held, ps, gt, bs)
  BY DEF WireSound
<1>2. /\ Queues(qs) /\ held \in Seq(Datagrams) /\ gt \in Seq([id : Nat, now : Nat]) /\ bs \in [Ports -> Nat]
      /\ IsFiniteSet(ps) /\ ps \subseteq Posts /\ \A p \in ps : p.id <= Cardinality(ps)
      /\ \A p, q \in ps : p.id = q.id => p = q
      /\ \A p \in ps : p.bind <= bs[p.dst]
  BY <1>1 DEF WireTypes
<1>3. n \in Nat /\ Cardinality(ps) \in Nat /\ \A p \in ps : p.id \in Nat /\ p.id # n
  <2>1. Cardinality(ps) \in Nat
    BY <1>2, FS_CardinalityType
  <2>2. \A p \in ps : p.id \in Nat
    BY <1>2 DEF Posts
  <2> QED
    BY <1>2, <2>1, <2>2
<1>4. r \in Posts /\ d \in Datagrams /\ r.id = n /\ d.id = n /\ r.dst = dst /\ d.dst = dst
      /\ r.bind = bs[dst] /\ r.heard = (dst \in DOMAIN qs)
  BY <1>2, <1>3 DEF Posts, Datagrams
<1>5. r \notin ps
  BY <1>3, <1>4
<1>6. PICK ps2 : ps2 = ps \cup {r}
  OBVIOUS
<1>7. IsFiniteSet(ps2) /\ Cardinality(ps2) = n
  BY <1>2, <1>5, <1>6, FS_AddElement
<1>8. copies \in Seq(Datagrams) /\ \A e \in Members(copies) : e = d
  <2>1. << d >> \in Seq(Datagrams) /\ << d, d >> \in Seq(Datagrams) /\ << >> \in Seq(Datagrams)
    BY <1>4
  <2>2. CASE copies = << >>
    BY <2>1, <2>2 DEF Members
  <2>3. CASE copies = << d >>
    <3>1. Len(copies) = 1 /\ copies[1] = d
      BY <2>3
    <3> QED
      BY <2>1, <2>3, <3>1 DEF Members
  <2>4. CASE copies = << d, d >>
    <3>1. Len(copies) = 2 /\ copies[1] = d /\ copies[2] = d
      BY <2>4
    <3>2. \A i \in 1 .. 2 : i = 1 \/ i = 2
      OBVIOUS
    <3> QED
      BY <2>1, <2>4, <3>1, <3>2 DEF Members
  <2> QED
    BY <2>2, <2>3, <2>4
<1>9. Count(copies, n) \in Nat /\ Count(copies, n) <= (IF imp.dups THEN 2 ELSE 1) /\ (~imp.lossy => Count(copies, n) >= 1)
  <2>1. Count(<< d >>, n) = 1
    BY <1>4, CountOne
  <2>2. CASE copies = << >>
    BY <2>2, CountEmpty
  <2>3. CASE copies = << d >>
    BY <2>1, <2>3
  <2>4. CASE copies = << d, d >> /\ imp.dups
    <3>1. PICK s : s = << d >>
      OBVIOUS
    <3>3. s \in Seq(Datagrams) /\ << d, d >> = s \o s
      BY <1>4, <3>1
    <3>4. Count(s \o s, n) = Count(s, n) + Count(s, n)
      BY <3>3, CountJoined
    <3>2. Count(<< d, d >>, n) = 1 + 1
      BY <2>1, <3>1, <3>3, <3>4
    <3> QED
      BY <2>4, <3>2
  <2> QED
    BY <2>2, <2>3, <2>4
<1>10. PICK held2 : held2 = held \o copies
  OBVIOUS
<1>11. /\ held2 \in Seq(Datagrams) /\ Members(held2) = Members(held) \cup Members(copies)
       /\ \A id : Count(held2, id) = Count(held, id) + Count(copies, id)
  <2>1. PICK s, t : s = held /\ t = copies
    OBVIOUS
  <2>2. s \in Seq(Datagrams) /\ t \in Seq(Datagrams)
    BY <1>2, <1>8, <2>1
  <2>3. s \o t \in Seq(Datagrams) /\ Members(s \o t) = Members(s) \cup Members(t)
    BY <2>2, CountJoined
  <2>4. \A id : Count(s \o t, id) = Count(s, id) + Count(t, id)
    BY <2>2, CountJoined
  <2> QED
    BY <1>10, <2>1, <2>3, <2>4
<1>12. WireTypes(qs, held2, ps2, gt, bs)
  <2>1. \A p \in ps2 : p.id <= n
    BY <1>2, <1>3, <1>4, <1>6
  <2>2. \A p, q \in ps2 : p.id = q.id => p = q
    BY <1>2, <1>3, <1>4, <1>6
  <2>3. ps2 \subseteq Posts
    BY <1>2, <1>4, <1>6
  <2>4. \A p \in ps2 : p.bind <= bs[p.dst]
    <3>1. bs[dst] \in Nat
      BY <1>2
    <3> QED
      BY <1>2, <1>4, <1>6, <3>1
  <2> QED
    BY <1>2, <1>7, <1>11, <2>1, <2>2, <2>3, <2>4 DEF WireTypes
<1>13. \A e : Traceable(e, ps, qs, bs) => Traceable(e, ps2, qs, bs)
  BY <1>6 DEF Traceable
<1>14. Traceable(d, ps2, qs, bs)
  BY <1>4, <1>6 DEF Traceable
<1>15. WireTraced(qs, held2, ps2, gt, bs)
  <2>1. \A e \in Members(held2) : Traceable(e, ps2, qs, bs)
    BY <1>1, <1>8, <1>11, <1>13, <1>14 DEF WireTraced
  <2>2. \A q \in DOMAIN qs : \A e \in Members(qs[q]) : e.dst = q /\ Traceable(e, ps2, qs, bs)
    BY <1>1, <1>13 DEF WireTraced
  <2>3. \A g \in Members(gt) : \E p \in ps2 : p.id = g.id /\ (p.heard => g.now = p.bind)
    BY <1>1, <1>6 DEF WireTraced
  <2> QED
    BY <2>1, <2>2, <2>3 DEF WireTraced
<1>16. Count(gt, n) = 0 /\ Count(held, n) = 0 /\ Queued(qs, r) = 0
  <2>1. \A e : Traceable(e, ps, qs, bs) => e.id # n
    BY <1>3 DEF Traceable
  <2>2. \A e \in Members(held) : e.id # n
    BY <1>1, <2>1 DEF WireTraced
  <2>3. \A g \in Members(gt) : g.id # n
    BY <1>1, <1>3 DEF WireTraced
  <2>4. Count(gt, n) = 0 /\ Count(held, n) = 0
    BY <1>2, <2>2, <2>3, CountNone
  <2>5. ASSUME dst \in DOMAIN qs PROVE Count(qs[dst], n) = 0
    <3>1. \A e \in Members(qs[dst]) : e.id # n
      BY <1>1, <2>1, <2>5 DEF WireTraced
    <3>2. qs[dst] \in Seq(Datagrams)
      BY <1>2, <2>5 DEF Queues
    <3> QED
      BY <3>1, <3>2, CountNone
  <2> QED
    BY <1>4, <2>4, <2>5 DEF Queued
<1>17. ASSUME NEW p \in ps2
       PROVE  /\ InTransit(p, qs, held2, gt) <= (IF imp.dups THEN 2 ELSE 1)
              /\ (~imp.lossy /\ p.heard /\ p.dst \in DOMAIN qs /\ bs[p.dst] = p.bind) => InTransit(p, qs, held2, gt) >= 1
  <2>1. CASE p = r
    <3>1. Count(held2, n) = 0 + Count(copies, n)
      BY <1>11, <1>16
    <3>2. InTransit(p, qs, held2, gt) = 0 + 0 + Count(held2, n)
      BY <1>4, <1>16, <2>1 DEF InTransit
    <3>3. InTransit(p, qs, held2, gt) = Count(copies, n)
      BY <1>9, <3>1, <3>2
    <3> QED
      BY <1>9, <3>3
  <2>2. CASE p # r
    <3>1. p \in ps /\ p.id # n
      BY <1>3, <1>6, <2>2
    <3>2. Count(copies, p.id) = 0
      BY <1>4, <1>8, <3>1, CountNone
    <3>3. Count(held2, p.id) = Count(held, p.id)
      <4>1. Count(held, p.id) \in Nat
        BY <1>2, CountsAreNumbers
      <4> QED
        BY <1>11, <3>2, <4>1
    <3>4. InTransit(p, qs, held2, gt) = InTransit(p, qs, held, gt)
      BY <3>3 DEF InTransit
    <3> QED
      BY <1>1, <3>1, <3>4 DEF WireCounted
  <2> QED
    BY <2>1, <2>2
<1>18. WireCounted(imp, qs, held2, ps2, gt, bs)
  BY <1>17 DEF WireCounted
<1> QED
  BY <1>6, <1>10, <1>12, <1>15, <1>18 DEF WireSound

\* What Open and Close leave: the queue of the port is empty or gone, and with
\* it what was held for it.
Rebound(port0, qs, held, bs, qs2, held2, bs2) ==
    /\ Queues(qs2) /\ held2 \in Seq(Datagrams) /\ bs2 \in [Ports -> Nat] /\ port0 \in Ports
    /\ \A q \in Ports : q # port0 => (q \in DOMAIN qs <=> q \in DOMAIN qs2) /\ bs2[q] = bs[q]
    /\ \A q \in DOMAIN qs2 : qs2[q] = IF q = port0 THEN << >> ELSE qs[q]
    /\ bs2[port0] = IF port0 \in DOMAIN qs2 THEN bs[port0] + 1 ELSE bs[port0]
    /\ Members(held2) \subseteq Members(held)
    /\ \A d \in Members(held2) : d.dst # port0 \/ port0 \notin DOMAIN qs
    /\ \A p : Addressed(held, p) =>
          Count(held2, p.id) <= Count(held, p.id) /\ (p.dst # port0 => Count(held2, p.id) = Count(held, p.id))

(* Binding or closing a port drops what waited for it.                     *)
LEMMA RebindingKeeps ==
    ASSUME NEW imp, NEW qs, NEW held, NEW ps, NEW gt, NEW bs, WireSound(imp, qs, held, ps, gt, bs),
           NEW qs2, NEW held2, NEW bs2, NEW port0, Rebound(port0, qs, held, bs, qs2, held2, bs2)
    PROVE  WireSound(imp, qs2, held2, ps, gt, bs2)
<1>1. WireTypes(qs, held, ps, gt, bs) /\ WireTraced(qs, held, ps, gt, bs) /\ WireCounted(imp, qs, held, ps, gt, bs)
  BY DEF WireSound
<1>2. /\ Queues(qs2) /\ held2 \in Seq(Datagrams) /\ bs2 \in [Ports -> Nat] /\ port0 \in Ports
      /\ \A q \in Ports : q # port0 => (q \in DOMAIN qs <=> q \in DOMAIN qs2) /\ bs2[q] = bs[q]
      /\ \A q \in DOMAIN qs2 : qs2[q] = IF q = port0 THEN << >> ELSE qs[q]
      /\ bs2[port0] = IF port0 \in DOMAIN qs2 THEN bs[port0] + 1 ELSE bs[port0]
      /\ Members(held2) \subseteq Members(held)
      /\ \A d \in Members(held2) : d.dst # port0 \/ port0 \notin DOMAIN qs
  BY DEF Rebound
<1>3. /\ DOMAIN qs \subseteq Ports /\ DOMAIN qs2 \subseteq Ports /\ bs \in [Ports -> Nat]
      /\ held \in Seq(Datagrams) /\ ps \subseteq Posts /\ \A p \in ps : p.bind <= bs[p.dst]
  BY <1>1, <1>2 DEF WireTypes, Queues
<1>4. \A q \in Ports : bs[q] \in Nat /\ bs2[q] \in Nat /\ bs[q] <= bs2[q]
  <2> SUFFICES ASSUME NEW q \in Ports PROVE bs[q] \in Nat /\ bs2[q] \in Nat /\ bs[q] <= bs2[q]
    OBVIOUS
  <2>1. bs[q] \in Nat /\ bs2[q] \in Nat
    BY <1>2, <1>3
  <2>2. bs2[q] = bs[q] \/ bs2[q] = bs[q] + 1
    BY <1>2
  <2> QED
    BY <2>1, <2>2
<1>5. \A p \in ps : p.dst \in Ports /\ p.bind \in Nat
  BY <1>3 DEF Posts
<1>6. WireTypes(qs2, held2, ps, gt, bs2)
  <2>1. ASSUME NEW p \in ps PROVE p.bind <= bs2[p.dst]
    <3>1. PICK q : q = p.dst
      OBVIOUS
    <3>2. p.bind \in Nat /\ p.bind <= bs[q] /\ bs[q] \in Nat /\ bs2[q] \in Nat /\ bs[q] <= bs2[q]
      BY <1>3, <1>4, <1>5, <3>1
    <3> QED
      BY <3>1, <3>2
  <2> QED
    BY <1>1, <1>2, <2>1 DEF WireTypes
<1>7. ASSUME NEW d, Traceable(d, ps, qs, bs), d.dst # port0 \/ port0 \notin DOMAIN qs
      PROVE  Traceable(d, ps, qs2, bs2)
  <2>1. PICK p \in ps : p.id = d.id /\ p.dst = d.dst /\ (p.heard => d.dst \in DOMAIN qs /\ bs[d.dst] = p.bind)
    BY <1>7 DEF Traceable
  <2>2. p.heard => d.dst # port0 /\ d.dst \in DOMAIN qs
    BY <1>7, <2>1
  <2>3. p.heard => d.dst \in DOMAIN qs2 /\ bs2[d.dst] = p.bind
    BY <1>2, <1>3, <2>1, <2>2
  <2> QED
    BY <2>1, <2>3 DEF Traceable
<1>8. WireTraced(qs2, held2, ps, gt, bs2)
  <2>1. \A d \in Members(held2) : Traceable(d, ps, qs2, bs2)
    BY <1>1, <1>2, <1>7 DEF WireTraced
  <2>2. ASSUME NEW q \in DOMAIN qs2, NEW d \in Members(qs2[q]) PROVE d.dst = q /\ Traceable(d, ps, qs2, bs2)
    <3>1. CASE q = port0
      <4>1. Members(qs2[q]) = {}
        BY <1>2, <3>1 DEF Members
      <4> QED
        BY <2>2, <4>1
    <3>2. CASE q # port0
      <4>1. q \in DOMAIN qs /\ qs2[q] = qs[q]
        BY <1>2, <1>3, <3>2
      <4>2. d.dst = q /\ Traceable(d, ps, qs, bs)
        BY <1>1, <2>2, <4>1 DEF WireTraced
      <4> QED
        BY <1>7, <3>2, <4>2
    <3> QED
      BY <3>1, <3>2
  <2> QED
    BY <1>1, <2>1, <2>2 DEF WireTraced
<1>9. ASSUME NEW p \in ps
      PROVE  /\ InTransit(p, qs2, held2, gt) <= (IF imp.dups THEN 2 ELSE 1)
             /\ (~imp.lossy /\ p.heard /\ p.dst \in DOMAIN qs2 /\ bs2[p.dst] = p.bind) => InTransit(p, qs2, held2, gt) >= 1
  <2>1. Addressed(held, p)
    BY <1>1, AddressedAll
  <2>2. Count(held2, p.id) <= Count(held, p.id) /\ (p.dst # port0 => Count(held2, p.id) = Count(held, p.id))
    BY <2>1 DEF Rebound
  <2>3. PICK g, a, b, c, d : /\ g = Count(gt, p.id) /\ a = Queued(qs2, p) /\ b = Count(held2, p.id)
                             /\ c = Queued(qs, p) /\ d = Count(held, p.id)
    OBVIOUS
  <2>4. g \in Nat /\ a \in Nat /\ b \in Nat /\ c \in Nat /\ d \in Nat
    BY <1>1, <1>6, <2>3, TransitIsNumber
  <2>5. InTransit(p, qs, held, gt) = g + c + d /\ InTransit(p, qs2, held2, gt) = g + a + b
    BY <2>3 DEF InTransit
  <2>6. PICK cap : cap = IF imp.dups THEN 2 ELSE 1
    OBVIOUS
  <2>7. cap \in Nat /\ g + c + d <= cap
        /\ ((~imp.lossy /\ p.heard /\ p.dst \in DOMAIN qs /\ bs[p.dst] = p.bind) => g + c + d >= 1)
    BY <1>1, <2>5, <2>6 DEF WireCounted
  <2>8. CASE p.dst = port0
    <3>1. a = 0
      BY <1>2, <2>3, <2>8, CountEmpty DEF Queued
    <3>2. g + a + b <= cap
      BY <2>2, <2>3, <2>4, <2>7, <3>1
    <3>3. port0 \in DOMAIN qs2 => bs2[port0] # p.bind
      BY <1>2, <1>3, <1>4, <1>5, <2>8
    <3> QED
      BY <2>5, <2>6, <2>8, <3>2, <3>3
  <2>9. CASE p.dst # port0
    <3>1. p.dst \in Ports /\ (p.dst \in DOMAIN qs <=> p.dst \in DOMAIN qs2) /\ bs2[p.dst] = bs[p.dst]
      BY <1>2, <1>5, <2>9
    <3>2. p.dst \in DOMAIN qs2 => qs2[p.dst] = qs[p.dst]
      BY <1>2, <2>9
    <3>3. a = c /\ b = d
      BY <2>2, <2>3, <2>9, <3>1, <3>2 DEF Queued
    <3> QED
      BY <2>5, <2>6, <2>7, <3>1, <3>3
  <2> QED
    BY <2>8, <2>9
<1>10. WireCounted(imp, qs2, held2, ps, gt, bs2)
  BY <1>9 DEF WireCounted
<1> QED
  BY <1>6, <1>8, <1>10 DEF WireSound

(* Unregister takes what is held for the port, and nothing else.           *)
LEMMA HeldForOthersIs ==
    ASSUME m_holdBuffer \in Seq(Datagrams), NEW port0, NEW k, k = Loop!HeldForOthers(port0)
    PROVE  /\ k \in Seq(Datagrams) /\ Members(k) \subseteq Members(m_holdBuffer)
           /\ \A d \in Members(k) : d.dst # port0
           /\ \A p : Addressed(m_holdBuffer, p) =>
                 /\ Count(k, p.id) <= Count(m_holdBuffer, p.id)
                 /\ p.dst # port0 => Count(k, p.id) = Count(m_holdBuffer, p.id)
<1>1. PICK s : s = m_holdBuffer
  OBVIOUS
<1>2. PICK I : I = { i \in 1 .. Len(s) : s[i].dst # port0 }
  OBVIOUS
<1>3. s \in Seq(Datagrams) /\ I \subseteq 1 .. Len(s) /\ k = Loop!Kept(s, I)
  BY <1>1, <1>2 DEF Loop!HeldForOthers
<1>4. k \in Seq(Datagrams) /\ Keeps(k, s, I)
  BY <1>3, KeptIs
<1>5. Members(k) \subseteq Members(s) /\ \A d \in Members(k) : d.dst # port0
  <2>1. Members(k) = { s[i] : i \in I }
    BY <1>4 DEF Keeps
  <2> QED
    BY <1>2, <2>1 DEF Members
<1>6. ASSUME NEW p, Addressed(s, p)
      PROVE  Count(k, p.id) <= Count(s, p.id) /\ (p.dst # port0 => Count(k, p.id) = Count(s, p.id))
  <2>1. PICK P, T : P = Places(s, p.id) /\ T = { i \in I : s[i].id = p.id }
    OBVIOUS
  <2>2. IsFiniteSet(P) /\ Count(s, p.id) = Cardinality(P) /\ Count(k, p.id) = Cardinality(T)
    BY <1>3, <1>4, <2>1, PlacesFinite DEF Keeps, Count
  <2>3. T \subseteq P
    BY <1>3, <2>1 DEF Places
  <2>4. p.dst # port0 => T = P
    BY <1>2, <1>6, <2>1 DEF Places, Addressed, Members
  <2>5. Cardinality(T) <= Cardinality(P)
    BY <2>2, <2>3, FS_Subset
  <2> QED
    BY <2>2, <2>4, <2>5
<1> QED
  BY <1>1, <1>4, <1>5, <1>6

LEMMA OpenKeeps == ASSUME WireIInv, NEW port0 \in Ports, Loop!Open(port0) PROVE WireIInv'
<1>1. PICK qs, held, bs, qs2, held2, bs2 :
         /\ qs = m_queues /\ held = m_holdBuffer /\ bs = binds
         /\ qs2 = m_queues' /\ held2 = m_holdBuffer' /\ bs2 = binds'
  OBVIOUS
<1>2. WireSound(m_imp, qs, held, posted, got, bs)
  BY <1>1 DEF WireIInv
<1>3. Queues(qs) /\ held \in Seq(Datagrams) /\ bs \in [Ports -> Nat] /\ DOMAIN qs \subseteq Ports
  BY <1>2 DEF WireSound, WireTypes, Queues
<1>4. /\ qs2 = [p \in DOMAIN qs \cup {port0} |-> IF p = port0 THEN << >> ELSE qs[p]]
      /\ held2 = IF port0 \in DOMAIN qs THEN Loop!HeldForOthers(port0) ELSE held
      /\ bs2 = [bs EXCEPT ![port0] = @ + 1]
      /\ m_imp' = m_imp /\ posted' = posted /\ got' = got
  BY <1>1 DEF Loop!Open, Loop!Bound
<1>5. DOMAIN qs2 = DOMAIN qs \cup {port0} /\ \A q \in DOMAIN qs2 : qs2[q] = IF q = port0 THEN << >> ELSE qs[q]
  BY <1>4
<1>6. Queues(qs2)
  <2>1. << >> \in Seq(Datagrams)
    OBVIOUS
  <2> QED
    BY <1>3, <1>5, <2>1 DEF Queues
<1>7. bs2 \in [Ports -> Nat] /\ bs2[port0] = bs[port0] + 1 /\ \A q \in Ports : q # port0 => bs2[q] = bs[q]
  <2>1. bs[port0] \in Nat
    BY <1>3
  <2> QED
    BY <1>3, <1>4, <2>1
<1>8. /\ held2 \in Seq(Datagrams) /\ Members(held2) \subseteq Members(held)
      /\ \A d \in Members(held2) : d.dst # port0 \/ port0 \notin DOMAIN qs
      /\ \A p : Addressed(held, p) =>
            Count(held2, p.id) <= Count(held, p.id) /\ (p.dst # port0 => Count(held2, p.id) = Count(held, p.id))
  <2>1. CASE port0 \in DOMAIN qs
    <3>1. PICK k : k = Loop!HeldForOthers(port0)
      OBVIOUS
    <3>2. held2 = k
      BY <1>4, <2>1, <3>1
    <3> QED
      BY <1>1, <1>3, <3>1, <3>2, HeldForOthersIs
  <2>2. CASE port0 \notin DOMAIN qs
    <3>1. held2 = held
      BY <1>4, <2>2
    <3>2. \A p : Count(held, p.id) \in Nat
      BY <1>3, PlacesFinite
    <3> QED
      BY <1>3, <2>2, <3>1, <3>2
  <2> QED
    BY <2>1, <2>2
<1>9. Rebound(port0, qs, held, bs, qs2, held2, bs2)
  BY <1>3, <1>5, <1>6, <1>7, <1>8 DEF Rebound
<1>10. WireSound(m_imp, qs2, held2, posted, got, bs2)
  BY <1>2, <1>9, RebindingKeeps
<1> QED
  BY <1>1, <1>4, <1>10 DEF WireIInv

LEMMA CloseKeeps == ASSUME WireIInv, NEW port0 \in Ports, Loop!Close(port0) PROVE WireIInv'
<1>1. PICK qs, held, bs, qs2, held2 :
         qs = m_queues /\ held = m_holdBuffer /\ bs = binds /\ qs2 = m_queues' /\ held2 = m_holdBuffer'
  OBVIOUS
<1>2. WireSound(m_imp, qs, held, posted, got, bs)
  BY <1>1 DEF WireIInv
<1>3. Queues(qs) /\ held \in Seq(Datagrams) /\ bs \in [Ports -> Nat] /\ DOMAIN qs \subseteq Ports
  BY <1>2 DEF WireSound, WireTypes, Queues
<1>4. /\ qs2 = [p \in DOMAIN qs \ {port0} |-> qs[p]] /\ held2 = Loop!HeldForOthers(port0)
      /\ m_imp' = m_imp /\ posted' = posted /\ got' = got /\ binds' = bs
  BY <1>1 DEF Loop!Close, Loop!Unregistered
<1>5. /\ DOMAIN qs2 = DOMAIN qs \ {port0} /\ \A q \in DOMAIN qs2 : qs2[q] = IF q = port0 THEN << >> ELSE qs[q]
      /\ port0 \notin DOMAIN qs2
  BY <1>4
<1>6. Queues(qs2)
  BY <1>3, <1>5 DEF Queues
<1>7. /\ held2 \in Seq(Datagrams) /\ Members(held2) \subseteq Members(held)
      /\ \A d \in Members(held2) : d.dst # port0
      /\ \A p : Addressed(held, p) =>
            Count(held2, p.id) <= Count(held, p.id) /\ (p.dst # port0 => Count(held2, p.id) = Count(held, p.id))
  BY <1>1, <1>3, <1>4, HeldForOthersIs
<1>8. Rebound(port0, qs, held, bs, qs2, held2, bs)
  BY <1>3, <1>5, <1>6, <1>7 DEF Rebound
<1>9. WireSound(m_imp, qs2, held2, posted, got, bs)
  BY <1>2, <1>8, RebindingKeeps
<1> QED
  BY <1>1, <1>4, <1>9 DEF WireIInv

(* What is received was at the head of its queue.                          *)
LEMMA JoinedCounts ==
    \A D : \A s, t \in Seq(D) :
        /\ s \o t \in Seq(D) /\ Members(s \o t) = Members(s) \cup Members(t)
        /\ \A id : Count(s \o t, id) = Count(s, id) + Count(t, id)
<1> SUFFICES ASSUME NEW D, NEW s \in Seq(D), NEW t \in Seq(D)
             PROVE  /\ s \o t \in Seq(D) /\ Members(s \o t) = Members(s) \cup Members(t)
                    /\ \A id : Count(s \o t, id) = Count(s, id) + Count(t, id)
  OBVIOUS
<1>1. s \o t \in Seq(D) /\ Members(s \o t) = Members(s) \cup Members(t)
  BY CountJoined
<1>2. \A id : Count(s \o t, id) = Count(s, id) + Count(t, id)
  BY CountJoined
<1> QED
  BY <1>1, <1>2

Together(u, s, t) ==
    Members(u) = Members(s) \cup Members(t) /\ \A id : Count(u, id) = Count(s, id) + Count(t, id)

LEMMA TogetherCount == \A D, u : \A s, t \in Seq(D) : u = s \o t => Together(u, s, t)
BY JoinedCounts DEF Together

(* What is received leaves the head of its queue.                          *)
LEMMA ReceivingKeeps ==
    ASSUME NEW imp, NEW qs, NEW held, NEW ps, NEW gt, NEW bs, WireSound(imp, qs, held, ps, gt, bs),
           NEW port0 \in DOMAIN qs, NEW s, s = qs[port0], s # << >>,
           NEW qs2, qs2 = [qs EXCEPT ![port0] = Tail(s)],
           NEW gt2, gt2 = Append(gt, [id |-> Head(s).id, now |-> bs[port0]])
    PROVE  WireSound(imp, qs2, held, ps, gt2, bs)
<1>1. WireTypes(qs, held, ps, gt, bs) /\ WireTraced(qs, held, ps, gt, bs) /\ WireCounted(imp, qs, held, ps, gt, bs)
  BY DEF WireSound
<1>2. /\ DOMAIN qs \subseteq Ports /\ s \in Seq(Datagrams) /\ held \in Seq(Datagrams)
      /\ gt \in Seq([id : Nat, now : Nat]) /\ bs \in [Ports -> Nat] /\ Queues(qs)
  BY <1>1 DEF WireTypes, Queues
<1>3. PICK h, t, g : h = Head(s) /\ t = Tail(s) /\ g = [id |-> h.id, now |-> bs[port0]]
  OBVIOUS
<1>4. /\ h \in Datagrams /\ t \in Seq(Datagrams) /\ << h >> \in Seq(Datagrams) /\ s = << h >> \o t
  BY <1>2, <1>3
<1>5. g \in [id : Nat, now : Nat] /\ g.id = h.id /\ g.now = bs[port0]
  BY <1>2, <1>3, <1>4 DEF Datagrams
<1>6. Members(s) = Members(<< h >>) \cup Members(t) /\ \A id : Count(s, id) = Count(<< h >>, id) + Count(t, id)
  <2>1. PICK u : u = << h >>
    OBVIOUS
  <2>2. u \in Seq(Datagrams) /\ t \in Seq(Datagrams) /\ s = u \o t
    BY <1>4, <2>1
  <2>3. Together(s, u, t)
    BY <2>2, TogetherCount
  <2> QED
    BY <2>1, <2>3 DEF Together
<1>7. h \in Members(s) /\ Members(t) \subseteq Members(s)
  <2>1. << h >>[1] = h /\ Len(<< h >>) = 1
    OBVIOUS
  <2>2. h \in Members(<< h >>)
    BY <2>1 DEF Members
  <2> QED
    BY <1>6, <2>2
<1>8. PICK one : one = << g >>
  OBVIOUS
<1>9. gt2 = gt \o one /\ one \in Seq([id : Nat, now : Nat])
  BY <1>2, <1>3, <1>5, <1>8
<1>10. gt2 \in Seq([id : Nat, now : Nat]) /\ Members(gt2) = Members(gt) \cup Members(one)
       /\ \A id : Count(gt2, id) = Count(gt, id) + Count(one, id)
  <2>1. gt \in Seq([id : Nat, now : Nat]) /\ one \in Seq([id : Nat, now : Nat]) /\ gt2 = gt \o one
    BY <1>2, <1>9
  <2>2. gt2 \in Seq([id : Nat, now : Nat])
    BY <2>1, JoinedCounts
  <2>3. Together(gt2, gt, one)
    BY <2>1, TogetherCount
  <2> QED
    BY <2>2, <2>3 DEF Together
<1>11. Members(one) = {g}
  <2>1. one[1] = g /\ Len(one) = 1
    BY <1>8
  <2> QED
    BY <2>1 DEF Members
<1>12. \A id : Count(one, id) = Count(<< h >>, id)
  <2> SUFFICES ASSUME NEW id PROVE Count(one, id) = Count(<< h >>, id)
    OBVIOUS
  <2>1. Count(<< h >>, id) = IF h.id = id THEN 1 ELSE 0
    BY <1>4, CountOne
  <2>2. Count(<< g >>, id) = IF g.id = id THEN 1 ELSE 0
    BY <1>5, CountOne
  <2> QED
    BY <1>5, <1>8, <2>1, <2>2
<1>13. DOMAIN qs2 = DOMAIN qs /\ qs2[port0] = t /\ \A q \in DOMAIN qs : q # port0 => qs2[q] = qs[q]
  BY <1>3
<1>14. WireTypes(qs2, held, ps, gt2, bs)
  BY <1>1, <1>2, <1>4, <1>10, <1>13 DEF WireTypes, Queues
<1>15. \A d : Traceable(d, ps, qs, bs) => Traceable(d, ps, qs2, bs)
  BY <1>13 DEF Traceable
<1>16. WireTraced(qs2, held, ps, gt2, bs)
  <2>1. \A d \in Members(held) : Traceable(d, ps, qs2, bs)
    BY <1>1, <1>15 DEF WireTraced
  <2>2. ASSUME NEW q \in DOMAIN qs2, NEW d \in Members(qs2[q]) PROVE d.dst = q /\ Traceable(d, ps, qs2, bs)
    <3>1. q \in DOMAIN qs /\ d \in Members(qs[q])
      BY <1>7, <1>13, <2>2
    <3> QED
      BY <1>1, <1>15, <3>1 DEF WireTraced
  <2>3. h.dst = port0 /\ Traceable(h, ps, qs, bs)
    BY <1>1, <1>7 DEF WireTraced
  <2>4. \E p \in ps : p.id = g.id /\ (p.heard => g.now = p.bind)
    BY <1>5, <2>3 DEF Traceable
  <2>5. \A e \in Members(gt2) : \E p \in ps : p.id = e.id /\ (p.heard => e.now = p.bind)
    BY <1>1, <1>10, <1>11, <2>4 DEF WireTraced
  <2> QED
    BY <2>1, <2>2, <2>5 DEF WireTraced
<1>17. ASSUME NEW p \in ps PROVE InTransit(p, qs2, held, gt2) = InTransit(p, qs, held, gt)
  <2>1. PICK a, b, c, d, e, f : /\ a = Count(gt, p.id) /\ b = Queued(qs, p) /\ c = Count(held, p.id)
                                /\ d = Count(<< h >>, p.id) /\ e = Count(gt2, p.id) /\ f = Queued(qs2, p)
    OBVIOUS
  <2>2. a \in Nat /\ b \in Nat /\ c \in Nat /\ d \in Nat /\ e \in Nat /\ f \in Nat
    BY <1>1, <1>4, <1>14, <2>1, TransitIsNumber, PlacesFinite
  <2>3. e = a + d
    BY <1>10, <1>12, <2>1
  <2>4. b = f + d
    <3>1. CASE p.dst = port0
      <4>1. b = Count(s, p.id) /\ f = Count(t, p.id)
        BY <1>13, <2>1, <3>1 DEF Queued
      <4>2. Count(s, p.id) = d + f
        BY <1>6, <2>1, <4>1
      <4> QED
        BY <2>2, <4>1, <4>2
    <3>2. CASE p.dst # port0
      <4>1. Addressed(s, p)
        BY <1>1, AddressedAll
      <4>2. h.dst = port0
        BY <1>1, <1>7 DEF WireTraced
      <4>3. h.id # p.id
        BY <1>7, <3>2, <4>1, <4>2 DEF Addressed
      <4>4. d = 0
        BY <1>4, <2>1, <4>3, CountOne
      <4>5. b = f
        BY <1>13, <2>1, <3>2 DEF Queued
      <4> QED
        BY <2>2, <4>4, <4>5
    <3> QED
      BY <3>1, <3>2
  <2>5. e + f + c = a + b + c
    BY <2>2, <2>3, <2>4
  <2> QED
    BY <2>1, <2>5 DEF InTransit
<1>18. WireCounted(imp, qs2, held, ps, gt2, bs)
  BY <1>1, <1>13, <1>17 DEF WireCounted
<1> QED
  BY <1>14, <1>16, <1>18 DEF WireSound

LEMMA RecvFromKeeps == ASSUME WireIInv, NEW port0 \in Ports, Loop!RecvFrom(port0) PROVE WireIInv'
<1>1. PICK qs, gt, bs, s : qs = m_queues /\ gt = got /\ bs = binds /\ s = qs[port0]
  OBVIOUS
<1>2. WireSound(m_imp, qs, m_holdBuffer, posted, gt, bs)
  BY <1>1 DEF WireIInv
<1>3. PICK qs2, gt2 : qs2 = [qs EXCEPT ![port0] = Tail(s)] /\ gt2 = Append(gt, [id |-> Head(s).id, now |-> bs[port0]])
  OBVIOUS
<1>4. /\ port0 \in DOMAIN qs /\ s # << >> /\ m_queues' = qs2 /\ got' = gt2
      /\ m_imp' = m_imp /\ m_holdBuffer' = m_holdBuffer /\ posted' = posted /\ binds' = bs
  BY <1>1, <1>3 DEF Loop!RecvFrom, Loop!Bound
<1>5. WireSound(m_imp, qs2, m_holdBuffer, posted, gt2, bs)
  BY <1>1, <1>2, <1>3, <1>4, ReceivingKeeps
<1> QED
  BY <1>4, <1>5 DEF WireIInv

(* Without reordering a copy passes what is held, of which there is none.  *)
LEMMA MovedBehind ==
    ASSUME NEW qs, Queues(qs), NEW held \in Seq(Datagrams), NEW copies \in Seq(Datagrams), NEW qs2,
           Moved(qs, copies, qs2, << >>)
    PROVE  Moved(qs, held \o copies, qs2, held)
<1>1. PICK both : both = held \o copies
  OBVIOUS
<1>2. Members(both) = Members(held) \cup Members(copies)
  BY <1>1, CountJoined
<1>3. \A id : Count(both, id) = Count(held, id) + Count(copies, id)
  BY <1>1, CountJoined
<1>4. Queues(qs2) /\ DOMAIN qs2 = DOMAIN qs
  BY DEF Moved
<1>5. \A q \in DOMAIN qs : \A d \in Members(qs2[q]) : d \in Members(qs[q]) \/ (d \in Members(both) /\ d.dst = q)
  BY <1>2 DEF Moved
<1>6. ASSUME NEW p, Addressed(both, p)
      PROVE  /\ Queued(qs2, p) + Count(held, p.id) <= Queued(qs, p) + Count(both, p.id)
             /\ p.dst \in DOMAIN qs => Queued(qs2, p) + Count(held, p.id) = Queued(qs, p) + Count(both, p.id)
  <2>1. Addressed(copies, p)
    BY <1>2, <1>6 DEF Addressed
  <2>2. /\ Queued(qs2, p) + Count(<< >>, p.id) <= Queued(qs, p) + Count(copies, p.id)
        /\ p.dst \in DOMAIN qs => Queued(qs2, p) + Count(<< >>, p.id) = Queued(qs, p) + Count(copies, p.id)
    BY <2>1 DEF Moved
  <2>3. PICK a, b, c, d : a = Queued(qs2, p) /\ b = Queued(qs, p) /\ c = Count(copies, p.id) /\ d = Count(held, p.id)
    OBVIOUS
  <2>4. a \in Nat /\ b \in Nat /\ c \in Nat /\ d \in Nat /\ Count(<< >>, p.id) = 0 /\ Count(both, p.id) = d + c
    BY <1>3, <1>4, <2>3, CountsAreNumbers, CountEmpty
  <2>5. a + 0 <= b + c => a + d <= b + (d + c)
    BY <2>4
  <2>6. a + 0 = b + c => a + d = b + (d + c)
    BY <2>4
  <2> QED
    BY <2>2, <2>3, <2>4, <2>5, <2>6
<1> QED
  BY <1>1, <1>2, <1>4, <1>5, <1>6 DEF Moved

LEMMA SendToKeeps == ASSUME WireIInv, NEW src \in Ports, NEW dst \in Ports, Loop!SendTo(src, dst) PROVE WireIInv'
<1>1. PICK imp, qs, held, ps, gt, bs :
         imp = m_imp /\ qs = m_queues /\ held = m_holdBuffer /\ ps = posted /\ gt = got /\ bs = binds
  OBVIOUS
<1>2. WireSound(imp, qs, held, ps, gt, bs)
  BY <1>1 DEF WireIInv
<1>3. /\ imp.reorderDepth \in Nat /\ Queues(qs) /\ held \in Seq(Datagrams) /\ IsFiniteSet(ps) /\ bs \in [Ports -> Nat]
  BY <1>2 DEF WireSound, WireTypes
<1>4. PICK n : n = Cardinality(ps) + 1
  OBVIOUS
<1>5. PICK d, r : /\ d = [id |-> n, dst |-> dst, bind |-> bs[dst]]
                  /\ r = [id |-> n, dst |-> dst, bind |-> bs[dst], heard |-> dst \in DOMAIN qs]
  OBVIOUS
<1>6. /\ posted' = ps \cup {r} /\ m_imp' = imp /\ got' = gt /\ binds' = bs
      /\ \/ imp.lossy /\ m_queues' = qs /\ m_holdBuffer' = held
         \/ \E copies \in IF imp.dups THEN {<< d >>, << d, d >>} ELSE {<< d >>} :
               \/ \E q \in Loop!Released(qs, held \o copies, imp.reorderDepth) : m_queues' = q[1] /\ m_holdBuffer' = q[2]
               \/ m_queues' = Loop!Delivered(qs, copies) /\ m_holdBuffer' = held
  <2>1. Loop!Cardinality(ps) + 1 = n
    BY <1>4, LoopSameCardinality
  <2> QED
    BY <1>1, <1>5, <2>1 DEF Loop!SendTo, Loop!Bound
<1>7. CASE imp.lossy /\ m_queues' = qs /\ m_holdBuffer' = held
  <2>1. WireSound(imp, qs, held \o << >>, ps \cup {r}, gt, bs)
    BY <1>2, <1>4, <1>5, <1>7, PostingKeeps
  <2>2. held \o << >> = held
    BY <1>3
  <2> QED
    BY <1>6, <1>7, <2>1, <2>2 DEF WireIInv
<1>8. ASSUME NEW copies \in IF imp.dups THEN {<< d >>, << d, d >>} ELSE {<< d >>},
             \/ \E q \in Loop!Released(qs, held \o copies, imp.reorderDepth) : m_queues' = q[1] /\ m_holdBuffer' = q[2]
             \/ m_queues' = Loop!Delivered(qs, copies) /\ m_holdBuffer' = held
      PROVE  WireIInv'
  <2>1. copies = << d >> \/ (copies = << d, d >> /\ imp.dups)
    BY <1>8
  <2>2. PICK both, ps2 : both = held \o copies /\ ps2 = ps \cup {r}
    OBVIOUS
  <2>3. WireSound(imp, qs, both, ps2, gt, bs)
    BY <1>2, <1>4, <1>5, <2>1, <2>2, PostingKeeps
  <2>4. both \in Seq(Datagrams)
    BY <2>3 DEF WireSound, WireTypes
  <2>5. d \in Datagrams
    <3>1. n \in Nat
      BY <1>3, <1>4, FS_CardinalityType
    <3>2. bs[dst] \in Nat
      BY <1>3
    <3> QED
      BY <1>5, <3>1, <3>2 DEF Datagrams
  <2>6. copies \in Seq(Datagrams)
    <3>1. << d >> \in Seq(Datagrams) /\ << d, d >> \in Seq(Datagrams)
      BY <2>5
    <3> QED
      BY <2>1, <3>1
  <2>7. Moved(qs, both, m_queues', m_holdBuffer')
    <3>1. ASSUME NEW q \in Loop!Released(qs, both, imp.reorderDepth), m_queues' = q[1], m_holdBuffer' = q[2]
          PROVE  Moved(qs, both, m_queues', m_holdBuffer')
      <4>1. Moved(qs, both, q[1], q[2])
        BY <1>3, <2>4, ReleasedMoves
      <4> QED
        BY <3>1, <4>1
    <3>2. ASSUME m_queues' = Loop!Delivered(qs, copies), m_holdBuffer' = held
          PROVE  Moved(qs, both, m_queues', m_holdBuffer')
      <4>1. PICK qs2 : qs2 = Loop!Delivered(qs, copies)
        OBVIOUS
      <4>2. Moved(qs, copies, qs2, << >>)
        BY <1>3, <2>6, <4>1, DeliveredMoves
      <4>3. Moved(qs, both, qs2, held)
        BY <1>3, <2>2, <2>6, <4>2, MovedBehind
      <4> QED
        BY <3>2, <4>1, <4>3
    <3> QED
      BY <1>8, <2>2, <3>1, <3>2
  <2>8. PICK qs2, held2 : qs2 = m_queues' /\ held2 = m_holdBuffer'
    OBVIOUS
  <2>9. WireSound(imp, qs2, held2, ps2, gt, bs)
    BY <2>3, <2>7, <2>8, MovingKeeps
  <2> QED
    BY <1>6, <2>2, <2>8, <2>9 DEF WireIInv
<1> QED
  BY <1>6, <1>7, <1>8

LEMMA FlushKeeps == ASSUME WireIInv, Loop!Flush PROVE WireIInv'
<1>1. PICK qs, held : qs = m_queues /\ held = m_holdBuffer
  OBVIOUS
<1>2. WireSound(m_imp, qs, held, posted, got, binds) /\ Queues(qs) /\ held \in Seq(Datagrams)
  BY <1>1 DEF WireIInv, WireSound, WireTypes
<1>3. PICK q \in Loop!Released(qs, held, 0) : m_queues' = q[1] /\ m_holdBuffer' = q[2]
  BY <1>1 DEF Loop!Flush
<1>4. Moved(qs, held, q[1], q[2])
  BY <1>2, ReleasedMoves
<1>5. WireSound(m_imp, q[1], q[2], posted, got, binds)
  BY <1>2, <1>4, MovingKeeps
<1>6. m_imp' = m_imp /\ posted' = posted /\ got' = got /\ binds' = binds
  BY DEF Loop!Flush
<1> QED
  BY <1>3, <1>5, <1>6 DEF WireIInv

LEMMA ConfigureKeeps ==
    ASSUME WireIInv, NEW lossy \in BOOLEAN, NEW dups \in BOOLEAN, NEW depth \in REORDER_DEPTHS,
           Loop!Configure(lossy, dups, depth)
    PROVE  WireIInv'
<1>1. PICK imp : imp = [lossy |-> lossy, dups |-> dups, reorderDepth |-> depth]
  OBVIOUS
<1>2. /\ m_imp' = imp /\ m_holdBuffer' = << >> /\ posted = {} /\ m_queues' = m_queues /\ posted' = posted
      /\ got' = got /\ binds' = binds
  BY <1>1 DEF Loop!Configure
<1>3. imp.reorderDepth \in Nat
  BY <1>1, LoopAssumption
<1>4. /\ WireTypes(m_queues, m_holdBuffer, posted, got, binds)
      /\ WireTraced(m_queues, m_holdBuffer, posted, got, binds)
  BY DEF WireIInv, WireSound
<1>5. << >> \in Seq(Datagrams) /\ Members(<< >>) = {}
  BY DEF Members
<1>6. /\ WireTypes(m_queues, << >>, posted, got, binds)
      /\ WireTraced(m_queues, << >>, posted, got, binds)
      /\ WireCounted(imp, m_queues, << >>, posted, got, binds)
  BY <1>2, <1>4, <1>5 DEF WireTypes, WireTraced, WireCounted
<1>7. WireSound(imp, m_queues, << >>, posted, got, binds)
  BY <1>3, <1>6 DEF WireSound
<1> QED
  BY <1>2, <1>7 DEF WireIInv

(* Nothing is in transit on a new wire.                                    *)
LEMMA WireStarts == ASSUME Loop!Init PROVE WireIInv
<1>1. /\ m_imp.reorderDepth = 0 /\ m_queues = << >> /\ m_holdBuffer = << >> /\ posted = {} /\ got = << >>
      /\ binds = [p \in Ports |-> 0]
  BY DEF Loop!Init
<1>2. DOMAIN m_queues = {} /\ Members(<< >>) = {} /\ << >> \in Seq(Datagrams) /\ << >> \in Seq([id : Nat, now : Nat])
  BY <1>1 DEF Members
<1>3. WireTypes(m_queues, m_holdBuffer, posted, got, binds)
  BY <1>1, <1>2, FS_EmptySet DEF WireTypes, Queues
<1>4. WireTraced(m_queues, m_holdBuffer, posted, got, binds) /\ WireCounted(m_imp, m_queues, m_holdBuffer, posted, got, binds)
  BY <1>1, <1>2 DEF WireTraced, WireCounted
<1> QED
  BY <1>1, <1>3, <1>4 DEF WireIInv, WireSound

(* Each call keeps the wire sound.                                         *)
LEMMA WireMoves == ASSUME WireIInv, Loop!Next PROVE WireIInv'
  BY ConfigureKeeps, OpenKeeps, CloseKeeps, RecvFromKeeps, SendToKeeps, FlushKeeps DEF Loop!Next

(* A sound wire keeps what it promises.                                    *)
LEMMA WireKeepsPromises == ASSUME WireIInv PROVE Loop!LoopbackInv
<1>1. /\ WireTypes(m_queues, m_holdBuffer, posted, got, binds)
      /\ WireTraced(m_queues, m_holdBuffer, posted, got, binds)
      /\ WireCounted(m_imp, m_queues, m_holdBuffer, posted, got, binds)
  BY DEF WireIInv, WireSound
<1>2. ASSUME NEW p \in posted
      PROVE  Loop!Copies(p, got) + Loop!Copies(p, Loop!QueuedFor(p)) + Loop!Copies(p, m_holdBuffer)
                = InTransit(p, m_queues, m_holdBuffer, got)
  <2>1. Loop!Copies(p, Loop!QueuedFor(p)) = Queued(m_queues, p)
    BY CopiesAre, CountEmpty DEF Queued, Loop!QueuedFor, Loop!Bound
  <2> QED
    BY <2>1, CopiesAre DEF InTransit
<1>3. Loop!LosslessLosesNothing
  BY <1>1, <1>2 DEF WireCounted, Loop!LosslessLosesNothing, Loop!Bound
<1>4. Loop!RebindHearsNothingOld
  BY <1>1 DEF WireTraced, Members, Loop!RebindHearsNothingOld
<1> QED
  BY <1>3, <1>4 DEF Loop!LoopbackInv

(* Whatever the ports, the impairments and the order of calls, no datagram *)
(* is there more often than duplication allows, a wire without loss loses  *)
(* none, and a port that is bound again hears nothing sent to its          *)
(* predecessor (LoopbackNetwork.h).                                        *)
THEOREM LoopbackCorrect == TransportSpec => []LoopbackInv
<1>1. TransportInit => WireIInv
  BY WireStarts DEF TransportInit
<1>2. WireIInv /\ UNCHANGED loopVars => WireIInv'
  BY DEF WireIInv, loopVars
<1>3. WireIInv /\ [TransportNext]_allVars => WireIInv'
  <2> SUFFICES ASSUME WireIInv, [TransportNext]_allVars PROVE WireIInv'
    OBVIOUS
  <2>1. CASE Loop!Next
    BY <2>1, WireMoves
  <2>2. CASE UNCHANGED loopVars
    BY <1>2, <2>2
  <2>3. Loop!Next \/ UNCHANGED loopVars
    BY DEF TransportNext, ChannelNext, ReliabilityNext, LoopbackNext, ServerNext, WireNext, StepsNext, TimerNext, allVars
  <2> QED
    BY <2>1, <2>2, <2>3
<1>4. WireIInv => LoopbackInv
  BY WireKeepsPromises DEF LoopbackInv
<1> QED
  BY <1>1, <1>3, <1>4, PTL DEF TransportSpec
=============================================================================
