---------------------------- MODULE SecureChannel ----------------------------
(***************************************************************************)
(* One direction of an encrypted connection: NeuronCore/SecureChannel.h    *)
(* at the sender (Seal) and at the receiver (Open), over a network that    *)
(* loses, repeats, reorders and damages datagrams.                         *)
(*                                                                         *)
(* A datagram is its packet number and a kind: "sealed" (as the peer sent  *)
(* it), "damaged" (a readable header whose AEAD tag does not verify; the   *)
(* header is authenticated too, so a changed packet number is of this      *)
(* kind), "stray" (the header of another connection) or "runt" (no         *)
(* readable header).  Encryption itself is external: Decrypt succeeds      *)
(* exactly on what Encrypt made under the same key, direction and number.  *)
(***************************************************************************)
EXTENDS Naturals

(***************************************************************************)
(* The anti-replay window of NeuronCore/ReplayWindow.h.                    *)
(*                                                                         *)
(* m_bits is kept here as the SET of offsets whose bit is set: offset o    *)
(* stands for packet number m_highest - o, as in the code.                 *)
(*                                                                         *)
(* offered and accepted are history variables: the packet numbers that     *)
(* have been put to the window since the last Reset, and how many times    *)
(* each was declared fresh.                                                *)
(***************************************************************************)
CONSTANTS WINDOW_BITS,   \* numbers covered by the window (1024 in the code)
          WORD_BITS, WORDS, \* the array that holds them: 16 words of 64 bits
          MAX_PACKET     \* bound: packet numbers run over 0 .. MAX_PACKET

ASSUME WindowAssumption == WINDOW_BITS \in Nat \ {0} /\ MAX_PACKET \in Nat

ASSUME WordsAssumption ==
    WORD_BITS \in Nat \ {0} /\ WORDS \in Nat \ {0} /\ WINDOW_BITS = WORD_BITS * WORDS

PacketNumbers == 0 .. MAX_PACKET

VARIABLES m_seenAny, m_highest, m_bits, offered, accepted

windowVars == << m_seenAny, m_highest, m_bits, offered, accepted >>

WindowTypeOK ==
    /\ m_seenAny \in BOOLEAN
    /\ m_highest \in PacketNumbers
    /\ m_bits \subseteq 0 .. (WINDOW_BITS - 1)
    /\ offered \subseteq PacketNumbers
    /\ accepted \in [PacketNumbers -> Nat]

WindowInit ==
    /\ m_seenAny = FALSE
    /\ m_highest = 0
    /\ m_bits = {}
    /\ offered = {}
    /\ accepted = [n \in PacketNumbers |-> 0]

-----------------------------------------------------------------------------
(* Plausible slips, substituted for the definitions that follow them. *)

\* Mutant: the offsets slid in keep the bits that were there.
SlideForwardKeepsTail(bits, shift) ==
    { o \in 0 .. (WINDOW_BITS - 1) : (o >= shift => (o - shift) \in bits) /\ (o < shift => o \in bits) }

\* Mutant: a slide forgets everything seen.
SlideForwardClearsAll(bits, shift) == {}

\* Bits move towards older offsets as m_highest advances; the ones pushed past
\* the tail are lost.
SlideForward(bits, shift) ==
    { o \in 0 .. (WINDOW_BITS - 1) : o >= shift /\ (o - shift) \in bits }

\* The number is above everything seen so far.
Ahead(n) == ~m_seenAny \/ n > m_highest

\* The number lies at or below m_highest and inside the window.
InWindow(n) == m_highest - n < WINDOW_BITS

\* What CheckAndUpdate returns.
Fresh(n) == Ahead(n) \/ (InWindow(n) /\ (m_highest - n) \notin m_bits)

\* bool CheckAndUpdate(uint64_t packetNumber)
CheckAndUpdate(n) ==
    /\ offered' = offered \cup {n}
    /\ \/ /\ ~m_seenAny
          /\ m_seenAny' = TRUE
          /\ m_highest' = n
          /\ m_bits' = m_bits \cup {0}
       \/ /\ m_seenAny
          /\ n > m_highest
          /\ m_bits' = SlideForward(m_bits, n - m_highest) \cup {0}
          /\ m_highest' = n
          /\ UNCHANGED m_seenAny
       \/ /\ m_seenAny
          /\ n <= m_highest
          /\ m_bits' = IF Fresh(n) THEN m_bits \cup {m_highest - n} ELSE m_bits
          /\ UNCHANGED << m_seenAny, m_highest >>
    /\ accepted' = IF Fresh(n) THEN [accepted EXCEPT ![n] = @ + 1] ELSE accepted

\* void Reset()
Reset ==
    /\ m_seenAny' = FALSE
    /\ m_highest' = 0
    /\ m_bits' = {}
    /\ offered' = {}
    /\ accepted' = [n \in PacketNumbers |-> 0]

WindowNext == Reset \/ \E n \in PacketNumbers : CheckAndUpdate(n)

WindowSpec == WindowInit /\ [][WindowNext]_windowVars

-----------------------------------------------------------------------------
(* No packet number is declared fresh twice between two Resets, whatever   *)
(* order, gap or repetition the numbers arrive in: the defence against     *)
(* replayed datagrams CheckAndUpdate exists for.                           *)
NeverFreshTwice == \A n \in PacketNumbers : accepted[n] <= 1

(* The window rejects no number it could still have judged: one that was   *)
(* never offered before and is newer than the tail is accepted.  Losing a  *)
(* bit in SlideForward breaks the previous property, inventing one breaks  *)
(* this one.                                                               *)
FreshIsAccepted ==
    [][ \A n \in PacketNumbers :
            (n \in offered' \ offered /\ (Ahead(n) \/ InWindow(n)))
                => accepted'[n] = accepted[n] + 1 ]_windowVars

(* What the bits mean: a bit is set exactly for the numbers inside the     *)
(* window that have been accepted, and nothing above m_highest has been.   *)
(* This is the strengthening that makes NeverFreshTwice inductive.         *)
BitsRecordAccepted ==
    /\ ~m_seenAny => m_bits = {} /\ m_highest = 0
    /\ \A n \in PacketNumbers :
          /\ accepted[n] > 0 => m_seenAny /\ n <= m_highest /\ n \in offered
          /\ (m_seenAny /\ n <= m_highest /\ m_highest - n < WINDOW_BITS)
                => ((m_highest - n) \in m_bits <=> accepted[n] > 0)

-----------------------------------------------------------------------------
(* The machine words that hold those bits: the algorithms on the array,    *)
(* where SlideForward is a whole-word move followed by a shift across word *)
(* boundaries.  MCTransport runs them in step with the set.                *)
WordIndex == 0 .. (WORDS - 1)
Offsets == 0 .. (WORD_BITS * WORDS - 1)

\* A word is the set of positions of its one bits.
ZeroWords == [i \in WordIndex |-> {}]

\* The value of word << k and word >> k, truncated to the width of a word.
ShiftUp(w, k) == { b + k : b \in { c \in w : c + k < WORD_BITS } }
ShiftDown(w, k) == { b - k : b \in { c \in w : c >= k } }

TestBit(words, offset) == (offset % WORD_BITS) \in words[offset \div WORD_BITS]
SetBit(words, offset) ==
    [words EXCEPT ![offset \div WORD_BITS] = @ \cup {offset % WORD_BITS}]

\* Mutant: the carry from the next lower word is forgotten.
SlideWordsNoCarry(words, shift) ==
    IF shift >= WORD_BITS * WORDS THEN ZeroWords
    ELSE [i \in WordIndex |->
            IF i >= shift \div WORD_BITS
            THEN ShiftUp(words[i - shift \div WORD_BITS], shift % WORD_BITS) ELSE {}]

SlideWords(words, shift) ==
    LET wordShift == shift \div WORD_BITS
        bitShift  == shift % WORD_BITS
    IN  IF shift >= WORD_BITS * WORDS THEN ZeroWords
        ELSE IF bitShift = 0
             THEN [i \in WordIndex |-> IF i >= wordShift THEN words[i - wordShift] ELSE {}]
             ELSE [i \in WordIndex |->
                     (IF i >= wordShift THEN ShiftUp(words[i - wordShift], bitShift) ELSE {})
                     \cup
                     (IF i >= wordShift + 1
                      THEN ShiftDown(words[i - wordShift - 1], WORD_BITS - bitShift) ELSE {})]

\* The array after CheckAndUpdate(n) of a window in the given state.
CheckAndUpdateWords(words, seenAny, highest, n) ==
    IF ~seenAny THEN SetBit(words, 0)
    ELSE IF n > highest THEN SetBit(SlideWords(words, n - highest), 0)
         ELSE IF highest - n < WORD_BITS * WORDS THEN SetBit(words, highest - n) ELSE words

\* The offsets whose bit is set.
BitsOf(words) == { o \in Offsets : TestBit(words, o) }

-----------------------------------------------------------------------------
(* The channel.                                                            *)
VARIABLES sendHasKeys, recvHasKeys,  \* m_hasKeys at either end
          m_sendCounter,             \* next packet number of the sender
          net,                       \* packet numbers sealed and on the network
          delivered,                 \* how often Open returned Ok for a number
          openResult                 \* result of the last Open

channelVars == << sendHasKeys, recvHasKeys, m_sendCounter, net, delivered, openResult >>
vars == << windowVars, channelVars >>

OpenResults == {"none", "Ok", "BadHeader", "WrongToken", "Replay", "AuthFailure", "NoKeys"}
Kinds == {"sealed", "damaged", "stray", "runt"}

TypeOK ==
    /\ WindowTypeOK
    /\ sendHasKeys \in BOOLEAN
    /\ recvHasKeys \in BOOLEAN
    /\ m_sendCounter \in 0 .. (MAX_PACKET + 1)
    /\ net \subseteq PacketNumbers
    /\ delivered \in [PacketNumbers -> Nat]
    /\ openResult \in OpenResults

Init ==
    /\ WindowInit
    /\ sendHasKeys = FALSE
    /\ recvHasKeys = FALSE
    /\ m_sendCounter = 0
    /\ net = {}
    /\ delivered = [n \in PacketNumbers |-> 0]
    /\ openResult = "none"

\* The two ends install their keys independently (Connection.h does so when
\* its half of the handshake completes).
SetSenderKeys ==
    /\ ~sendHasKeys
    /\ sendHasKeys' = TRUE
    /\ UNCHANGED << windowVars, recvHasKeys, m_sendCounter, net, delivered, openResult >>

SetReceiverKeys ==
    /\ ~recvHasKeys
    /\ recvHasKeys' = TRUE
    /\ UNCHANGED << windowVars, sendHasKeys, m_sendCounter, net, delivered, openResult >>

-----------------------------------------------------------------------------
\* bool Seal(payload, outDatagram): the counter advances only once the
\* datagram exists, so an encryption failure leaves no gap and no reuse.
Seal ==
    /\ sendHasKeys
    /\ m_sendCounter <= MAX_PACKET      \* bound on the model's packet numbers
    /\ net' = net \cup {m_sendCounter}
    /\ m_sendCounter' = m_sendCounter + 1
    /\ UNCHANGED << windowVars, sendHasKeys, recvHasKeys, delivered, openResult >>

\* A datagram the network can hand to the receiver.
Arrives(n, kind) == kind = "sealed" => n \in net

\* The early returns of Open leave the window alone.
OpenRefused(result) ==
    /\ openResult' = result
    /\ UNCHANGED << windowVars, sendHasKeys, recvHasKeys, m_sendCounter, net, delivered >>

\* OpenResult Open(datagram, outPayload): the window judges the number before
\* the ciphertext is verified, so a damaged datagram uses its number up.
Open(n, kind) ==
    /\ Arrives(n, kind)
    /\ \/ ~recvHasKeys /\ OpenRefused("NoKeys")
       \/ recvHasKeys /\ kind = "runt" /\ OpenRefused("BadHeader")
       \/ recvHasKeys /\ kind = "stray" /\ OpenRefused("WrongToken")
       \/ /\ recvHasKeys
          /\ kind \in {"sealed", "damaged"}
          /\ CheckAndUpdate(n)
          /\ openResult' = IF ~Fresh(n) THEN "Replay"
                           ELSE IF kind = "sealed" THEN "Ok" ELSE "AuthFailure"
          /\ delivered' = IF Fresh(n) /\ kind = "sealed"
                          THEN [delivered EXCEPT ![n] = @ + 1] ELSE delivered
          /\ UNCHANGED << sendHasKeys, recvHasKeys, m_sendCounter, net >>

Next ==
    \/ SetSenderKeys
    \/ SetReceiverKeys
    \/ Seal
    \/ \E n \in PacketNumbers, kind \in Kinds : Open(n, kind)

Spec == Init /\ [][Next]_vars

-----------------------------------------------------------------------------
(* A datagram the peer sealed reaches the application at most once, and    *)
(* nothing reaches it that the peer did not seal, however the network      *)
(* repeats, reorders or damages datagrams (SecureChannel::Open and         *)
(* ReplayWindow::CheckAndUpdate together).                                 *)
DeliveredAtMostOnce ==
    \A n \in PacketNumbers : delivered[n] <= 1 /\ (delivered[n] = 1 => n < m_sendCounter)

(* The inductive invariant behind it: deliveries are bounded by the        *)
(* window's verdicts, and the window's bits record those exactly.          *)
ChannelInv ==
    /\ TypeOK
    /\ BitsRecordAccepted
    /\ NeverFreshTwice
    /\ \A n \in PacketNumbers : delivered[n] <= accepted[n]
    /\ \A n \in PacketNumbers : delivered[n] > 0 => n \in net
    /\ \A n \in net : n < m_sendCounter
=============================================================================
