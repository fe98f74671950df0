-------------------------------- MODULE Wire --------------------------------
(* The wire formats: message framing (PacketCodec.h), handshake bodies     *)
(* (HandshakeMessages.h), the bit stream (BitStream.h, Serde.h) and on it  *)
(* delta snapshots (Snapshot.h) and fleet commands (Command.h).            *)
(* A state is one input; Decode runs the receiving side on it.  Bytes are  *)
(* whole; fields wider than a byte are cut to W16 and W32 bits, and a byte *)
(* of the framing counts in base BYTE, to keep the numbers small.  One     *)
(* axis stands for three.                                                  *)
EXTENDS Integers, Sequences, SequencesExt, FiniteSets, FiniteSetsExt

CONSTANTS
    BYTE,               \* values of a byte of the framing, 256
    W16, W32,           \* widths of the integers of the bit stream
    QBITS,              \* POS_QUANT_BITS_PER_AXIS, 20
    SECTOR_SIZE,        \* metres, 16384
    FRACTION,           \* parts of a metre the offset is measured in
    WireInputs          \* the inputs tried

VARIABLES
    input,      \* what is encoded, and how many bytes the network cut off
    decoded     \* [done, out]: out is << value >>, or << >> when refused

wireVars == << input, decoded >>

(***************************************************************************)
(* PacketCodec: little-endian integers and [channel][type][length][body]   *)
(***************************************************************************)
Put(v, n) == [i \in 1 .. n |-> (v \div BYTE ^ (i - 1)) % BYTE]
Get(b, off, n) == FoldFunctionOnSet(LAMBDA x, y : x + y, 0,
                    [i \in 0 .. n - 1 |-> b[off + i + 1] * BYTE ^ i], 0 .. n - 1)

WriteMessage(m) == << m.channel, m.type >> \o Put(Len(m.body), 2) \o m.body

WriteMessages(ms) == FlattenSeq([i \in 1 .. Len(ms) |-> WriteMessage(ms[i])])

Refused == << >>

\* The messages from an offset on; none of them if one does not fit.
ReadMessages(payload) ==
    LET ReadFrom[off \in 0 .. Len(payload)] ==
            IF off = Len(payload) THEN << << >> >>
            ELSE IF off + 4 > Len(payload) THEN Refused
            ELSE LET end == off + 4 + Get(payload, off + 2, 2) IN
                 IF end > Len(payload) \/ ReadFrom[end] = Refused THEN Refused
                 ELSE << << [channel |-> payload[off + 1], type |-> payload[off + 2],
                             body |-> SubSeq(payload, off + 5, end)] >> \o ReadFrom[end][1] >>
    IN  ReadFrom[0]

(***************************************************************************)
(* HandshakeMessages: bodies of fixed fields, by their sizes in bytes      *)
(***************************************************************************)
COOKIE_BYTES == 32
EC_PUB_KEY_BYTES == 64
EC_SIG_BYTES == 64
DILATION_BYTES == 4
NAME_BYTES == 3         \* of the user name in a login request

\* The least body each Decode accepts.
Needed(kind) ==
    CASE kind = "ClientHello" -> 4
      [] kind = "Cookie" -> COOKIE_BYTES
      [] kind = "CookieResponse" -> COOKIE_BYTES + EC_PUB_KEY_BYTES
      [] kind = "HandshakeResponse" -> EC_PUB_KEY_BYTES + EC_SIG_BYTES + 8 + 4
      [] kind = "ClockSync" -> 8 + 8
      [] kind = "LoginRequest" -> 2 + NAME_BYTES
      [] kind = "LoginResponse" -> 1 + 1 + 8 + 4

\* What Encode produces, ClockSync with its dilation factor.
Encoded(kind) ==
    CASE kind = "ClientHello" -> 4
      [] kind = "Cookie" -> COOKIE_BYTES
      [] kind = "CookieResponse" -> COOKIE_BYTES + EC_PUB_KEY_BYTES
      [] kind = "HandshakeResponse" -> EC_PUB_KEY_BYTES + EC_SIG_BYTES + 8 + 4
      [] kind = "ClockSync" -> 8 + 8 + DILATION_BYTES
      [] kind = "LoginRequest" -> 2 + NAME_BYTES
      [] kind = "LoginResponse" -> 1 + 1 + 8 + 4

DecodeBody(kind, bytes) ==
    IF bytes < Needed(kind) THEN Refused
    ELSE << IF kind = "ClockSync" /\ bytes >= Needed(kind) + DILATION_BYTES
            THEN "dilation carried" ELSE "full speed" >>

(***************************************************************************)
(* BitStream: most significant bit first, whole bytes, zero padded         *)
(***************************************************************************)
Bits(v, w) == [i \in 1 .. w |-> (v \div 2 ^ (w - i)) % 2]
Unsigned(bits) == FoldLeft(LAMBDA acc, b : 2 * acc + b, 0, bits)
Flush(bits) == bits \o [i \in 1 .. (8 - (Len(bits) % 8)) % 8 |-> 0]

\* BitWriter::Write as the code does it, a chunk of the byte at a time: the
\* bytes written so far and the bits free in the last one.
WriteChunk(w, value) ==
    LET fresh == w.free = 0
        buf == IF fresh THEN Append(w.buf, 0) ELSE w.buf
        free == IF fresh THEN 8 ELSE w.free
        chunk == Min({w.bitsLeft, free})
        part == (((value % 2 ^ w.bitsLeft) \div 2 ^ (w.bitsLeft - chunk)) * 2 ^ (free - chunk)) % 256
    IN  [buf |-> [buf EXCEPT ![Len(buf)] = @ + part], free |-> free - chunk,
         bitsLeft |-> w.bitsLeft - chunk]

BitWriterWrite(w, value, bits) ==
    LET After[n \in 0 .. bits] ==      \* n chunks, or all there are
            IF n = 0 THEN [buf |-> w.buf, free |-> w.free, bitsLeft |-> bits]
            ELSE IF After[n - 1].bitsLeft = 0 THEN After[n - 1] ELSE WriteChunk(After[n - 1], value)
    IN  [buf |-> After[bits].buf, free |-> After[bits].free]

ReaderOf(bits) == [data |-> bits, pos |-> 0, good |-> TRUE]

\* BitReader::Read: too few bits left is an error that stays.
Read(r, w) ==
    IF ~r.good \/ r.pos + w > Len(r.data)
    THEN [r |-> [r EXCEPT !.good = FALSE], v |-> 0]
    ELSE [r |-> [r EXCEPT !.pos = @ + w], v |-> Unsigned(SubSeq(r.data, r.pos + 1, r.pos + w))]

VERSION == 1
WriteBuffer == Bits(VERSION, W32)
ReadBuffer(data) ==
    LET x == Read(ReaderOf(data), W32) IN
    IF x.v = VERSION THEN x.r ELSE [x.r EXCEPT !.good = FALSE]

(***************************************************************************)
(* Snapshot: masked records                                                *)
(***************************************************************************)
DeltaFlags == << "pos", "sector", "hp", "shapeId", "ownerPlayer", "kind", "unused", "tomb" >>
MaskByte(mask) == SumSet({ 2 ^ (i - 1) : i \in { j \in 1 .. 8 : DeltaFlags[j] \in mask } })
MaskOf(v) == { DeltaFlags[i] : i \in { j \in 1 .. 8 : (v \div 2 ^ (j - 1)) % 2 = 1 } }
DeltaFields == {"sector", "pos", "hp", "shapeId", "ownerPlayer", "kind"}

ZigZag32(v) == IF v >= 0 THEN 2 * v ELSE 0 - 2 * v - 1
UnZigZag32(u) == IF u % 2 = 0 THEN u \div 2 ELSE 0 - (u + 1) \div 2
Signed(u, w) == IF u >= 2 ^ (w - 1) THEN u - 2 ^ w ELSE u

Width(field) ==
    CASE field \in {"sector", "hp", "ownerPlayer"} -> W32
      [] field = "pos" -> QBITS
      [] field = "shapeId" -> W16
      [] field = "kind" -> 8

ToWire(field, v) ==
    CASE field = "sector" -> ZigZag32(v) [] field = "hp" -> v % 2 ^ W32 [] OTHER -> v
FromWire(field, u) ==
    CASE field = "sector" -> UnZigZag32(u) [] field = "hp" -> Signed(u, W32) [] OTHER -> u

WriteOrder == << "sector", "pos", "hp", "shapeId", "ownerPlayer", "kind" >>

ReadOrder == << "sector", "pos", "hp", "shapeId", "ownerPlayer", "kind" >>

Quantize(local) ==      \* local in parts of a metre; rounded to the nearest step
    LET span == SECTOR_SIZE * FRACTION
        clamped == IF local < 0 THEN 0 ELSE IF local >= span THEN span ELSE local
    IN  Min({(2 * clamped * 2 ^ QBITS + span) \div (2 * span), 2 ^ QBITS - 1})
Dequantize(q) == (q * SECTOR_SIZE * FRACTION) \div 2 ^ QBITS

SectorOf(at) == at \div (SECTOR_SIZE * FRACTION)
LocalOf(at) == at - SectorOf(at) * SECTOR_SIZE * FRACTION

State(e) == [sector |-> SectorOf(e.at), pos |-> Quantize(LocalOf(e.at)), hp |-> e.hp,
             shapeId |-> e.shapeId, ownerPlayer |-> e.ownerPlayer, kind |-> e.kind]

\* Mutant: a crossing does not send the position again.
ReanchorNever(changed) == changed

Reanchor(changed) == changed \cup (IF "sector" \in changed THEN {"pos"} ELSE {})

\* base is << entity >>, or << >> when the client has none.
MakeDeltaRecord(cur, base) ==
    [mask |-> IF base = << >> THEN DeltaFields
              ELSE Reanchor({ f \in DeltaFields : State(cur)[f] # State(base[1])[f] }),
     netId |-> cur.netId] @@ State(cur)

DeltaRecordBits(r) ==
    W32 + 8 + IF "tomb" \in r.mask THEN 0 ELSE MapThenSumSet(Width, r.mask)

WriteDeltaRecord(r) ==
    Bits(r.netId, W32) \o Bits(MaskByte(r.mask), 8) \o
    IF "tomb" \in r.mask THEN << >>
    ELSE FlattenSeq([i \in 1 .. 6 |->
            IF WriteOrder[i] \in r.mask
            THEN Bits(ToWire(WriteOrder[i], r[WriteOrder[i]]), Width(WriteOrder[i])) ELSE << >>])

EncodeDeltaSnapshot(snap) ==
    Flush(WriteBuffer \o Bits(snap.tick, W32) \o Bits(Len(snap.records), W16)
          \o FlattenSeq([i \in 1 .. Len(snap.records) |-> WriteDeltaRecord(snap.records[i])]))

ReadDeltaRecord(r0) ==
    LET id == Read(r0, W32)
        flags == Read(id.r, 8)
        mask == MaskOf(flags.v)
        start == [r |-> flags.r, rec |-> [mask |-> mask, netId |-> id.v]]
        Take(acc, f) ==
            IF f \notin mask THEN acc
            ELSE LET x == Read(acc.r, Width(f)) IN
                 [r |-> x.r, rec |-> (f :> FromWire(f, x.v)) @@ acc.rec]
    IN  IF ~flags.r.good \/ "tomb" \in mask THEN start ELSE FoldLeft(Take, start, ReadOrder)

\* count records, up to the first that does not fit.
ReadRecords(r, count) ==
    LET After[n \in 0 .. count] ==
            IF n = 0 THEN [r |-> r, out |-> << >>]
            ELSE IF ~After[n - 1].r.good THEN After[n - 1]
            ELSE LET x == ReadDeltaRecord(After[n - 1].r)
                 IN  [r |-> x.r, out |-> Append(After[n - 1].out, x.rec)]
    IN  IF After[count].r.good THEN << After[count].out >> ELSE Refused

DecodeDeltaSnapshot(data) ==
    LET rb == ReadBuffer(data)
        tick == Read(rb, W32)
        count == Read(tick.r, W16)
        records == ReadRecords(count.r, count.v)
    IN  IF ~rb.good \/ records = Refused THEN Refused
        ELSE << [tick |-> tick.v, records |-> records[1]] >>

HeaderBits == W32 + W32 + W16

Fits(bits, r, budget) == (bits + DeltaRecordBits(r) + 7) \div 8 <= budget

\* The prefix of the changed records that fits; the rest spills over.
BuildBudgetedSnapshot(tick, ordered, budget) ==
    LET changed == SelectSeq(ordered, LAMBDA r : r.mask # {})
        Used(n) == HeaderBits + FoldLeft(LAMBDA acc, r : acc + DeltaRecordBits(r), 0, SubSeq(changed, 1, n))
        kept == Max({ n \in 0 .. Len(changed) : \A k \in 1 .. n : Fits(Used(k - 1), changed[k], budget) })
    IN  [snap |-> [tick |-> tick, records |-> SubSeq(changed, 1, kept)],
         overflow |-> [i \in 1 .. Len(changed) - kept |-> changed[kept + i].netId]]

\* DeltaDecodeState::ApplyRecord on what the client holds of the entity.
ApplyRecord(e, r) ==
    LET from == IF e = << >>
                THEN [at |-> 0, hp |-> 0, shapeId |-> 2 ^ W16 - 1, ownerPlayer |-> 0, kind |-> 0]
                ELSE e[1]
        sector == IF "sector" \in r.mask THEN r.sector ELSE SectorOf(from.at)
        Field(f) == IF f \in r.mask THEN r[f] ELSE from[f]
    IN  [netId |-> r.netId, hp |-> Field("hp"), shapeId |-> Field("shapeId"),
         ownerPlayer |-> Field("ownerPlayer"), kind |-> Field("kind"),
         at |-> IF "pos" \in r.mask THEN sector * SECTOR_SIZE * FRACTION + Dequantize(r.pos) ELSE from.at]

(***************************************************************************)
(* Command: a fleet command                                                *)
(***************************************************************************)
EncodeFleetCommand(c) ==
    LET head == WriteBuffer \o Bits(VERSION, 8) \o Bits(c.clientTick, W32) \o Bits(c.intent, 8)
                \o Bits(IF c.queue THEN 1 ELSE 0, 8) \o Bits(Len(c.units), W16)
                \o FlattenSeq([i \in 1 .. Len(c.units) |-> Bits(c.units[i], W32)])
                \o Bits(c.targetNetId, W32) \o Bits(c.point % 2 ^ W32, W32) \o Bits(c.range, W32)
                \o Bits(Len(c.beacon), W16)
    IN  Flush(Flush(head) \o FlattenSeq([i \in 1 .. Len(c.beacon) |-> Bits(c.beacon[i], 8)]))

Align(r) == [r EXCEPT !.pos = @ + ((8 - (@ % 8)) % 8)]

ReadMany(r, count, w) ==
    LET After[n \in 0 .. count] ==
            IF n = 0 THEN [r |-> r, v |-> << >>]
            ELSE LET x == Read(After[n - 1].r, w) IN [r |-> x.r, v |-> Append(After[n - 1].v, x.v)]
    IN  After[count]

DecodeFleetCommand(body) ==
    LET rb == ReadBuffer(body)      version == Read(rb, 8)
        tick == Read(version.r, W32)  intent == Read(tick.r, 8)
        queue == Read(intent.r, 8)  n == Read(queue.r, W16)
        units == ReadMany(n.r, n.v, W32)
        target == Read(units.r, W32)  point == Read(target.r, W32)
        range == Read(point.r, W32)   blen == Read(range.r, W16)
        beacon == ReadMany(IF blen.v > 0 THEN Align(blen.r) ELSE blen.r, blen.v, 8)
    IN  IF ~rb.good \/ version.v # VERSION \/ ~beacon.r.good THEN Refused
        ELSE <<[clientTick |-> tick.v, intent |-> intent.v, queue |-> queue.v # 0, units |-> units.v,
              targetNetId |-> target.v, point |-> Signed(point.v, W32), range |-> range.v,
              beacon |-> beacon.v]>>

(***************************************************************************)
(* One input, sent, cut short by input.cut bytes, and decoded              *)
(***************************************************************************)
Init == input \in WireInputs /\ decoded = [done |-> FALSE, out |-> << >>]

Uncut(bits, n) == SubSeq(bits, 1, Len(bits) - n)

Received(in) ==
    CASE in.kind = "frames" -> ReadMessages(Uncut(WriteMessages(in.messages), in.cut))
      [] in.kind = "body" -> DecodeBody(in.body, Encoded(in.body) - in.cut)
      [] in.kind = "snapshot" -> DecodeDeltaSnapshot(Uncut(EncodeDeltaSnapshot(in.snap), 8 * in.cut))
      [] in.kind = "command" -> DecodeFleetCommand(Uncut(EncodeFleetCommand(in.command), 8 * in.cut))
      [] in.kind = "delta" -> << ApplyRecord(in.base, MakeDeltaRecord(in.cur, in.base)) >>
      [] in.kind = "budget" -> << BuildBudgetedSnapshot(1, in.records, in.budget) >>
      [] in.kind = "bits" ->
            << BitWriterWrite(BitWriterWrite([buf |-> << >>, free |-> 0], in.v, in.w), in.v2, in.w2) >>

Decode == ~decoded.done /\ decoded' = [done |-> TRUE, out |-> Received(input)] /\ UNCHANGED input

Next == Decode

(***************************************************************************)
(* Properties                                                              *)
(***************************************************************************)
Is(kind) == input.kind = kind /\ decoded.done

Value == decoded.out[1]
IsRefused == decoded.out = Refused

OnWire(r) == [f \in {"mask", "netId"} \cup (IF "tomb" \in r.mask THEN {} ELSE r.mask) |-> r[f]]

(* What is sent whole is read back as it was: frames, fleet commands and   *)
(* snapshots with any mix of changed fields, negative sectors and hull     *)
(* points, and tombstones.                                                 *)
RoundTrips ==
    decoded.done /\ input.kind \in {"frames", "snapshot", "command"} /\ input.cut = 0 =>
        CASE input.kind = "frames" -> decoded.out = << input.messages >>
          [] input.kind = "snapshot" ->
                /\ ~IsRefused /\ Value.tick = input.snap.tick
                /\ Value.records = [i \in 1 .. Len(input.snap.records) |-> OnWire(input.snap.records[i])]
          [] input.kind = "command" -> decoded.out = << input.command >>

(* What arrives cut short is refused, or, for frames cut between two       *)
(* messages, read as far as it goes: nothing is ever made up.              *)
CutIsRefused ==
    decoded.done /\ input.kind \in {"frames", "snapshot", "command"} /\ input.cut > 0 =>
        IsRefused \/ (input.kind = "frames" /\ IsPrefix(Value, input.messages))

(* Every handshake body decodes from what its own Encode wrote, also the   *)
(* clock sync of a peer that predates its dilation field, as full speed.   *)
BodiesDecode ==
    Is("body") =>
        IF input.cut = 0 THEN ~IsRefused
        ELSE IF input.body = "ClockSync" /\ input.cut = DILATION_BYTES
             THEN decoded.out = << "full speed" >>
             ELSE input.body = "ClockSync" \/ IsRefused

(* A delta against what the client holds brings it to the server's state,  *)
(* position within one quantum, across sector borders too.                 *)
DeltaReaches ==
    Is("delta") =>
        LET d == Value.at - input.cur.at
            quantum == (SECTOR_SIZE * FRACTION) \div 2 ^ QBITS + 1
        IN  /\ [Value EXCEPT !.at = 0] = [input.cur EXCEPT !.at = 0]
            /\ d <= quantum /\ 0 - d <= quantum
            /\ SectorOf(Value.at) = SectorOf(input.cur.at)

(* A budgeted snapshot never exceeds its bytes on the wire, and every      *)
(* changed record is in it or in the overflow, in order.                   *)
BudgetHolds ==
    Is("budget") =>
        /\ Len(EncodeDeltaSnapshot(Value.snap)) <= 8 * Max({input.budget, (HeaderBits + 7) \div 8})
        /\ [i \in 1 .. Len(Value.snap.records) |-> Value.snap.records[i].netId] \o Value.overflow
             = LET changed == SelectSeq(input.records, LAMBDA r : r.mask # {})
               IN  [i \in 1 .. Len(changed) |-> changed[i].netId]

(* BitWriter's chunks put into the buffer exactly the bits of the values,  *)
(* one after the other.                                                    *)
BitsAsWritten ==
    Is("bits") =>
        FlattenSeq([i \in 1 .. Len(Value.buf) |-> Bits(Value.buf[i], 8)])
            = Flush(Bits(input.v, input.w) \o Bits(input.v2, input.w2))

(* Every codec reads back what it wrote, refuses what was cut, and keeps   *)
(* its budget (PacketCodec.h, HandshakeMessages.h, Snapshot.h, Command.h,  *)
(* BitStream.h).                                                           *)
WireFaithful ==
    RoundTrips /\ CutIsRefused /\ BodiesDecode /\ DeltaReaches /\ BudgetHolds /\ BitsAsWritten
=============================================================================
