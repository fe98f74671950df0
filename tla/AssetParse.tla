----------------------------- MODULE AssetParse -----------------------------
(***************************************************************************)
(* The readers of asset files: CmoParse.h (meshes), DdsParse.h (textures)  *)
(* and WavParse.h (clips), with the loaders that upload what they return,  *)
(* and the bone sampling of CmoAnimation.h.  A file is a sequence of       *)
(* words; structures have small sizes in words, a count is one word.  A    *)
(* file may have been cut short and one word of it may be wrong.           *)
(***************************************************************************)
EXTENDS Integers, SequencesExt

CONSTANTS SANE,        \* CMO_SANE_COUNT_LIMIT
          MATERIAL, SUBMESH, VERTEX, SKIN, EXTENTS, BONE, KEYFRAME, TEXTURES,   \* CMO_*_SIZE
          W32,         \* 2^32
          MAX_DIM,     \* the widest texture Direct3D creates
          HEADER, DXT10,
          AssetInputs  \* what is parsed: see Next

VARIABLES asset, parsed
assetVars == << asset, parsed >>

-----------------------------------------------------------------------------
(***************************************************************************)
(* CMO.  The cursor: pos words read, st "ok", "Truncated" or "TooLarge";   *)
(* counts and spans are what the caller keeps.                             *)
(***************************************************************************)
\* Mutant: one word past the end is let through.
EnsureOneShort(file, c, n) == c.st = "ok" /\ c.pos + n <= Len(file) + 1

\* CmoCursor::ensure
Ensure(file, c, n) == c.st = "ok" /\ c.pos + n <= Len(file)

Skip(file, c, n) ==
    IF Ensure(file, c, n) THEN [c EXCEPT !.pos = @ + n]
    ELSE IF c.st = "ok" THEN [c EXCEPT !.st = "Truncated"] ELSE c

\* readU32: zero once the cursor has overrun.
ReadU32(file, c) == IF Ensure(file, c, 1) THEN (IF c.pos < Len(file) THEN file[c.pos + 1] ELSE 0) ELSE 0

\* The layout of a file as a grammar: fixed structures, names, counted bodies,
\* spans handed out, and the skeleton that only a flagged mesh has.
Fixed(n) == [k |-> "fixed", n |-> n, body |-> << >>]
Name == [k |-> "name", n |-> 0, body |-> << >>]
Flag == [k |-> "flag", n |-> 0, body |-> << >>]
Counted(body) == [k |-> "counted", n |-> 0, body |-> body]
SpanOf(kind, size) == [k |-> kind, n |-> size, body |-> << >>]
IfFlag(body) == [k |-> "ifflag", n |-> 0, body |-> body]

Mesh ==
    << Name,
       Counted(<< Name, Fixed(MATERIAL), Name >> \o [i \in 1 .. TEXTURES |-> Name]),
       Flag,
       Counted(<< Fixed(SUBMESH) >>),
       Counted(<< SpanOf("index", 1) >>),
       Counted(<< SpanOf("vertex", VERTEX) >>),
       Counted(<< Counted(<< Fixed(SKIN) >>) >>),
       Fixed(EXTENTS),
       IfFlag(<< Counted(<< Name, Fixed(BONE) >>), Counted(<< Name, Fixed(2), Counted(<< Fixed(KEYFRAME) >>) >>) >>) >>

RECURSIVE Walk(_, _, _), Repeat(_, _, _, _)
\* The body, n times while the cursor is good.
Repeat(file, c, body, n) ==
    IF n = 0 \/ c.st # "ok" THEN c ELSE Repeat(file, Walk(file, c, body), body, n - 1)

\* parseCmo's reads of one structure, in order.
Walk(file, c, g) ==
    IF g = << >> \/ c.st # "ok" THEN c
    ELSE LET f == Head(g)
             n == ReadU32(file, c)
             after == Skip(file, c, 1)
             step ==
                 CASE f.k = "fixed" -> Skip(file, c, f.n)
                   [] f.k = "name" -> Skip(file, after, n)
                   [] f.k = "flag" -> [after EXCEPT !.flag = (n # 0)]
                   [] f.k = "counted" -> IF after.st = "ok" /\ n > SANE THEN [after EXCEPT !.st = "TooLarge"]
                                         ELSE Repeat(file, after, f.body, n)
                   [] f.k \in {"index", "vertex"} ->
                                      IF after.st = "ok" /\ n > SANE THEN [after EXCEPT !.st = "TooLarge"]
                                      ELSE LET done == Skip(file, after, n * f.n)
                                           IN  IF done.st = "ok"
                                               THEN [done EXCEPT !.spans = Append(@, [kind |-> f.k, at |-> after.pos, size |-> n * f.n])] ELSE done
                   [] f.k = "ifflag" -> IF c.flag THEN Walk(file, c, f.body) ELSE c
         IN  Walk(file, step, Tail(g))

Cursor == [pos |-> 0, st |-> "ok", flag |-> FALSE, spans |-> << >>]

\* parseCmo: a count of meshes.
ParseCmo(file) == Walk(file, Cursor, << Counted(Mesh) >>)

\* A well-formed file of one mesh, from its counts.
NameWords(n) == << n >> \o [i \in 1 .. n |-> 0]
Body(n) == [i \in 1 .. n |-> 0]
CmoFile(m) ==
    << 1 >> \o NameWords(m.name)
    \o << m.materials >> \o FlattenSeq([i \in 1 .. m.materials |->
            NameWords(m.name) \o Body(MATERIAL) \o NameWords(0) \o FlattenSeq([t \in 1 .. TEXTURES |-> NameWords(1)])])
    \o << IF m.bones > 0 THEN 1 ELSE 0 >>
    \o << m.submeshes >> \o Body(m.submeshes * SUBMESH)
    \o << 1, m.indices >> \o Body(m.indices)
    \o << 1, m.vertices >> \o Body(m.vertices * VERTEX)
    \o (IF m.bones > 0 THEN << 1, m.vertices >> \o Body(m.vertices * SKIN) ELSE << 0 >>)
    \o Body(EXTENTS)
    \o (IF m.bones = 0 THEN << >>
        ELSE << m.bones >> \o FlattenSeq([i \in 1 .. m.bones |-> NameWords(1) \o Body(BONE)])
             \o << 1 >> \o NameWords(1) \o Body(2) \o << m.keys >> \o Body(m.keys * KEYFRAME))

\* CmoLoader::Load: the first index and vertex buffers, unless one is missing.
LoadMesh(c) ==
    LET kept(k) == SelectSeq(c.spans, LAMBDA s : s.kind = k)
    IN  IF c.st # "ok" \/ kept("index") = << >> \/ kept("vertex") = << >> THEN << >>
        ELSE IF kept("index")[1].size = 0 \/ kept("vertex")[1].size = 0 THEN << >>
        ELSE << kept("index")[1], kept("vertex")[1] >>

-----------------------------------------------------------------------------
(***************************************************************************)
(* DDS.  A header and the size of the file in bytes.                       *)
(***************************************************************************)
Formats == {"BC1", "BC4", "BC2", "BC3", "BC5", "BC6H", "BC7", "BGRA", "RGBA"}
Blocks == Formats \ {"BGRA", "RGBA"}

\* parseDds: the pixel format comes from the header (a four-character code or
\* colour masks) or from the DXT10 extension, which moves the pixels.
ParseDds(d) ==
    CASE d.size < HEADER -> [st |-> IF d.magic /\ d.size >= 4 THEN "Truncated" ELSE "NotDds", offset |-> 0]
      [] d.size >= HEADER /\ ~d.magic -> [st |-> "NotDds", offset |-> 0]
      [] d.size >= HEADER /\ d.magic /\ (d.width = 0 \/ d.height = 0) -> [st |-> "BadDimensions", offset |-> 0]
      [] OTHER ->
            IF d.dx10 /\ d.size < HEADER + DXT10 THEN [st |-> "Truncated", offset |-> 0]
            ELSE IF d.format \notin Formats \/ (~d.dx10 /\ d.format \in {"BC6H", "BC7"})
                 THEN [st |-> "UnsupportedFormat", offset |-> 0]
            ELSE [st |-> "Ok", offset |-> IF d.dx10 THEN HEADER + DXT10 ELSE HEADER]

BcBlockBytes(format) == IF format \in {"BC1", "BC4"} THEN 8 ELSE 16
AtLeastOne(n) == IF n = 0 THEN 1 ELSE n

\* The bytes of one mip level; the row pitch is a 32-bit product.
RowPitch(format, w) ==
    IF format \in Blocks THEN ((((w + 3) % W32) \div 4) * BcBlockBytes(format)) % W32 ELSE (w * 4) % W32
NumRows(format, h) == IF format \in Blocks THEN ((h + 3) % W32) \div 4 ELSE h

RECURSIVE Enumerate(_, _, _, _, _)
\* enumerateDdsSubresources from mip level to mip level.
Enumerate(d, offset, w, h, left) ==
    IF left = 0 THEN [ok |-> TRUE, subs |-> << >>]
    ELSE LET mw == AtLeastOne(w)
             mh == AtLeastOne(h)
             size == RowPitch(d.format, mw) * NumRows(d.format, mh)
             rest == Enumerate(d, offset + size, AtLeastOne(mw \div 2), AtLeastOne(mh \div 2), left - 1)
         IN  IF offset + size > d.size THEN [ok |-> FALSE, subs |-> << >>]
             ELSE [rest EXCEPT !.subs = << [offset |-> offset, size |-> size, w |-> mw, h |-> mh] >> \o @]

\* DdsLoader::Load: the levels uploaded, none for a file that is refused.
LoadTexture(d) ==
    LET head == ParseDds(d)
        levels == Enumerate(d, head.offset, d.width, d.height, AtLeastOne(d.mips))
    IN  IF head.st # "Ok" \/ ~levels.ok THEN << >> ELSE levels.subs

-----------------------------------------------------------------------------
(***************************************************************************)
(* WAV.  Words: the magic, then chunks of a tag, a size and a body; FMT    *)
(* bodies start with the format tag and the sample width.                  *)
(***************************************************************************)
RIFF == 100
FMT == 101
DATA == 102
PCM16 == << 1, 16 >>

\* Where the next chunk starts: bodies of odd size are padded.
ChunkEnd(body, size) == body + size + (size % 2)

RECURSIVE WalkChunks(_, _, _)
\* parseWav's loop: acc has whether a format was seen and the data's span.
WalkChunks(file, pos, acc) ==
    IF pos + 2 > Len(file) THEN acc
    ELSE LET tag == file[pos + 1]
             size == file[pos + 2]
             body == pos + 2
             next == ChunkEnd(body, size)
         IN  IF body + size > Len(file) THEN [acc EXCEPT !.st = "Truncated"]
             ELSE IF tag = FMT /\ size < 2 THEN [acc EXCEPT !.st = "Truncated"]
             ELSE IF tag = FMT /\ SubSeq(file, body + 1, body + 2) # PCM16 THEN [acc EXCEPT !.st = "Unsupported"]
             ELSE WalkChunks(file, next,
                             CASE tag = FMT -> [acc EXCEPT !.fmt = TRUE]
                               [] tag = DATA -> [acc EXCEPT !.data = << [start |-> body, size |-> size] >>]
                               [] OTHER -> acc)

ParseWav(file) ==
    IF Len(file) < 1 \/ file[1] # RIFF THEN [st |-> "NotRiffWave", fmt |-> FALSE, data |-> << >>]
    ELSE LET acc == WalkChunks(file, 1, [st |-> "Ok", fmt |-> FALSE, data |-> << >>])
         IN  CASE acc.st # "Ok" -> acc
               [] acc.st = "Ok" /\ ~acc.fmt -> [acc EXCEPT !.st = "MissingFmt"]
               [] acc.st = "Ok" /\ acc.fmt /\ acc.data = << >> -> [acc EXCEPT !.st = "MissingData"]
               [] OTHER -> acc

\* A chunk as a writer pads it.
Chunk(tag, body) == << tag, Len(body) >> \o body \o (IF Len(body) % 2 = 1 THEN << 0 >> ELSE << >>)

-----------------------------------------------------------------------------
\* sampleBoneLocal: the keys before and after the time, of one bone, in any
\* order; 0 when there is none.
SampleBone(keys, bone, time) ==
    FoldLeft(LAMBDA acc, i :
                 IF keys[i].bone # bone THEN acc
                 ELSE [ prev |-> IF keys[i].time <= time /\ (acc.prev = 0 \/ keys[i].time > keys[acc.prev].time)
                                 THEN i ELSE acc.prev,
                        next |-> IF keys[i].time >= time /\ (acc.next = 0 \/ keys[i].time < keys[acc.next].time)
                                 THEN i ELSE acc.next ],
             [prev |-> 0, next |-> 0], [i \in DOMAIN keys |-> i])

\* computeSkinningPalette: the bones whose transforms a bone's world transform
\* is the product of, itself first.
WorldOf(parents) ==
    LET world[i \in DOMAIN parents] ==
            IF parents[i] >= 1 /\ parents[i] < i THEN << i >> \o world[parents[i]] ELSE << i >>
    IN  world

-----------------------------------------------------------------------------
\* One word of the file is wrong, and the file is cut.
Damaged(file, at, word, cut) ==
    SubSeq(IF at \in DOMAIN file THEN [file EXCEPT ![at] = word] ELSE file, 1, Len(file) - cut)

Parse(a) ==
    CASE a.kind = "cmo" -> ParseCmo(Damaged(CmoFile(a.mesh), a.at, a.word, a.cut))
      [] a.kind = "dds" -> [head |-> ParseDds(a.dds), subs |-> LoadTexture(a.dds)]
      [] a.kind = "wav" -> ParseWav(Damaged(a.file, a.at, a.word, a.cut))
      [] a.kind = "bones" -> [sample |-> SampleBone(a.keys, 1, a.time), world |-> WorldOf(a.parents)]

Init == asset \in AssetInputs /\ parsed = << >>
Next == parsed = << >> /\ parsed' = << Parse(asset) >> /\ UNCHANGED asset

Spec == Init /\ [][Next]_assetVars

Done(kind) == parsed # << >> /\ asset.kind = kind

(* A mesh file is read whole or not at all: undamaged it parses, a cut     *)
(* anywhere is refused, and what the loader uploads lies inside the file,  *)
(* whatever its counts say, and does not overlap.                          *)
MeshWholeOrRefused ==
    Done("cmo") =>
        LET len == Len(CmoFile(asset.mesh)) - asset.cut
            got == LoadMesh(parsed[1])
        IN  /\ (asset.at = 0 /\ asset.cut = 0) => parsed[1].st = "ok" /\ parsed[1].pos = len
            /\ (asset.at = 0 /\ asset.cut > 0) => parsed[1].st = "Truncated"
            /\ \A i \in DOMAIN got :
                 /\ got[i].at + got[i].size <= len
                 /\ \A j \in DOMAIN got : i < j => got[i].at + got[i].size <= got[j].at

(* The levels of an accepted texture follow each other inside the file,    *)
(* each with all the bytes its size needs, for every size Direct3D takes.  *)
LevelsInside ==
    (Done("dds") /\ asset.dds.width <= MAX_DIM /\ asset.dds.height <= MAX_DIM) =>
        LET subs == parsed[1].subs
            d == asset.dds
        IN  \A i \in DOMAIN subs :
                /\ subs[i].w >= 1 /\ subs[i].h >= 1
                /\ subs[i].size = (IF d.format \in Blocks
                                   THEN ((subs[i].w + 3) \div 4) * ((subs[i].h + 3) \div 4) * BcBlockBytes(d.format)
                                   ELSE 4 * subs[i].w * subs[i].h)
                /\ subs[i].size > 0 /\ subs[i].offset + subs[i].size <= d.size
                /\ i > 1 => subs[i].offset = subs[i - 1].offset + subs[i - 1].size

(* A clip is accepted only with samples that lie in the file; an undamaged *)
(* file is, whatever chunks of odd size stand between.                     *)
ClipInside ==
    Done("wav") =>
        /\ parsed[1].st = "Ok" => parsed[1].data[1].start + parsed[1].data[1].size <= Len(asset.file) - asset.cut
        /\ (asset.at = 0 /\ asset.cut = 0 /\ asset.good) =>
               /\ parsed[1].st = "Ok"
               /\ asset.file[parsed[1].data[1].start - 1] = DATA

(* A pose is taken between the nearest keys of the bone around the time,   *)
(* in whatever order the keys are stored, and a bone moves with every bone *)
(* above it, each once.                                                    *)
PoseBracketed ==
    Done("bones") =>
        LET s == parsed[1].sample
            mine == { i \in DOMAIN asset.keys : asset.keys[i].bone = 1 }
            t(i) == asset.keys[i].time
        IN  /\ \A i \in mine : t(i) <= asset.time => s.prev \in mine /\ t(i) <= t(s.prev) /\ t(s.prev) <= asset.time
            /\ \A i \in mine : t(i) >= asset.time => s.next \in mine /\ t(i) >= t(s.next) /\ t(s.next) >= asset.time
            /\ \A i \in DOMAIN asset.parents :
                 LET w == parsed[1].world[i]
                 IN  w[1] = i /\ \A j \in 1 .. Len(w) - 1 : asset.parents[w[j]] = w[j + 1] /\ w[j + 1] < w[j]

(* Whatever a file holds, a reader takes it whole or refuses it and stays  *)
(* inside it (CmoParse.h, DdsParse.h, WavParse.h, CmoAnimation.h).         *)
AssetsInv == MeshWholeOrRefused /\ LevelsInside /\ ClipInside /\ PoseBracketed
=============================================================================
