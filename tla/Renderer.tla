------------------------------ MODULE Renderer ------------------------------
(***************************************************************************)
(* The renderer.  First the frames in flight: DeviceResources.cpp (one     *)
(* command allocator, one fence value and one back buffer per slot),       *)
(* PostProcess.cpp (the HDR and bloom targets and their tracked resource   *)
(* states) and App::ApplyResize.  The renderers write the upload buffer of *)
(* the slot being recorded, so slots stand for those too.  The processor   *)
(* records command lists, the graphics queue executes them later, in       *)
(* order: `queue` holds what it has not finished.                          *)
(*                                                                         *)
(* Then what a frame draws: CanvasRenderer.cpp gathers vertices into       *)
(* batches of one mode and texture, ParticleRenderer.cpp keeps a pool of   *)
(* emitter particles with a rolling cursor, and SceneRenderer.cpp sorts    *)
(* the entities of the snapshot by shape and draws them in runs.  A vertex *)
(* is the batch key it was meant for; a particle is the number of its      *)
(* spawning.                                                               *)
(***************************************************************************)
EXTENDS Naturals, SequencesExt

CONSTANTS FRAME_COUNT,
          Sizes,         \* client areas the window takes; 0 is minimised
          MAX_FENCE,     \* bound: fence values given out
          MAX_RESIZES    \* bound: WM_SIZE messages

ASSUME RingAssumption ==
    FRAME_COUNT \in Nat \ {0} /\ MAX_FENCE \in Nat /\ MAX_RESIZES \in Nat

VARIABLES m_frameIndex, m_fenceValues, m_nextFenceValue,
          m_completed,   \* the fence's completed value
          recording,     \* between BeginFrame and EndFrame
          commands,      \* the list being recorded
          queue,         \* lists submitted and not finished
          actual,        \* the state each resource has on the queue's side
          tracked,       \* Target::state, what PostProcess believes
          m_ready,       \* PostProcess; App's m_bloom is what it was at start
          bloom,
          size, backGen, targetGen,   \* generations of the back buffers and of the targets
          resizes,
          sameSize,      \* history: a WM_SIZE without a change recreated the targets
          postFailed     \* history: the targets could not be recreated

ringVars == << m_frameIndex, m_fenceValues, m_nextFenceValue, m_completed, recording, commands, queue, actual,
               tracked, m_ready, bloom, size, backGen, targetGen, resizes, sameSize, postFailed >>

Slots == 0 .. FRAME_COUNT - 1
Hdr == << "hdr", 0 >>
BloomA == << "bloomA", 0 >>
BloomB == << "bloomB", 0 >>
Targets == {Hdr, BloomA, BloomB}
Back(s) == << "back", s >>
Resources == Targets \cup { Back(s) : s \in Slots }

Barrier(res, before, after) == [op |-> "barrier", into |-> res, reads |-> {}, before |-> before, after |-> after]
Draw(into, reads, format) == [op |-> "draw", into |-> into, reads |-> reads, before |-> format, after |-> format]

\* DeviceResources::Initialize and PostProcess::Initialize; the swap chain's
\* first buffer is current.
RingInit ==
    /\ m_frameIndex = 0
    /\ m_fenceValues = [s \in Slots |-> 0] /\ m_nextFenceValue = 1 /\ m_completed = 0
    /\ recording = FALSE /\ commands = << >> /\ queue = << >>
    /\ tracked = [t \in Targets |-> "COMMON"]
    /\ actual = [r \in Resources |-> IF r \in Targets THEN "COMMON" ELSE "PRESENT"]
    /\ bloom \in BOOLEAN /\ m_ready = bloom
    /\ size = 1 /\ backGen = 0 /\ targetGen = 0 /\ resizes = 0
    /\ sameSize = FALSE /\ postFailed = FALSE

-----------------------------------------------------------------------------
\* BeginFrame: waits for the slot's last list, then reuses its allocator and
\* reads its timestamps; the back buffer becomes a render target and is cleared.
BeginFrame ==
    /\ ~recording /\ m_nextFenceValue < MAX_FENCE
    /\ m_completed >= m_fenceValues[m_frameIndex]
    /\ recording' = TRUE
    /\ commands' = << Barrier(Back(m_frameIndex), "PRESENT", "TARGET"), Draw(Back(m_frameIndex), {}, "clear") >>
    /\ UNCHANGED << m_frameIndex, m_fenceValues, m_nextFenceValue, m_completed, queue, actual, tracked, m_ready,
                    bloom, size, backGen, targetGen, resizes, sameSize, postFailed >>

-----------------------------------------------------------------------------
\* PostProcess::Barrier: nothing when the tracked state is the one wanted.
To(acc, t, state) ==
    IF acc.tracked[t] = state THEN acc
    ELSE [ cl |-> Append(acc.cl, Barrier(t, acc.tracked[t], state)), tracked |-> [acc.tracked EXCEPT ![t] = state] ]
Drawn(acc, into, reads, format) == [acc EXCEPT !.cl = Append(@, Draw(into, reads, format))]

\* DrawFullscreen; both shader inputs are bound on every pass.
DrawFullscreen(acc, dst, src, src2) == Drawn(To(acc, dst, "TARGET"), dst, {src, src2}, "hdr")

\* BeginScene, SceneRenderer and ParticleRenderer with the pipelines chosen at
\* start (m_bloom), and without targets nothing is bound but the back buffer.
BeginScene(acc) ==
    IF m_ready THEN Drawn(To(acc, Hdr, "TARGET"), Hdr, {}, "hdr")
    ELSE Drawn(acc, Back(m_frameIndex), {}, IF bloom THEN "hdr" ELSE "ldr")

\* Resolve: the bright pass, the two blurs, the composite.
Resolve(acc) ==
    LET a == DrawFullscreen(To(acc, Hdr, "SHADER"), BloomA, Hdr, Hdr)
        b == DrawFullscreen(To(a, BloomA, "SHADER"), BloomB, BloomA, Hdr)
        c == DrawFullscreen(To(b, BloomB, "SHADER"), BloomA, BloomB, Hdr)
    IN  Drawn(To(c, BloomA, "SHADER"), Back(m_frameIndex), {Hdr, BloomA}, "ldr")

\* Mutant: the value before the one signalled is remembered.
EndFrameStoreBefore(slot) == m_fenceValues' = [m_fenceValues EXCEPT ![slot] = m_nextFenceValue - 1]
EndFrameStore(slot) == m_fenceValues' = [m_fenceValues EXCEPT ![slot] = m_nextFenceValue]

\* The scene, the bloom, the canvas (which always draws in the back buffer's
\* format) and EndFrame: the list is submitted, presented and its slot's fence
\* value taken; the next back buffer is current.
RenderAndEndFrame ==
    /\ recording
    /\ LET scene == BeginScene([cl |-> commands, tracked |-> tracked])
           post == IF m_ready THEN Resolve(scene) ELSE scene
           canvas == Drawn(post, Back(m_frameIndex), {}, "ldr")
           list == Append(canvas.cl, Barrier(Back(m_frameIndex), "TARGET", "PRESENT"))
           next == (m_frameIndex + 1) % FRAME_COUNT
       IN  /\ tracked' = canvas.tracked
           /\ queue' = Append(queue, [ slot |-> m_frameIndex, value |-> m_nextFenceValue, cl |-> list,
                                       back |-> backGen, target |-> targetGen, post |-> m_ready ])
           /\ EndFrameStore(m_frameIndex)
           /\ m_frameIndex' = next
    /\ m_nextFenceValue' = m_nextFenceValue + 1
    /\ recording' = FALSE /\ commands' = << >>
    /\ UNCHANGED << m_completed, actual, m_ready, bloom, size, backGen, targetGen, resizes, sameSize, postFailed >>

\* A list leaves a resource in the state of its last barrier.
Barriers(cl, r) == { i \in DOMAIN cl : cl[i].op = "barrier" /\ cl[i].into = r }
Executed(states, cl) ==
    [r \in Resources |->
        IF Barriers(cl, r) = {} THEN states[r] ELSE cl[Max(Barriers(cl, r))].after]

\* The queue finishes its oldest list and the Signal behind it.
GpuFinishes ==
    /\ queue # << >>
    /\ actual' = Executed(actual, Head(queue).cl)
    /\ m_completed' = Head(queue).value
    /\ queue' = Tail(queue)
    /\ UNCHANGED << m_frameIndex, m_fenceValues, m_nextFenceValue, recording, commands, tracked, m_ready, bloom, size,
                    backGen, targetGen, resizes, sameSize, postFailed >>

-----------------------------------------------------------------------------
\* DeviceResources::Resize after its WaitForGpu, with CreateRenderTargetViews
\* and CreateDepthStencil: every slot starts again, its fence value forgotten.
Resize(w) ==
    /\ queue = << >>
    /\ m_completed' = m_nextFenceValue
    /\ m_nextFenceValue' = m_nextFenceValue + 1
    /\ backGen' = backGen + 1
    /\ m_fenceValues' = [s \in Slots |-> 0]
    /\ m_frameIndex' \in Slots

\* CreateTargets: new resources, in the state they are created in.
CreateTargets == tracked' = [t \in Targets |-> "COMMON"]

\* ApplyResize: a minimised window is left alone; PostProcess::Resize recreates
\* the targets whether or not the device had to (and so waited).
ApplyResize(w) ==
    /\ w # 0
    /\ ~recording /\ resizes < MAX_RESIZES /\ m_nextFenceValue < MAX_FENCE
    /\ resizes' = resizes + 1
    /\ size' = w
    /\ IF w = size
       THEN UNCHANGED << m_completed, m_nextFenceValue, backGen, m_fenceValues, m_frameIndex >>
       ELSE Resize(w)
    /\ IF m_ready
       THEN /\ CreateTargets
            /\ targetGen' = targetGen + 1
            /\ m_ready' \in BOOLEAN
            /\ postFailed' = ~m_ready'
            /\ sameSize' = (sameSize \/ (w = size /\ queue # << >>))
       ELSE UNCHANGED << tracked, targetGen, m_ready, postFailed, sameSize >>
    /\ actual' = [r \in Resources |->
                    IF r \in Targets /\ m_ready THEN "COMMON"
                    ELSE IF r \notin Targets /\ w # size THEN "PRESENT" ELSE actual[r]]
    /\ UNCHANGED << recording, commands, queue, bloom >>

RingNext ==
    \/ BeginFrame \/ RenderAndEndFrame \/ GpuFinishes
    \/ \E w \in Sizes : ApplyResize(w)

RingSpec == RingInit /\ [][RingNext]_ringVars

-----------------------------------------------------------------------------
(* A frame is recorded into memory the graphics queue is done with: no     *)
(* list in flight uses the slot whose allocator is reset, whose upload     *)
(* buffers are written and whose timestamps are read, through resizes that *)
(* forget the fence values as well.                                        *)
SlotIsFree == recording => \A i \in DOMAIN queue : queue[i].slot # m_frameIndex

(* BeginFrame and WaitForGpu wait without a timeout: the value waited for  *)
(* is always one the queue has been asked to signal.                       *)
WaitIsAnswered ==
    \A s \in Slots : m_fenceValues[s] <= m_completed \/ \E i \in DOMAIN queue : queue[i].value >= m_fenceValues[s]

(* No resource is recreated under a list in flight, except by a WM_SIZE    *)
(* that leaves the size as it was: there nobody has waited.                *)
NothingReleasedInUse ==
    \A i \in DOMAIN queue :
        /\ queue[i].back = backGen
        /\ (queue[i].post /\ ~sameSize) => queue[i].target = targetGen

(* What a list in flight does to the states, from `states` on.             *)
ExecutesCleanly(states, cl) ==
    \A i \in DOMAIN cl :
        LET now == Executed(states, SubSeq(cl, 1, i - 1))
        IN  IF cl[i].op = "barrier" THEN now[cl[i].into] = cl[i].before
            ELSE /\ now[cl[i].into] = "TARGET"
                 /\ \A r \in cl[i].reads : now[r] = "SHADER" /\ r # cl[i].into

(* The states the lists before the i-th of the queue leave.                *)
Reached(i) ==
    LET touching(r) == { j \in 1 .. i - 1 : Barriers(queue[j].cl, r) # {} }
    IN  [r \in Resources |->
            IF touching(r) = {} THEN actual[r]
            ELSE Executed(actual, queue[Max(touching(r))].cl)[r]]

(* Every transition starts from the state its resource is really in, every *)
(* pass writes a render target and reads shader resources: the tracked     *)
(* states survive frames without bloom, resizes and lost targets.          *)
StatesAgree ==
    ~sameSize =>
        \A i \in DOMAIN queue :
            ExecutesCleanly(Reached(i), queue[i].cl)

(* A pipeline built for the HDR target never draws into the back buffer,   *)
(* unless the targets were lost in a resize: m_bloom is not taken back.    *)
FormatsMatch ==
    ~postFailed =>
        \A i \in DOMAIN queue : \A k \in DOMAIN queue[i].cl :
            LET c == queue[i].cl[k]
            IN  c.op = "draw" /\ c.before # "clear" => c.before = (IF c.into \in Targets THEN "hdr" ELSE "ldr")

(* Processor and GPU never meet in a slot, a buffer or a target: slots are *)
(* free when recorded, waits are answered, nothing in use is released, and *)
(* tracked states and formats are the real ones, over resizes and failed   *)
(* ones (DeviceResources.cpp, PostProcess.cpp, ApplyResize).               *)
RingInv == SlotIsFree /\ WaitIsAnswered /\ NothingReleasedInUse /\ StatesAgree /\ FormatsMatch

-----------------------------------------------------------------------------
(* What a frame draws.                                                     *)

CONSTANTS MAX_VERTS, MAX_TEXTURES, Textures,
          MAX_DRAWS,                     \* bound: primitives per frame
          MAX_EMIT_PARTICLES, Lives,     \* lifetimes, in updates
          MAX_EMITTERS, MAX_UPDATES,     \* bounds
          MAX_ENTITIES, MAX_SHAPES, ShapeIds, MAX_GATHERED  \* bound: entities of a snapshot

\* A texture is never NoTexture; the limits are those of the three renderers.
ASSUME DrawAssumption ==
    /\ {MAX_VERTS, MAX_TEXTURES, MAX_EMIT_PARTICLES, MAX_ENTITIES, MAX_SHAPES} \subseteq Nat \ {0}
    /\ Lives \subseteq Nat /\ ShapeIds \subseteq Nat /\ "none" \notin Textures

VARIABLES m_srvByTex, m_nextSrv, m_fontSrv, m_batches,
          verts,      \* the vertices written: [mode, tex], what each was drawn with
          draws,
          m_emit,     \* slot -> [id, left]; dead when left = 0
          m_spawnCursor, spawned,
          due,        \* history: particles whose life is not over
          dropped,    \* history: the last update found the pool full
          updates,
          m_shapes,   \* shape id -> SRV slot, NoDiffuse, or not registered
          sceneSrv, entities, runs

canvasVars == << m_srvByTex, m_nextSrv, m_fontSrv, m_batches, verts, draws >>
particleVars == << m_emit, m_spawnCursor, spawned, due, dropped, updates >>
sceneVars == << m_shapes, sceneSrv, entities, runs >>

EmitSlots == 0 .. MAX_EMIT_PARTICLES - 1
NoTexture == "none"
NoDiffuse == MAX_SHAPES
NoFont == MAX_TEXTURES

\* Initialize of each: empty heaps, a dead pool, no shapes.
CanvasInit ==
    /\ m_srvByTex = << >> /\ m_nextSrv = 0 /\ m_fontSrv = NoFont
    /\ m_batches = << >> /\ verts = << >> /\ draws = 0
ParticleInit ==
    /\ m_emit = [s \in EmitSlots |-> [id |-> 0, left |-> 0]]
    /\ m_spawnCursor = 0 /\ spawned = 0 /\ due = << >> /\ dropped = FALSE /\ updates = 0
SceneInit == m_shapes = << >> /\ sceneSrv = 0 /\ entities = << >> /\ runs = << >>

-----------------------------------------------------------------------------
\* EnsureSrv: the slot of a texture, a new one while there is room, else slot 0.
\* m_srvByTex is the sequence of the textures in the order of their slots.
EnsureSrv(tex) ==
    IF \E i \in DOMAIN m_srvByTex : m_srvByTex[i] = tex
    THEN [slot |-> (CHOOSE i \in DOMAIN m_srvByTex : m_srvByTex[i] = tex) - 1, table |-> m_srvByTex]
    ELSE IF m_nextSrv >= MAX_TEXTURES THEN [slot |-> 0, table |-> m_srvByTex]
    ELSE [slot |-> m_nextSrv, table |-> Append(m_srvByTex, tex)]

\* SetFont, before the first frame or never.
SetFont(tex) ==
    /\ draws = 0 /\ m_srvByTex = << >>
    /\ m_srvByTex' = EnsureSrv(tex).table /\ m_nextSrv' = Len(m_srvByTex')
    /\ m_fontSrv' = EnsureSrv(tex).slot
    /\ UNCHANGED << m_batches, verts, draws >>

\* Reset: a new frame.
Reset ==
    /\ draws > 0
    /\ m_batches' = << >> /\ verts' = << >> /\ draws' = 0
    /\ UNCHANGED << m_srvByTex, m_nextSrv, m_fontSrv >>

\* Prim: a new batch unless the last one has the same mode and texture.
Prim(batches, mode, srv, at) ==
    IF batches = << >> \/ Last(batches).mode # mode \/ Last(batches).srv # srv
    THEN Append(batches, [mode |-> mode, srv |-> srv, start |-> at, count |-> 0]) ELSE batches

\* Vtx, n times: vertices past the end of the buffer are dropped, uncounted.
Vtx(batches, n) ==
    [batches EXCEPT ![Len(batches)].count =
        @ + (IF Len(verts) + n <= MAX_VERTS THEN n ELSE MAX_VERTS - Len(verts))]
Written(n, v) == [i \in 1 .. (IF Len(verts) + n <= MAX_VERTS THEN n ELSE MAX_VERTS - Len(verts)) |-> v]

\* DrawRect, DrawVGradient, DrawTriangle and a DrawLine that is not a point.
DrawSolid(n) ==
    /\ draws < MAX_DRAWS
    /\ draws' = draws + 1
    /\ m_batches' = Vtx(Prim(m_batches, "Solid", 0, Len(verts)), n)
    /\ verts' = verts \o Written(n, [mode |-> "Solid", tex |-> NoTexture])
    /\ UNCHANGED << m_srvByTex, m_nextSrv, m_fontSrv >>

DrawTexturedQuad(tex) ==
    /\ draws < MAX_DRAWS
    /\ draws' = draws + 1
    /\ m_srvByTex' = EnsureSrv(tex).table /\ m_nextSrv' = Len(m_srvByTex')
    /\ m_batches' = Vtx(Prim(m_batches, "TexLinear", EnsureSrv(tex).slot, Len(verts)), 2)
    /\ verts' = verts \o Written(2, [mode |-> "TexLinear", tex |-> tex])
    /\ UNCHANGED m_fontSrv

\* DrawText: a quad for each glyph that is in the font's range and not a space.
DrawText(glyphs) ==
    /\ draws < MAX_DRAWS /\ m_fontSrv # NoFont
    /\ draws' = draws + 1
    /\ m_batches' = Vtx(Prim(m_batches, "TexLinear", m_fontSrv, Len(verts)), 2 * glyphs)
    /\ verts' = verts \o Written(2 * glyphs, [mode |-> "TexLinear", tex |-> m_srvByTex[m_fontSrv + 1]])
    /\ UNCHANGED << m_srvByTex, m_nextSrv, m_fontSrv >>

CanvasNext ==
    \/ Reset
    \/ \E n \in {1, 2} : DrawSolid(n) \/ DrawText(n)
    \/ \E tex \in Textures : SetFont(tex) \/ DrawTexturedQuad(tex)

-----------------------------------------------------------------------------
\* Mutant: the scan leaves out the last slot.
ScanNotLast(emit, cursor) ==
    { c \in EmitSlots : emit[c].left = 0 /\ c # (cursor + MAX_EMIT_PARTICLES - 1) % MAX_EMIT_PARTICLES }

\* The dead slots, of which the scan from the cursor takes the first.
Scan(emit, cursor) == { c \in EmitSlots : emit[c].left = 0 }

Distance(from, c) == (c + MAX_EMIT_PARTICLES - from) % MAX_EMIT_PARTICLES
Slot(emit, cursor) ==
    CHOOSE c \in Scan(emit, cursor) :
        \A d \in Scan(emit, cursor) : Distance(cursor, c) <= Distance(cursor, d)

\* One emitter of Update: spawns until its share is used or the pool is full; a
\* full scan leaves the cursor where it was.
Spawn(acc, life) ==
    IF Scan(acc.emit, acc.cursor) = {} THEN [acc EXCEPT !.dropped = TRUE]
    ELSE LET c == Slot(acc.emit, acc.cursor)
         IN  [ emit |-> [acc.emit EXCEPT ![c] = [id |-> acc.spawned + 1, left |-> life]],
               cursor |-> (c + 1) % MAX_EMIT_PARTICLES,
               spawned |-> acc.spawned + 1,
               due |-> Append(acc.due, life), dropped |-> acc.dropped ]

Aged(n) == IF n = 0 THEN 0 ELSE n - 1

\* The emitters of the frame in turn; each spawn has its lifetime.
SpawnAll(aged, lives) ==
    LET after[k \in 0 .. Len(lives)] == IF k = 0 THEN aged ELSE Spawn(after[k - 1], lives[k])
    IN  after[Len(lives)]

\* ParticleRenderer::Update and SetEmitters: the live ones age, then the
\* emitters of this frame spawn.
UpdateParticles(lives) ==
    /\ updates < MAX_UPDATES
    /\ updates' = updates + 1
    /\ LET aged == [ emit |-> [s \in EmitSlots |-> [m_emit[s] EXCEPT !.left = Aged(@)]],
                     cursor |-> m_spawnCursor, spawned |-> spawned,
                     due |-> [i \in DOMAIN due |-> Aged(due[i])], dropped |-> FALSE ]
           done == SpawnAll(aged, lives)
       IN  /\ m_emit' = done.emit /\ m_spawnCursor' = done.cursor /\ spawned' = done.spawned
           /\ due' = done.due /\ dropped' = done.dropped

ParticleNext == \E n \in 0 .. MAX_EMITTERS : \E lives \in [1 .. n -> Lives] : UpdateParticles(lives)

-----------------------------------------------------------------------------
\* SetShape: a diffuse gets a slot of its own while there is one.
SetShape(id, diffuse) ==
    /\ \A i \in DOMAIN m_shapes : m_shapes[i].id # id
    /\ LET textured == diffuse /\ sceneSrv < MAX_SHAPES
       IN  /\ m_shapes' = Append(m_shapes, [id |-> id, srv |-> IF textured THEN sceneSrv ELSE NoDiffuse])
           /\ sceneSrv' = IF textured THEN sceneSrv + 1 ELSE sceneSrv
    /\ runs = << >>
    /\ UNCHANGED << entities, runs >>

\* The members of S by ascending key; no two have the same one.
Ascending(S, key) ==
    [i \in 1 .. Cardinality(S) |-> CHOOSE x \in S : Cardinality({ y \in S : key[y] <= key[x] }) = i]

\* The runs of equal shape in the order given, each from where the shape
\* changes to where it changes again; a run without a registered shape draws
\* the cube.
Runs(es, order) ==
    LET shape(k) == es[order[k]]
        starts == {k \in 1 .. Len(order) : k = 1 \/ shape(k) # shape(k - 1)}
        from == Ascending(starts, [k \in starts |-> k])
        end(i) == IF i = Len(from) THEN Len(order) + 1 ELSE from[i + 1]
    IN  [i \in DOMAIN from |-> [sid |-> shape(from[i]), start |-> from[i], count |-> end(i) - from[i]]]

\* The stable sort of the first n entities by shape: equal shapes by index.
Order(es, n) == Ascending(1 .. n, [i \in 1 .. n |-> es[i] * (n + 1) + i])

\* DrawRun: the mesh and the texture slot of a run; unknown shapes are cubes.
DrawRun(run) ==
    LET known == { i \in DOMAIN m_shapes : m_shapes[i].id = run.sid }
    IN  [ run |-> run, mesh |-> IF known = {} THEN "cube" ELSE "own",
          srv |-> IF known = {} THEN NoDiffuse ELSE m_shapes[CHOOSE i \in known : TRUE].srv ]

Count(es) == IF Len(es) <= MAX_ENTITIES THEN Len(es) ELSE MAX_ENTITIES

\* Render: the first MAX_ENTITIES entities.  One frame: the next one starts
\* from the same shapes.
SceneRender(es) ==
    /\ runs = << >>
    /\ entities' = es
    /\ runs' = LET rs == Runs(es, Order(es, Count(es))) IN [i \in DOMAIN rs |-> DrawRun(rs[i])]
    /\ UNCHANGED << m_shapes, sceneSrv >>

SceneNext ==
    \/ \E id \in ShapeIds, diffuse \in BOOLEAN : SetShape(id, diffuse)
    \/ \E n \in 1 .. MAX_GATHERED : \E es \in [1 .. n -> ShapeIds] : SceneRender(es)

-----------------------------------------------------------------------------
(* The batches tile the vertex buffer: each vertex is drawn once, in the   *)
(* mode it was written for and, while textures have slots, with its own    *)
(* texture; also when the buffer is full.                                  *)
BatchesTile ==
    /\ \A i \in DOMAIN m_batches : m_batches[i].start + m_batches[i].count <= Len(verts)
    /\ \A v \in 1 .. Len(verts) :
        LET own == { i \in DOMAIN m_batches : m_batches[i].start < v /\ v <= m_batches[i].start + m_batches[i].count }
        IN  \E i \in own :
                /\ own = {i}
                /\ m_batches[i].mode = verts[v].mode
                /\ verts[v].tex \in ToSet(m_srvByTex) => m_srvByTex[m_batches[i].srv + 1] = verts[v].tex

(* A spawned particle stays in the pool until its life is over, whatever   *)
(* is spawned meanwhile, and a spawn is dropped only when every slot is    *)
(* taken.                                                                  *)
ParticlesLiveOut ==
    /\ \A i \in DOMAIN due : due[i] > 0 => \E s \in EmitSlots : m_emit[s].id = i /\ m_emit[s].left = due[i]
    /\ dropped => \A s \in EmitSlots : m_emit[s].left > 0

(* Every entity drawn is in exactly one run, of its own shape; there is    *)
(* one run per shape, and no two textured shapes share a slot.             *)
OneRunPerShape ==
    runs # << >> =>
        LET n == Count(entities)
            order == Order(entities, n)
        IN  /\ \A k \in 1 .. n :
                 \E i \in DOMAIN runs :
                     /\ \A j \in DOMAIN runs :
                          (runs[j].run.start <= k /\ k < runs[j].run.start + runs[j].run.count) <=> j = i
                     /\ runs[i].run.sid = entities[order[k]]
            /\ \A i, j \in DOMAIN runs :
                 i # j => /\ runs[i].run.sid # runs[j].run.sid
                          /\ runs[i].srv # NoDiffuse => runs[i].srv # runs[j].srv

\* A frame's canvas, its particles and its scene are independent.
drawVars == << canvasVars, particleVars, sceneVars >>
DrawNext ==
    \/ CanvasNext /\ UNCHANGED << particleVars, sceneVars >>
    \/ ParticleNext /\ UNCHANGED << canvasVars, sceneVars >>
    \/ SceneNext /\ UNCHANGED << canvasVars, particleVars >>
DrawSpec == CanvasInit /\ ParticleInit /\ SceneInit /\ [][DrawNext]_drawVars

(* What a frame draws is what was asked: batches tile the vertices, a      *)
(* particle lives as long as it was given unless the pool was full, and    *)
(* every visible shape is drawn in one run (CanvasRenderer.cpp,            *)
(* ParticleRenderer.cpp, SceneRenderer.cpp).                               *)
DrawListsExact == BatchesTile /\ ParticlesLiveOut /\ OneRunPerShape
=============================================================================
