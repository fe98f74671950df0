------------------------------ MODULE MCClient ------------------------------
(* The game client part by part: a behaviour is one of the part it chose,  *)
(* and the variables of the others stay at their initial values.  The      *)
(* start, loop and end of the program are the module extended.             *)
EXTENDS App, ClientUi, Renderer, Audio, TLC

CONSTANTS
    SANE, MATERIAL, SUBMESH, VERTEX, SKIN, EXTENTS, BONE, KEYFRAME, TEXTURES, W32, MAX_DIM,
    HEADER, DXT10, AssetInputs,
    BASE_DELAY, MAX_DELAY, MULTIPLIER, CONN_LOST, HANDSHAKE_TIMEOUT, IDLE_TIMEOUT, MAX_ATTEMPT,
    MAX_OUTAGES

VARIABLES
    part,
    asset, parsed,
    m_state, m_everConnected, age, silent, m_attempt, m_waiting, wait, entry, idle, net, refuses,
    outages, since

Assets == INSTANCE AssetParse
Timed == INSTANCE Reconnect

(***************************************************************************)
(* What the pointer can be over, and the files that are parsed             *)
(***************************************************************************)
\* The files below are values of a constant of Assets; they use its formats
\* through an instance without that constant.
Format == INSTANCE AssetParse WITH AssetInputs <- {}

MCEntities ==
    (1 :> [kind |-> "Base", owner |-> 1]) @@ (2 :> [kind |-> "Ship", owner |-> 1])
    @@ (3 :> [kind |-> "ResourceNode", owner |-> 0]) @@ (4 :> [kind |-> "NpcUnit", owner |-> 0])
MCViews == {{}, {1, 2, 3, 4}, {1, 3}}
MCStored == {NONE, 7, 0 - 3}

Over(wins, what, popup, row, radar, pick, box) ==
    [over |-> wins, part |-> what, popup |-> popup, row |-> row, radar |-> radar, pick |-> pick,
     box |-> box]
Anywhere ==
    { Over({w}, p, NONE, 0, FALSE, 2, FALSE) :
        w \in Wins, p \in UNION { PartsOf(x) : x \in Wins } }
    \cup { Over({"MainMenu", "Options"}, p, NONE, 0, TRUE, 4, FALSE) : p \in {"Close", "body"} }
    \cup { Over({}, "body", 1, 0, FALSE, 0, FALSE),
           Over({"Options"}, "Close", NONE, 1, TRUE, 4, FALSE),
           Over({}, "body", NONE, 1, FALSE, 3, FALSE),
           Over({}, "body", NONE, 2, TRUE, 4, TRUE),
           Over({}, "body", NONE, 0, FALSE, 0, TRUE) }
    \cup { Over({}, "body", NONE, 0, r, e, FALSE) : r \in BOOLEAN, e \in {0, 2, 3, 4} }
MCPlaces == { a \in Anywhere : \A w \in a.over : a.part \in PartsOf(w) }

Meshes ==
    [name : {0, 2}, materials : {0, 1}, submeshes : {1}, indices : {0, 3}, vertices : {1, 2},
     bones : {0, 2}, keys : {1}]
Sound3(o, n) ==
    << Format!RIFF >> \o Format!Chunk(Format!FMT, Format!PCM16)
        \o Format!Chunk(7, Format!Body(o)) \o Format!Chunk(Format!DATA, Format!Body(n))
MCAssets ==
    { [kind |-> "cmo", mesh |-> m, at |-> a, word |-> w, cut |-> 0] :
        m \in Meshes, a \in 0 .. 24, w \in {4, 60} }
    \cup { [kind |-> "cmo", mesh |-> m, at |-> 0, word |-> 0, cut |-> c] : m \in Meshes, c \in 0 .. 14 }
    \cup { [kind |-> "dds", dds |-> [magic |-> g, size |-> z, width |-> w, height |-> h, mips |-> n,
                                     dx10 |-> x, format |-> f]] :
            g \in BOOLEAN, z \in {3, 7, 9, 10, 18, 200}, w \in {0, 1, 5, 8, 17}, h \in {1, 4},
            n \in {0, 3}, x \in BOOLEAN, f \in {"BC1", "BC7", "BGRA", "L8"} }
    \cup { [kind |-> "wav", file |-> Sound3(o, n), at |-> a, word |-> w, cut |-> c, good |-> TRUE] :
            o \in 0 .. 3, n \in 0 .. 3, a \in {0, 1, 3, 7, 9}, w \in {0, 5, 102}, c \in 0 .. 4 }
    \cup { [kind |-> "bones", keys |-> k, time |-> t, parents |-> << 0, 1, 1 >>] :
            k \in [1 .. 3 -> [bone : {1, 2}, time : 0 .. 2]], t \in 0 .. 2 }
    \cup { [kind |-> "bones", keys |-> << >>, time |-> 0, parents |-> p] : p \in [1 .. 3 -> 0 .. 3] }
NoAsset == [kind |-> "none"]

(***************************************************************************)
(* The parts                                                               *)
(***************************************************************************)
assetVars == << asset, parsed >>
timedVars == << m_state, m_everConnected, age, silent, m_attempt, m_waiting, wait, entry, idle, net,
                refuses, outages, since >>
media == << ringVars, canvasVars, particleVars, sceneVars, assetVars, audioVars >>
allVars == << part, appVars, uiVars, timedVars, media >>

Parts == {"app", "ui", "ring", "canvas", "particles", "scene", "assets", "audio", "reconnect"}

ClientInit ==
    /\ part \in Parts
    /\ UiInit /\ (part # "ui" => menu.ready /\ stored = [w \in PanelWins |-> NONE])
    /\ Init /\ CanvasInit /\ ParticleInit /\ SceneInit /\ AudioInit /\ Timed!ReconnectInit
    /\ RingInit /\ (part # "ring" => bloom)
    /\ IF part = "assets" THEN Assets!Init ELSE asset = NoAsset /\ parsed = << >>

OnlyMedia == UNCHANGED << part, appVars, uiVars, timedVars >>

AppStep == part = "app" /\ Next /\ UNCHANGED << part, uiVars, timedVars, media >>
UiStep == part = "ui" /\ UiNext /\ UNCHANGED << part, appVars, timedVars, media >>
TimedStep ==
    part = "reconnect" /\ Timed!ReconnectNext /\ UNCHANGED << part, appVars, uiVars, media >>
RingStep ==
    /\ part = "ring" /\ RingNext /\ OnlyMedia
    /\ UNCHANGED << canvasVars, particleVars, sceneVars, assetVars, audioVars >>
CanvasStep ==
    /\ part = "canvas" /\ CanvasNext /\ OnlyMedia
    /\ UNCHANGED << ringVars, particleVars, sceneVars, assetVars, audioVars >>
ParticleStep ==
    /\ part = "particles" /\ ParticleNext /\ OnlyMedia
    /\ UNCHANGED << ringVars, canvasVars, sceneVars, assetVars, audioVars >>
SceneStep ==
    /\ part = "scene" /\ SceneNext /\ OnlyMedia
    /\ UNCHANGED << ringVars, canvasVars, particleVars, assetVars, audioVars >>
AssetStep ==
    /\ part = "assets" /\ Assets!Next /\ OnlyMedia
    /\ UNCHANGED << ringVars, canvasVars, particleVars, sceneVars, audioVars >>
AudioStep ==
    /\ part = "audio" /\ AudioNext /\ OnlyMedia
    /\ UNCHANGED << ringVars, canvasVars, particleVars, sceneVars, assetVars >>

ClientNext ==
    \/ AppStep \/ UiStep \/ RingStep \/ CanvasStep \/ ParticleStep \/ SceneStep \/ AssetStep
    \/ AudioStep \/ TimedStep

\* The fairness of App and of Reconnect.
ClientFairness ==
    /\ WF_appVars(part = "app" /\ Stop) /\ WF_appVars(part = "app" /\ Teardown)
    /\ WF_appVars(part = "app" /\ DialogAnswered)
    /\ WF_timedVars(part = "reconnect" /\ Timed!Tick)
    /\ SF_timedVars(part = "reconnect" /\ Timed!LongDraw)

ClientSpec == ClientInit /\ [][ClientNext]_allVars /\ ClientFairness

(***************************************************************************)
(* Each part's properties, stated in its module                            *)
(***************************************************************************)
(* Asset files are taken whole or refused (module AssetParse).             *)
AssetsInv == part = "assets" => Assets!AssetsInv
(* A client that lost its server is always going to try again, starts its  *)
(* back-off over with every connection, and does not hammer a server that  *)
(* is silent (module Reconnect).                                           *)
RetriesPaced ==
    /\ [](part = "reconnect" => Timed!WaitIsArmed)
    /\ [][part = "reconnect" => Timed!BackoffStep /\ Timed!SpacedAttempt]_allVars
(* Once network and server stay up the client is back, although its own    *)
(* retries keep the server's entry of its former connection alive (in the  *)
(* end a wait is longer than the idle window), and on the way there its    *)
(* retries are paced.                                                      *)
ReconnectWorks ==
    /\ RetriesPaced
    /\ <>[](net = "up" /\ ~refuses) =>
          []<>(part = "reconnect" => m_state \in {"Connected", "Disconnected"})
=============================================================================
