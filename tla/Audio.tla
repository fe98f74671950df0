------------------------------- MODULE Audio -------------------------------
(***************************************************************************)
(* The audio engine (AudioEngine.cpp, VoicePool.cpp, VoiceHandle.h,        *)
(* Mixer.cpp): source voices are pooled in slots that only grow, a voice   *)
(* has the format it was created with, and a sound is named by its slot    *)
(* and the slot's generation.  XAudio2 is external: any call may fail, and *)
(* a queued buffer ends when it ends.                                      *)
(***************************************************************************)
EXTENDS Naturals, SequencesExt

CONSTANTS WaveFormats,   \* formats of clips
          VOICE_GENERATIONS,   \* VOICE_GENERATION_MASK + 1
          MAX_PLAYS, MAX_SLOTS, MAX_CLIPS,   \* bounds
          MAX_STARTS     \* calls of initialize: App makes one

ASSUME AudioAssumption ==
    /\ VOICE_GENERATIONS \in Nat /\ VOICE_GENERATIONS > 1
    /\ {MAX_PLAYS, MAX_SLOTS, MAX_CLIPS} \subseteq Nat /\ MAX_STARTS \in 0 .. 1

VARIABLES m_engine,      \* XAudio2 exists
          mixer,         \* the mastering voice and the buses exist
          m_initialized,
          m_clips,       \* formats; clip ids count from 1
          m_slots,
          voices,        \* the source voices XAudio2 has, by number
          voicesMade,    \* source voices created so far
          playIds,       \* play -> the handle the caller got
          starts

audioVars == << m_engine, mixer, m_initialized, m_clips, m_slots, voices, voicesMade, playIds, starts >>

NullId == << 0, 0 >>
NoVoice == 0

\* A slot as emplace_back makes it; releases is history.
NewSlot == [voice |-> NoVoice, format |-> "none", generation |-> 1, busy |-> FALSE, looping |-> FALSE,
            queued |-> FALSE, play |-> 0, releases |-> 0]

AudioInit ==
    /\ m_engine = FALSE /\ mixer = FALSE /\ m_initialized = FALSE
    /\ m_clips = << >> /\ m_slots = << >> /\ voices = {} /\ voicesMade = 0 /\ playIds = << >> /\ starts = 0

-----------------------------------------------------------------------------
\* AudioEngine::shutdown: the voices, then the buses, then the engine.
ShutdownAll ==
    /\ m_slots' = << >>
    /\ voices' = voices \ { m_slots[i].voice : i \in DOMAIN m_slots }
    /\ mixer' = FALSE /\ m_engine' = FALSE /\ m_initialized' = FALSE
    /\ m_clips' = << >>

\* initialize: the engine, the mixer, the spatialiser; a failure after the
\* first takes down what there is.
Initialize ==
    /\ ~m_initialized /\ starts < MAX_STARTS
    /\ starts' = starts + 1
    /\ \/ m_engine' = TRUE /\ mixer' = TRUE /\ m_initialized' = TRUE /\ m_clips' = << >>
          /\ UNCHANGED << m_slots, voices >>
       \/ ShutdownAll
       \/ UNCHANGED << m_engine, mixer, m_initialized, m_clips, m_slots, voices >>
    /\ UNCHANGED << voicesMade, playIds >>

Shutdown == ShutdownAll /\ UNCHANGED << voicesMade, playIds, starts >>

LoadClip(format) ==
    /\ m_initialized /\ Len(m_clips) < MAX_CLIPS
    /\ m_clips' = Append(m_clips, format)
    /\ UNCHANGED << m_engine, mixer, m_initialized, m_slots, voices, voicesMade, playIds, starts >>

-----------------------------------------------------------------------------
MakeVoiceId(index, generation) == << index - 1, generation % VOICE_GENERATIONS >>

\* resolve: the slot a handle still names, 0 when it is stale.
ResolveVoice(id) ==
    IF id = NullId \/ id[1] + 1 \notin DOMAIN m_slots THEN 0
    ELSE IF ~m_slots[id[1] + 1].busy \/ m_slots[id[1] + 1].generation # id[2] THEN 0 ELSE id[1] + 1

\* The generation after a release; 0 is left out, it would make the null handle.
NextGeneration(g) == IF (g + 1) % VOICE_GENERATIONS = 0 THEN 1 ELSE (g + 1) % VOICE_GENERATIONS

\* Mutant: a released slot keeps its generation.
FreeSlotKeepsGeneration(s) ==
    [s EXCEPT !.busy = FALSE, !.looping = FALSE, !.queued = FALSE, !.releases = @ + 1]
\* freeSlotState: stopped, flushed, its voice kept for the next sound.
FreeSlotState(s) ==
    [s EXCEPT !.busy = FALSE, !.looping = FALSE, !.queued = FALSE, !.releases = @ + 1,
              !.generation = NextGeneration(@)]

Free == { i \in DOMAIN m_slots : ~m_slots[i].busy }
First(S) == CHOOSE i \in S : \A j \in S : i <= j

\* acquire: a free voice of the format that can be routed to the bus, else a
\* free slot without a voice, else one whose voice is replaced, else a new slot.
\* `routed` are the slots whose voice SetOutputVoices accepts.
Target(format, routed) ==
    LET match == { i \in Free : m_slots[i].voice # NoVoice /\ m_slots[i].format = format }
        empty == { i \in Free : m_slots[i].voice = NoVoice }
        other == { i \in Free : m_slots[i].voice # NoVoice /\ m_slots[i].format # format }
    IN  CASE match \cap routed # {} -> [at |-> First(match \cap routed), new |-> FALSE]
          [] match \cap routed = {} /\ empty # {} -> [at |-> First(empty), new |-> TRUE]
          [] match \cap routed = {} /\ empty = {} /\ other # {} -> [at |-> First(other), new |-> TRUE]
          [] OTHER -> [at |-> Len(m_slots) + 1, new |-> TRUE]

Grown(at) == IF at > Len(m_slots) THEN Append(m_slots, NewSlot) ELSE m_slots

\* The voice of a slot about to get another one is destroyed first.
Replaced(old) == voices \ {old}

\* A buffer that is not taken, or a voice that does not start, is released.
AfterFailure(s, ok) == IF ok THEN s ELSE FreeSlotState(s)

\* play: `creates`, and `starting` (SubmitSourceBuffer and Start), are whether
\* XAudio2 obliges.
Play(clip, loop, routed, creates, starting) ==
    /\ m_initialized /\ clip \in DOMAIN m_clips
    /\ Len(playIds) < MAX_PLAYS
    /\ LET t == Target(m_clips[clip], routed)
           slots == Grown(t.at)
           voice == IF t.new THEN voicesMade + 1 ELSE slots[t.at].voice
           playing == [slots[t.at] EXCEPT !.voice = voice, !.format = m_clips[clip], !.busy = TRUE,
                           !.looping = loop, !.queued = starting, !.play = Len(playIds) + 1]
       IN  /\ t.at <= MAX_SLOTS
           /\ IF t.new /\ ~creates
              THEN /\ m_slots' = [slots EXCEPT ![t.at].voice = NoVoice]
                   /\ voices' = Replaced(slots[t.at].voice) /\ UNCHANGED voicesMade
                   /\ playIds' = Append(playIds, NullId)
              ELSE /\ m_slots' = [slots EXCEPT ![t.at] = AfterFailure(playing, starting)]
                   /\ voices' = IF t.new THEN Replaced(slots[t.at].voice) \cup {voice} ELSE voices
                   /\ voicesMade' = IF t.new THEN voice ELSE voicesMade
                   /\ playIds' = Append(playIds, IF starting THEN MakeVoiceId(t.at, playing.generation) ELSE NullId)
    /\ UNCHANGED << m_engine, mixer, m_initialized, m_clips, starts >>

\* stop, with a handle that may be stale.
StopVoice(id) ==
    /\ ResolveVoice(id) # 0
    /\ m_slots' = [m_slots EXCEPT ![ResolveVoice(id)] = FreeSlotState(@)]
    /\ UNCHANGED << m_engine, mixer, m_initialized, m_clips, voices, voicesMade, playIds, starts >>

\* XAudio2 has played a buffer to its end.
BufferEnds(i) ==
    /\ m_slots[i].queued /\ ~m_slots[i].looping
    /\ m_slots' = [m_slots EXCEPT ![i].queued = FALSE]
    /\ UNCHANGED << m_engine, mixer, m_initialized, m_clips, voices, voicesMade, playIds, starts >>

\* update: finished one-shots are reclaimed.
Update ==
    /\ m_initialized
    /\ m_slots' = [i \in DOMAIN m_slots |->
                     IF m_slots[i].busy /\ ~m_slots[i].looping /\ ~m_slots[i].queued
                     THEN FreeSlotState(m_slots[i]) ELSE m_slots[i]]
    /\ UNCHANGED << m_engine, mixer, m_initialized, m_clips, voices, voicesMade, playIds, starts >>

AudioNext ==
    \/ Initialize \/ Shutdown \/ Update
    \/ \E f \in WaveFormats : LoadClip(f)
    \/ \E clip \in 1 .. MAX_CLIPS, loop \in BOOLEAN, creates \in BOOLEAN, starting \in BOOLEAN,
         routed \in {{}, DOMAIN m_slots} : Play(clip, loop, routed, creates, starting)
    \/ \E p \in DOMAIN playIds : StopVoice(playIds[p])
    \/ \E i \in DOMAIN m_slots : BufferEnds(i)

AudioSpec == AudioInit /\ [][AudioNext]_audioVars

-----------------------------------------------------------------------------
(* A handle names the sound it was given for or nothing: a stop or a       *)
(* volume change that comes late never hits the sound that has the slot    *)
(* now, until the generations of the slot have gone round (or the engine   *)
(* is started again, which begins them anew).                              *)
StaleHandlesMiss ==
    \A p \in DOMAIN playIds :
        LET i == ResolveVoice(playIds[p])
        IN  i # 0 /\ m_slots[i].releases < VOICE_GENERATIONS - 1 => m_slots[i].play = p

(* Every sound that plays can be stopped: its caller holds a handle that   *)
(* resolves to it, also after failures half way and generations that wrap. *)
PlayingIsHeld ==
    \A i \in DOMAIN m_slots :
        m_slots[i].busy => /\ playIds[m_slots[i].play] # NullId
                           /\ ResolveVoice(playIds[m_slots[i].play]) = i

(* XAudio2's source voices are those of the slots, one each: none is lost  *)
(* when a slot changes format, and none outlives the engine.               *)
VoicesOwned ==
    /\ voices = { m_slots[i].voice : i \in DOMAIN m_slots } \ {NoVoice}
    /\ \A i, j \in DOMAIN m_slots : i # j /\ m_slots[i].voice # NoVoice => m_slots[i].voice # m_slots[j].voice
    /\ ~m_engine => voices = {} /\ ~mixer

(* Slots, voices and handles agree through failures, ends and take-overs   *)
(* of slots (AudioEngine.cpp Play, VoicePool.cpp).                         *)
AudioInv == StaleHandlesMiss /\ PlayingIsHeld /\ VoicesOwned
=============================================================================
