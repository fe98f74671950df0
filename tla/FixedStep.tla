------------------------------ MODULE FixedStep ------------------------------
(* The clocks: the server's fixed-step accumulator                         *)
(* (FixedStepAccumulator.h) with its time dilation (TimeDilation.h) as the *)
(* loop of ERServer.cpp drives them, and the client's frame timer          *)
(* (TimerCore.h).  Times are whole units; the dilation factor is a whole   *)
(* number of parts of ONE, so the accumulator counts units times parts.    *)
EXTENDS Integers, FiniteSets, FiniteSetsExt

CONSTANTS
    STEP,               \* SIM_DELTA_SECONDS
    MAX_CATCH_UP,       \* MAX_CATCH_UP_TICKS_PER_FRAME
    ONE, FLOOR,         \* full speed and the slowest speed
    EASE_DOWN, EASE_UP, \* inverse of the share of the way one report moves
    SNAP,               \* this close to full speed is full speed
    FREQUENCY,          \* m_qpcFrequency
    MAX_DELTA,          \* m_qpcMaxDelta
    Elapsed, TickCosts, \* what the host clock may measure
    MAX_REAL            \* bound on the time modelled

VARIABLES
    real, m_last,       \* time since Start, and when it was last measured
    framePhase,         \* "outer": before Tick; "steps": in the ConsumeStep loop
    m_accumulator, m_simTickCount, m_stepsThisFrame, m_factor,
    m_qpcSecondCounter, m_totalTicks, m_framesThisSecond, m_framesPerSecond

stepVars == << real, m_last, framePhase, m_accumulator, m_simTickCount, m_stepsThisFrame, m_factor >>
timerVars == << m_qpcSecondCounter, m_totalTicks, m_framesThisSecond, m_framesPerSecond >>
clockVars == << stepVars, timerVars >>

Clamp(v, lo, hi) == IF v < lo THEN lo ELSE IF v > hi THEN hi ELSE v

Init ==
    /\ real = 0 /\ m_last = 0 /\ framePhase = "outer"
    /\ m_accumulator = 0 /\ m_simTickCount = 0 /\ m_stepsThisFrame = 0 /\ m_factor = ONE
    /\ m_qpcSecondCounter = 0 /\ m_totalTicks = 0 /\ m_framesThisSecond = 0
    /\ m_framesPerSecond = 0

TimePasses(d) ==
    /\ framePhase = "outer" /\ real + d <= MAX_REAL
    /\ real' = real + d
    /\ UNCHANGED << m_last, framePhase, m_accumulator, m_simTickCount, m_stepsThisFrame, m_factor, timerVars >>

Measured == real - m_last

\* Mutant: a long pause enters the accumulator whole.
IntakeUnclamped(elapsed) == elapsed

Intake(elapsed) == Min({elapsed, STEP * MAX_CATCH_UP})

Tick ==
    /\ framePhase = "outer"
    /\ m_accumulator' = m_accumulator + Intake(Measured) * m_factor
    /\ m_last' = real /\ m_stepsThisFrame' = 0
    /\ framePhase' = "steps"
    /\ UNCHANGED << real, m_simTickCount, m_factor, timerVars >>

Target(cost) == IF cost > STEP THEN Clamp((ONE * STEP) \div cost, FLOOR, ONE) ELSE ONE

\* DilationController::Update.
Update(cost) ==
    LET target == Target(cost)
        eased == IF target < m_factor
                 THEN m_factor - (m_factor - target) \div EASE_DOWN
                 ELSE m_factor + (target - m_factor) \div EASE_UP
        clamped == Clamp(eased, FLOOR, ONE)
    IN  IF clamped >= ONE - SNAP THEN ONE ELSE clamped

Ready == m_accumulator >= STEP * ONE

\* A step is taken, timed, and its cost reported.
ConsumeStep(cost) ==
    /\ framePhase = "steps" /\ m_stepsThisFrame < MAX_CATCH_UP /\ Ready
    /\ m_accumulator' = m_accumulator - STEP * ONE
    /\ m_simTickCount' = m_simTickCount + 1
    /\ m_stepsThisFrame' = m_stepsThisFrame + 1
    /\ m_factor' = Update(cost)
    /\ UNCHANGED << real, m_last, framePhase, timerVars >>

ConsumeNothing ==
    /\ framePhase = "steps" /\ ~(m_stepsThisFrame < MAX_CATCH_UP /\ Ready)
    /\ framePhase' = "outer"
    /\ UNCHANGED << real, m_last, m_accumulator, m_simTickCount, m_stepsThisFrame, m_factor, timerVars >>

ResetAccumulator ==
    /\ framePhase = "outer"
    /\ m_last' = real /\ m_accumulator' = 0 /\ m_stepsThisFrame' = 0
    /\ UNCHANGED << real, framePhase, m_simTickCount, m_factor, timerVars >>

SecondsOff(counter) == counter % FREQUENCY

\* Timer::Core::Update, a frame of the client.
TimerUpdate(delta) ==
    /\ m_totalTicks + delta <= MAX_REAL
    /\ m_totalTicks' = m_totalTicks + Min({delta, MAX_DELTA})
    /\ LET counter == m_qpcSecondCounter + delta
           full == counter >= FREQUENCY
       IN  /\ m_qpcSecondCounter' = IF full THEN SecondsOff(counter) ELSE counter
           /\ m_framesPerSecond' = IF full THEN m_framesThisSecond + 1 ELSE m_framesPerSecond
           /\ m_framesThisSecond' = IF full THEN 0 ELSE m_framesThisSecond + 1
    /\ UNCHANGED stepVars

ResetElapsedTime ==
    /\ m_framesPerSecond' = 0 /\ m_framesThisSecond' = 0 /\ m_qpcSecondCounter' = 0
    /\ UNCHANGED << m_totalTicks, stepVars >>

StepNext ==
    \/ \E d \in Elapsed : TimePasses(d)
    \/ \E c \in TickCosts : ConsumeStep(c)
    \/ Tick \/ ConsumeNothing \/ ResetAccumulator

TimerNext == (\E d \in Elapsed : TimerUpdate(d)) \/ ResetElapsedTime

Next == StepNext \/ TimerNext

(***************************************************************************)
(* Properties                                                              *)
(***************************************************************************)

(* Between two frames less than one step is left over, so the alpha the    *)
(* renderer gets is below one, after pauses and catch-up too.              *)
RemainderBelowStep == framePhase = "outer" => 0 <= m_accumulator /\ m_accumulator < STEP * ONE

(* The simulation is never ahead of the time that has passed.              *)
NeverAhead == m_simTickCount * STEP * ONE + m_accumulator <= real * ONE

(* A step within its budget brings a dilated clock strictly closer to full *)
(* speed, so it gets there; no step brings it below the floor.             *)
RecoveryStep ==
    framePhase = "steps" /\ m_simTickCount' # m_simTickCount =>
          /\ m_factor' \in FLOOR .. ONE
          /\ \A c \in TickCosts :
                c <= STEP /\ m_factor < ONE /\ m_factor' = Update(c) => m_factor' > m_factor

(* The frame counter closes a second whenever one has passed, also one     *)
(* frame that took several.                                                *)
SecondsClose == m_qpcSecondCounter < FREQUENCY
=============================================================================
