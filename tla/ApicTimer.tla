----------------------------- MODULE ApicTimer ------------------------------
(***************************************************************************)
(* LocalApic::InitCpu (kern/apic.cc): the timer of the local APIC is       *)
(* calibrated against KvmSystemTime and then set to tick.                  *)
(*                                                                         *)
(* Time passes between any two register accesses: the virtual CPU may be   *)
(* descheduled for up to Pause units, and nothing in the code bounds Pause. *)
(* In a unit the timer counts down by the machine's rate, whether or not it *)
(* is masked.  BootTime is the time: that it never goes back is assumed    *)
(* here, for the answers that the host marks stable.                       *)
(***************************************************************************)
EXTENDS Integers

CONSTANTS U32,       \* 2^32
          Rates,     \* timer counts in a unit of time, of the machines considered
          Wait,      \* 10000 * 1000: the length of the calibration
          PerSecond, \* 100: calibrations in a second
          Divide,    \* 16: bus cycles in a timer count
          quantum,   \* 32: timer interrupts in a second
          MinCount,  \* 0x1000
          Pause      \* bound: units between two steps of InitCpu

ASSUME TimerAssumption ==
  /\ {U32, Wait, PerSecond, Divide, quantum, MinCount, Pause} \subseteq Nat \ {0}
  /\ Rates \subseteq Nat \ {0}

VARIABLES rate,      \* of this machine
          now,       \* what BootTime returns
          pause,     \* units since InitCpu's last step
          timer,     \* the TIMER register: masked, periodic or neither
          initial,   \* TIMER_INITIAL_COUNT
          count,     \* TIMER_CURRENT_COUNT
          stage, start, bus_freq

device == <<rate, now, count>>
timer_vars == <<rate, now, pause, timer, initial, count, stage, start, bus_freq>>

TimerInit ==
  /\ rate \in Rates /\ now = 0 /\ pause = 0
  /\ timer = "masked" /\ initial = 0 /\ count = 0
  /\ stage = "calibrate" /\ start = 0 /\ bus_freq = 0

-----------------------------------------------------------------------------
(* The machine.                                                            *)

\* A unit passes.  A timer that reaches 0 starts again if it is periodic at that
\* moment; otherwise it stays at 0 until a count is written.
Tick ==
  /\ pause < Pause /\ stage \notin {"done", "panic"}
  /\ pause' = pause + 1 /\ now' = now + 1
  /\ count' = IF count > rate THEN count - rate
              ELSE IF count > 0 /\ timer = "periodic" THEN initial
              ELSE 0
  /\ UNCHANGED <<rate, timer, initial, stage, start, bus_freq>>

-----------------------------------------------------------------------------
(* InitCpu.                                                                *)

Proceed(from, to) == stage = from /\ stage' = to /\ pause' = 0

\* bus_freq is 0: CPU 0.  The masks of the other registers have no effect here.
Calibrate ==
  /\ Proceed("calibrate", "start")
  /\ timer' = "oneshot"
  /\ UNCHANGED <<device, initial, start, bus_freq>>

Start ==
  /\ Proceed("start", "arm")
  /\ start' = now
  /\ UNCHANGED <<device, timer, initial, bus_freq>>

\* Writing the initial count starts the timer.
Arm ==
  /\ Proceed("arm", "spin")
  /\ initial' = U32 - 1 /\ count' = U32 - 1
  /\ UNCHANGED <<rate, now, timer, start, bus_freq>>

Spin ==
  /\ stage = "spin" /\ now - start < Wait
  /\ stage' = stage /\ pause' = 0
  /\ UNCHANGED <<device, timer, initial, start, bus_freq>>

\* The loop ends only if it sees the exact moment.
SpinDoneExact ==
  /\ now - start = Wait
  /\ Proceed("spin", "stop")
  /\ UNCHANGED <<device, timer, initial, start, bus_freq>>

SpinDone ==
  /\ now - start >= Wait
  /\ Proceed("spin", "stop")
  /\ UNCHANGED <<device, timer, initial, start, bus_freq>>

Stop ==
  /\ Proceed("stop", "read")
  /\ timer' = "masked"
  /\ UNCHANGED <<device, initial, start, bus_freq>>

\* The + 1 is left out.
CountedLess(curr_count) == ((U32 - 1 - curr_count) * Divide * PerSecond) % U32

\* ((0xFFFFFFFF - curr_count) + 1) * 16 * 100, in a u32.
Counted(curr_count) == ((U32 - 1 - curr_count + 1) * Divide * PerSecond) % U32

\* kassert(bus_freq) panics on 0.
ReadCount ==
  /\ Proceed("read", IF Counted(count) = 0 THEN "panic" ELSE "program")
  /\ bus_freq' = Counted(count)
  /\ UNCHANGED <<device, timer, initial, start>>

init_count ==
  LET c == (bus_freq \div quantum) \div Divide
  IN  IF c < MinCount THEN MinCount ELSE c

\* Still masked and not yet periodic, the timer starts to count.
SetCount ==
  /\ Proceed("program", "periodic")
  /\ initial' = init_count /\ count' = init_count
  /\ UNCHANGED <<rate, now, timer, start, bus_freq>>

SetPeriodic ==
  /\ Proceed("periodic", "done")
  /\ timer' = "periodic"
  /\ UNCHANGED <<device, initial, start, bus_freq>>

InitCpu ==
  \/ Calibrate \/ Start \/ Arm \/ Spin \/ SpinDone \/ Stop
  \/ ReadCount \/ SetCount \/ SetPeriodic

TimerNext == InitCpu \/ Tick

\* The CPU runs, and time passes.
TimerSpec ==
  /\ TimerInit /\ [][TimerNext]_timer_vars
  /\ WF_timer_vars(InitCpu) /\ WF_timer_vars(Tick)

-----------------------------------------------------------------------------
(* Properties.                                                             *)

BusFreq(units) == (rate * units + 1) * Divide * PerSecond

\* The bus frequency calculated is that of the bus, to within the time the CPU
\* may lose before the timer is started and before its count is read.
Accurate ==
  stage = "program" =>
    BusFreq(Wait - Pause) <= bus_freq /\ bus_freq <= BusFreq(Wait + 3 * Pause)

\* The comment at apic.cc:94: "Set periodic mode for APIC timer".  The timer that
\* InitCpu leaves in periodic mode is counting.  The count is written first, so
\* that the timer starts in one-shot mode: if it runs out before the mode is
\* written it stays at 0, and no timer interrupt ever comes.
Ticking == stage = "done" => count > 0

\* InitCpu, once begun, comes to its end.
Calibrated == stage = "start" ~> stage = "done"
=============================================================================
