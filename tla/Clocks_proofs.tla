---------------------------- MODULE Clocks_proofs ----------------------------
(***************************************************************************)
(* The kernel's two clocks.  What BootTime guarantees for any number of    *)
(* callers, any times and any number of host updates, proved along IInv;   *)
(* and the calibration of the local APIC's timer, for every rate, every    *)
(* length of the calibration and every pause of the virtual CPU, along     *)
(* TimerInv.                                                               *)
(***************************************************************************)
EXTENDS KvmClock, ApicTimer, TLAPS

-----------------------------------------------------------------------------
(* KvmSystemTime.                                                          *)

\* The constructor's state satisfies the inductive invariant.
LEMMA InitIInv == Init => IInv
  BY KvmAssumption
  DEF Init, NrLoads, IInv, TypeOK, HostInv, ReaderInv, FloorInv, SnapshotConsistent,
      MovesForward, Accepted, Field, Odd, Update

\* Every load of a snapshot is of a field of time_info.
LEMMA LoadFacts == NrLoads \in Nat /\ \A n \in 1 .. NrLoads : Loads[n] \in Field
  BY DEF Loads, Field, NrLoads

\* Each step of the program and of the host keeps the types.
LEMMA TypeStep == TypeOK /\ [Next]_vars => TypeOK'
<1> SUFFICES ASSUME TypeOK, [Next]_vars PROVE TypeOK'
  OBVIOUS
<1> USE KvmAssumption DEF TypeOK, Goto, host, locals, vars
<1>1. CASE HostBegin
  BY <1>1 DEF HostBegin, Odd
<1>2. ASSUME NEW f \in Field, HostWrite(f) PROVE TypeOK'
  BY <1>2 DEF HostWrite, Odd, Update
<1>3. CASE HostEnd
  BY <1>3 DEF HostEnd, Odd
<1>4. ASSUME NEW r \in Reader, Call(r) PROVE TypeOK'
  BY <1>4 DEF Call
<1>5. ASSUME NEW r \in Reader, ReadV1(r) PROVE TypeOK'
  BY <1>5 DEF ReadV1
<1>6. ASSUME NEW r \in Reader, ReadField(r) PROVE TypeOK'
  <2>1. next[r] \in 1 .. NrLoads /\ next[r] + 1 \in 1 .. (NrLoads + 1)
    BY <1>6 DEF ReadField, NrLoads
  <2>2. field[Loads[next[r]]] \in 0 .. MaxUpdates
    BY <2>1, LoadFacts
  <2> QED BY <1>6, <2>1, <2>2 DEF ReadField
<1>7. ASSUME NEW r \in Reader, ReadV2(r) PROVE TypeOK'
  BY <1>7 DEF ReadV2, NrLoads
<1>8. ASSUME NEW r \in Reader, Retry(r) PROVE TypeOK'
  BY <1>8 DEF Retry, ForgetSnapshot
<1>9. ASSUME NEW r \in Reader, NEW t \in Time, NEW stable \in BOOLEAN, Accept(r, t, stable)
      PROVE TypeOK'
  BY <1>9 DEF Accept
<1>10. ASSUME NEW r \in Reader, ReadLast(r) PROVE TypeOK'
  BY <1>10 DEF ReadLast, ForgetSnapshot
<1>11. ASSUME NEW r \in Reader, Cas(r) PROVE TypeOK'
  BY <1>11 DEF Cas
<1>12. ASSUME NEW r \in Reader, Return(r) PROVE TypeOK'
  BY <1>12 DEF Return, ForgetSnapshot
<1>13. CASE UNCHANGED vars
  BY <1>13
<1> QED
  BY <1>1, <1>2, <1>3, <1>4, <1>5, <1>6, <1>7, <1>8, <1>9, <1>10, <1>11, <1>12, <1>13
  DEF Next, Host, Step

\* The host's own discipline: HostInv depends on nothing the readers do.
LEMMA HostStep == TypeOK /\ HostInv /\ [Next]_vars => HostInv'
<1> SUFFICES ASSUME TypeOK, HostInv, [Next]_vars PROVE HostInv'
  OBVIOUS
<1> USE KvmAssumption DEF HostInv, Odd, Update
<1>1. CASE HostBegin
  BY <1>1 DEF HostBegin, TypeOK
<1>2. ASSUME NEW f \in Field, HostWrite(f) PROVE HostInv'
  BY <1>2 DEF HostWrite, TypeOK
<1>3. CASE HostEnd
  BY <1>3 DEF HostEnd, TypeOK
<1>4. CASE UNCHANGED host
  BY <1>4 DEF host
<1>5. ASSUME NEW r \in Reader, Call(r) \/ Step(r) PROVE UNCHANGED host
  BY <1>5, Zenon DEF Call, Step, ReadV1, ReadField, ReadV2, Retry, Accept, ReadLast, Cas, Return
<1>6. UNCHANGED vars => UNCHANGED host
  BY DEF vars
<1> QED
  BY <1>1, <1>2, <1>3, <1>4, <1>5, <1>6 DEF Next, Host

\* What the readers know of a snapshot they have begun.
Snapshots == ReaderInv /\ SnapshotConsistent

\* A host step moves the version on, so that it cannot spoil an even snapshot
\* unnoticed; a reader's step concerns that reader alone.
LEMMA SnapshotStep ==
  TypeOK /\ HostInv /\ Snapshots /\ [Next]_vars => Snapshots'
<1> SUFFICES ASSUME TypeOK, HostInv, Snapshots, [Next]_vars PROVE Snapshots'
  OBVIOUS
<1> USE KvmAssumption DEF Snapshots, ReaderInv, SnapshotConsistent, Accepted, Goto
<1>0. version \in Nat
  BY DEF TypeOK
<1>1. CASE HostBegin
  BY <1>0, <1>1 DEF HostBegin, locals, TypeOK, Odd, Update
<1>2. ASSUME NEW f \in Field, HostWrite(f) PROVE Snapshots'
  BY <1>0, <1>2 DEF HostWrite, locals, TypeOK, Odd, Update
<1>3. CASE HostEnd
  BY <1>0, <1>3 DEF HostEnd, locals, TypeOK, Odd, Update
<1>4. ASSUME NEW r \in Reader, Call(r) PROVE Snapshots'
  BY <1>0, <1>4 DEF Call, host, TypeOK, Update
<1>5. ASSUME NEW r \in Reader, ReadV1(r) PROVE Snapshots'
  BY <1>0, <1>5 DEF ReadV1, host, TypeOK, Update
<1>6. ASSUME NEW r \in Reader, ReadField(r) PROVE Snapshots'
  <2>1. next[r] \in 1 .. NrLoads
    BY <1>6 DEF ReadField, TypeOK, NrLoads
  <2>2. Loads[next[r]] \in Field
    BY <2>1, LoadFacts
  <2> QED BY <1>0, <1>6, <2>2 DEF ReadField, host, TypeOK, Update, HostInv
<1>7. ASSUME NEW r \in Reader, ReadV2(r) PROVE Snapshots'
  BY <1>0, <1>7 DEF ReadV2, host, TypeOK, Odd, Update
<1>8. ASSUME NEW r \in Reader, Retry(r) PROVE Snapshots'
  BY <1>0, <1>8 DEF Retry, ForgetSnapshot, host, TypeOK, Update
<1>9. ASSUME NEW r \in Reader, NEW t \in Time, NEW stable \in BOOLEAN, Accept(r, t, stable)
      PROVE Snapshots'
  BY <1>0, <1>9 DEF Accept, host, TypeOK, Update, Again
<1>10. ASSUME NEW r \in Reader, ReadLast(r) PROVE Snapshots'
  BY <1>0, <1>10 DEF ReadLast, ForgetSnapshot, host, TypeOK, Update
<1>11. ASSUME NEW r \in Reader, Cas(r) PROVE Snapshots'
  BY <1>0, <1>11 DEF Cas, host, TypeOK, Update
<1>12. ASSUME NEW r \in Reader, Return(r) PROVE Snapshots'
  BY <1>0, <1>12 DEF Return, ForgetSnapshot, host, TypeOK, Update
<1>13. CASE UNCHANGED vars
  BY <1>13 DEF vars, locals, host, Update
<1> QED
  BY <1>1, <1>2, <1>3, <1>4, <1>5, <1>6, <1>7, <1>8, <1>9, <1>10, <1>11, <1>12, <1>13
  DEF Next, Host, Step

\* What the readers know of last_boot_time.
Answers == FloorInv /\ MovesForward

\* last_boot_time only grows, so that what was at most it stays so.
LEMMA AnswerStep ==
  TypeOK /\ Answers /\ [Next]_vars => Answers' /\ last_boot_time' >= last_boot_time
<1> SUFFICES ASSUME TypeOK, Answers, [Next]_vars
             PROVE Answers' /\ last_boot_time' >= last_boot_time
  OBVIOUS
<1> DEFINE Goal == Answers' /\ last_boot_time' >= last_boot_time
<1> USE KvmAssumption DEF Answers, FloorInv, MovesForward, Goto
<1>0. /\ last_boot_time \in Nat
      /\ \A r \in Reader : time[r] \in Nat /\ last[r] \in Nat /\ floor[r] \in Nat
  <2>1. Time \cup {0} \subseteq Nat
    OBVIOUS
  <2> QED
    BY <2>1 DEF TypeOK
<1>1. CASE Host
  <2>1. UNCHANGED <<last_boot_time, locals>>
    BY <1>1 DEF Host, HostBegin, HostWrite, HostEnd
  <2> QED
    BY <1>0, <2>1 DEF locals
<1>4. ASSUME NEW r \in Reader, Call(r) PROVE Goal
  BY <1>0, <1>4 DEF Call, TypeOK
<1>5. ASSUME NEW r \in Reader, ReadV1(r) PROVE Goal
  BY <1>0, <1>5 DEF ReadV1, TypeOK
<1>6. ASSUME NEW r \in Reader, ReadField(r) PROVE Goal
  BY <1>0, <1>6 DEF ReadField, TypeOK
<1>7. ASSUME NEW r \in Reader, ReadV2(r) PROVE Goal
  BY <1>0, <1>7 DEF ReadV2, TypeOK
<1>8. ASSUME NEW r \in Reader, Retry(r) PROVE Goal
  BY <1>0, <1>8 DEF Retry, TypeOK
<1>9. ASSUME NEW r \in Reader, NEW t \in Time, NEW stable \in BOOLEAN, Accept(r, t, stable)
      PROVE Goal
  BY <1>0, <1>9 DEF Accept, TypeOK
<1>10. ASSUME NEW r \in Reader, ReadLast(r) PROVE Goal
  BY <1>0, <1>10 DEF ReadLast, TypeOK
<1>11. ASSUME NEW r \in Reader, Cas(r) PROVE Goal
  BY <1>0, <1>11 DEF Cas, TypeOK
<1>12. ASSUME NEW r \in Reader, Return(r) PROVE Goal
  BY <1>0, <1>12 DEF Return, TypeOK
<1>13. CASE UNCHANGED vars
  BY <1>0, <1>13 DEF vars, locals
<1> QED
  BY <1>1, <1>4, <1>5, <1>6, <1>7, <1>8, <1>9, <1>10, <1>11, <1>12, <1>13
  DEF Next, Step

\* The inductive invariant holds throughout.
LEMMA Inductive == Spec => []IInv
<1>1. IInv /\ [Next]_vars => IInv'
  BY TypeStep, HostStep, SnapshotStep, AnswerStep DEF IInv, Snapshots, Answers
<1> QED
  BY InitIInv, <1>1, PTL DEF Spec

\* However the host's updates fall between its loads, BootTime leaves the loop with
\* a snapshot of one update if it began it on an even version.
THEOREM Snapshot == Spec => []SnapshotConsistent
<1>1. IInv => SnapshotConsistent
  BY DEF IInv
<1> QED
  BY Inductive, <1>1, PTL

\* However many callers race through the compare-and-swap, no answer is below one
\* given before its call began.
THEOREM Forward == Spec => []MovesForward
<1>1. IInv => MovesForward
  BY DEF IInv
<1> QED
  BY Inductive, <1>1, PTL

\* No step of BootTime lowers last_boot_time.
THEOREM NeverBack == Spec => LastNeverBack
<1>1. IInv /\ [Next]_vars => [last_boot_time' >= last_boot_time]_vars
  BY AnswerStep DEF IInv, Answers
<1> QED
  BY Inductive, <1>1, PTL DEF Spec, LastNeverBack

-----------------------------------------------------------------------------
(* InitCpu.                                                                *)

\* The CPU is never away for as long as a calibration, and the frequency of every
\* machine fits in the u32 that bus_freq is.
FreqFits ==
  /\ Pause < Wait
  /\ \A r \in Rates : (r * (Wait + 3 * Pause) + 1) * Divide * PerSecond < U32

-----------------------------------------------------------------------------
(* The inductive invariant.                                                *)

TimerTypeOK ==
  /\ rate \in Rates
  /\ now \in Nat /\ start \in Nat
  /\ pause \in Nat /\ pause <= Pause
  /\ count \in Nat /\ bus_freq \in Nat
  /\ timer \in {"masked", "oneshot", "periodic"}
  /\ stage \in {"calibrate", "start", "arm", "spin", "stop", "read", "program", "periodic", "done", "panic"}

\* The time of the write that started the timer: the counts since then are gone, and
\* at most Pause units had passed since start was read.
Armed(n) ==
  /\ n <= start + Pause
  /\ count = U32 - 1 - rate * (now - n)

\* How long ago start was read, at InitCpu's last step.
LastStep == now - pause - start

\* Until the timer is started it stands at 0.
Idle == stage \in {"calibrate", "start", "arm"} => count = 0

Waiting ==
  /\ stage = "arm" => now = start + pause
  /\ stage = "spin" => (\E n \in start .. now : Armed(n)) /\ LastStep < Wait
  /\ stage = "stop" => (\E n \in start .. now : Armed(n)) /\ LastStep >= Wait /\ LastStep < Wait + Pause
  /\ stage = "read" => (\E n \in start .. now : Armed(n)) /\ LastStep >= Wait /\ LastStep < Wait + 2 * Pause

\* The timer ticks only once InitCpu is done.
Quiet == timer = "periodic" => stage = "done"

TimerInv == TimerTypeOK /\ Idle /\ Waiting /\ Quiet

-----------------------------------------------------------------------------
(* Arithmetic.                                                             *)

LEMMA Constants ==
  /\ U32 \in Nat /\ U32 >= 1 /\ Wait \in Nat /\ Wait >= 1 /\ PerSecond \in Nat /\ PerSecond >= 1
  /\ Divide \in Nat /\ Divide >= 1 /\ quantum \in Nat /\ quantum >= 1
  /\ MinCount \in Nat /\ MinCount >= 1 /\ Pause \in Nat /\ Pause >= 1
  /\ \A r \in Rates : r \in Nat /\ r >= 1
BY TimerAssumption

LEMMA Products ==
  ASSUME NEW r \in Nat, NEW u \in Nat, NEW v \in Nat, u <= v
  PROVE  r * u \in Nat /\ r * v \in Nat /\ r * u <= r * v /\ r * (u + 1) = r * u + r
<1>1. PICK d \in Nat : v = u + d
  <2>1. v - u \in Nat /\ v = u + (v - u)
    OBVIOUS
  <2> QED BY <2>1
<1>2. r * v = r * u + r * d /\ r * u \in Nat /\ r * d \in Nat
  BY <1>1
<1> QED BY <1>2

\* A frequency that fits in bus_freq leaves the timer counts of a calibration.
LEMMA CountsFit ==
  ASSUME FreqFits, NEW r \in Rates
  PROVE  r * (Wait + 3 * Pause) < U32
<1> DEFINE x == r * (Wait + 3 * Pause) + 1
           y == x * Divide
<1>1. x \in Nat /\ y * PerSecond < U32
  BY Constants DEF FreqFits
<1> HIDE DEF x
<1>2. y \in Nat /\ x <= y
  BY <1>1, Constants, Products
<1> HIDE DEF y
<1>3. y <= y * PerSecond /\ y * PerSecond \in Nat
  BY <1>2, Constants, Products
<1>4. x < U32
  BY <1>1, <1>2, <1>3, Constants
<1> QED BY <1>4, Constants DEF x

LEMMA SmallMod ==
  ASSUME NEW x \in Nat, NEW n \in Nat, x < n
  PROVE  x % n = x
OBVIOUS

\* While the calibration lasts, the timer does not run out: a unit takes rate counts.
LEMMA Counts ==
  ASSUME FreqFits, TimerTypeOK, NEW n \in start .. now, Armed(n), LastStep < Wait + 2 * Pause, pause < Pause
  PROVE  count > rate /\ count - rate = U32 - 1 - rate * (now + 1 - n)
<1> DEFINE u == now - n
           w == Wait + 3 * Pause
<1>1. /\ rate \in Nat /\ rate >= 1 /\ rate * w < U32 /\ U32 \in Nat
      /\ now \in Nat /\ n \in Nat /\ n >= start /\ n <= now /\ pause \in Nat
  BY Constants, CountsFit DEF TimerTypeOK
<1>2. u \in Nat /\ w \in Nat /\ u + 2 <= w /\ u + 2 \in Nat
  BY <1>1, Constants DEF LastStep, TimerTypeOK
<1>3. count = U32 - 1 - rate * u
  BY DEF Armed
<1>4. now + 1 - n = u + 1 /\ (u + 1) + 1 = u + 2
  BY <1>1
<1> HIDE DEF u, w
<1>5. rate * (u + 1) = rate * u + rate /\ rate * u \in Nat
  BY <1>1, <1>2, Products
<1>6. rate * (u + 2) = rate * u + rate + rate
  <2>1. u + 1 \in Nat
    BY <1>2
  <2>2. rate * ((u + 1) + 1) = rate * (u + 1) + rate
    BY <1>1, <2>1, Products
  <2> QED BY <1>4, <1>5, <2>2
<1>7. rate * (u + 2) <= rate * w
  BY <1>1, <1>2, Products
<1>8. rate * w \in Nat
  BY <1>1, <1>2, Products
<1>9. count > rate
  BY <1>1, <1>3, <1>5, <1>6, <1>7, <1>8
<1>10. count - rate = U32 - 1 - rate * (u + 1)
  BY <1>1, <1>3, <1>5
<1> QED BY <1>4, <1>9, <1>10

-----------------------------------------------------------------------------
(* The invariant is kept.                                                  *)

LEMMA InitCount == ASSUME TimerTypeOK PROVE init_count \in Nat
<1>1. bus_freq \div quantum \in Nat
  BY Constants DEF TimerTypeOK
<1>2. (bus_freq \div quantum) \div Divide \in Nat
  BY <1>1, Constants
<1> QED BY <1>2, Constants DEF init_count

LEMMA CountedNat == ASSUME TimerTypeOK PROVE Counted(count) \in Nat
<1>1. (U32 - 1 - count + 1) * Divide * PerSecond \in Int
  BY Constants DEF TimerTypeOK
<1> QED BY <1>1, Constants DEF Counted

LEMMA TickInv ==
  ASSUME FreqFits, TimerInv, Tick
  PROVE  TimerInv'
<1>1. /\ pause < Pause /\ stage \notin {"done", "panic"}
      /\ pause' = pause + 1 /\ now' = now + 1
      /\ count' = IF count > rate THEN count - rate
                  ELSE IF count > 0 /\ timer = "periodic" THEN initial ELSE 0
      /\ rate' = rate /\ timer' = timer /\ stage' = stage /\ start' = start /\ bus_freq' = bus_freq
  BY DEF Tick
<1>2. timer # "periodic"
  BY <1>1 DEF TimerInv, Quiet
<1>3. /\ rate \in Nat /\ rate >= 1 /\ now \in Nat /\ start \in Nat /\ pause \in Nat /\ count \in Nat
      /\ Wait \in Nat /\ Pause \in Nat
  BY Constants DEF TimerInv, TimerTypeOK
<1>4. ASSUME stage \in {"spin", "stop", "read"}
      PROVE  /\ count > rate /\ count' = count - rate
             /\ \E n \in start' .. now' : Armed(n)'
  <2>1. PICK n \in start .. now : Armed(n)
    BY <1>4 DEF TimerInv, Waiting
  <2>2. LastStep < Wait + 2 * Pause
    BY <1>3, <1>4 DEF TimerInv, Waiting, LastStep
  <2>3. count > rate /\ count - rate = U32 - 1 - rate * (now + 1 - n)
    BY <1>1, <2>1, <2>2, Counts DEF TimerInv
  <2>4. n \in start' .. now' /\ Armed(n)'
    BY <1>1, <1>3, <2>1, <2>3 DEF Armed
  <2> QED BY <1>1, <2>3, <2>4
<1>6. ASSUME stage \in {"calibrate", "start", "arm"} PROVE count = 0 /\ count' = 0
  BY <1>1, <1>2, <1>3, <1>6 DEF TimerInv, Idle
<1>7. TimerTypeOK'
  <2>1. count' \in Nat
    BY <1>1, <1>2, <1>3
  <2>2. pause' \in Nat /\ pause' <= Pause /\ now' \in Nat
    BY <1>1, <1>3
  <2> QED BY <1>1, <2>1, <2>2 DEF TimerInv, TimerTypeOK
<1>8. Idle'
  BY <1>1, <1>6 DEF Idle
<1>9. Waiting'
  <2>1. LastStep' = LastStep
    BY <1>1, <1>3 DEF LastStep
  <2>2. stage = "arm" => now' = start' + pause'
    BY <1>1, <1>3 DEF TimerInv, Waiting
  <2> QED BY <1>1, <1>4, <2>1, <2>2 DEF TimerInv, Waiting
<1>10. Quiet'
  BY <1>1, <1>2 DEF Quiet
<1> QED BY <1>7, <1>8, <1>9, <1>10 DEF TimerInv

\* A step of InitCpu that leaves the timer's count alone.
LEMMA StepInv ==
  ASSUME FreqFits, TimerInv, Calibrate \/ Start \/ Spin \/ SpinDone \/ Stop \/ ReadCount \/ SetPeriodic
  PROVE  TimerInv'
<1>1. /\ rate' = rate /\ now' = now /\ count' = count /\ pause' = 0
  BY DEF Calibrate, Start, Spin, SpinDone, Stop, ReadCount, SetPeriodic, Proceed, device
<1>2. /\ rate \in Nat /\ now \in Nat /\ start \in Nat /\ pause \in Nat /\ pause <= Pause /\ count \in Nat
      /\ Wait \in Nat /\ Wait >= 1 /\ Pause \in Nat /\ Pause < Wait /\ Pause >= 1
  BY Constants DEF FreqFits, TimerInv, TimerTypeOK
<1>3. TimerTypeOK'
  <2>1. bus_freq' \in Nat
    BY CountedNat DEF TimerInv, TimerTypeOK, Calibrate, Start, Spin, SpinDone, Stop, ReadCount, SetPeriodic
  <2>2. start' \in Nat
    BY <1>2 DEF Calibrate, Start, Spin, SpinDone, Stop, ReadCount, SetPeriodic
  <2>3. timer' \in {"masked", "oneshot", "periodic"}
    BY DEF TimerInv, TimerTypeOK, Calibrate, Start, Spin, SpinDone, Stop, ReadCount, SetPeriodic
  <2>4. stage' \in {"calibrate", "start", "arm", "spin", "stop", "read", "program", "periodic", "done", "panic"}
    BY DEF Proceed, TimerInv, TimerTypeOK, Calibrate, Start, Spin, SpinDone, Stop, ReadCount, SetPeriodic
  <2> QED BY <1>1, <1>2, <2>1, <2>2, <2>3, <2>4 DEF TimerInv, TimerTypeOK
<1>4. Idle'
  BY <1>1 DEF TimerInv, Idle, Proceed, Calibrate, Start, Spin, SpinDone, Stop, ReadCount, SetPeriodic
<1>5. Waiting'
  <2>1. CASE Calibrate \/ ReadCount \/ SetPeriodic
    BY <2>1 DEF Waiting, Proceed, Calibrate, ReadCount, SetPeriodic
  <2>2. CASE Start
    BY <1>1, <1>2, <2>2 DEF Waiting, Proceed, Start
  <2>3. CASE Spin \/ SpinDone \/ Stop
    <3>1. start' = start /\ stage \in {"spin", "stop"}
      BY <2>3 DEF Proceed, Spin, SpinDone, Stop
    <3>2. \E n \in start' .. now' : Armed(n)'
      BY <1>1, <3>1 DEF TimerInv, Waiting, Armed
    <3>3. LastStep' = LastStep + pause
      BY <1>1, <1>2, <3>1 DEF LastStep
    <3>4. CASE Spin
      <4>1. stage' = "spin" /\ now - start < Wait
        BY <3>4 DEF Spin
      <4> QED BY <1>1, <1>2, <3>1, <3>2, <4>1 DEF Waiting, LastStep
    <3>5. CASE SpinDone
      <4>1. stage = "spin" /\ stage' = "stop" /\ now - start >= Wait
        BY <3>5 DEF SpinDone, Proceed
      <4>2. LastStep < Wait
        BY <4>1 DEF TimerInv, Waiting
      <4>3. LastStep' >= Wait /\ LastStep' < Wait + Pause
        BY <1>1, <1>2, <3>1, <4>1, <4>2 DEF LastStep
      <4> QED BY <3>2, <4>1, <4>3 DEF Waiting
    <3>6. CASE Stop
      <4>1. stage = "stop" /\ stage' = "read"
        BY <3>6 DEF Stop, Proceed
      <4>2. LastStep >= Wait /\ LastStep < Wait + Pause
        BY <4>1 DEF TimerInv, Waiting
      <4>3. LastStep' >= Wait /\ LastStep' < Wait + 2 * Pause
        BY <1>1, <1>2, <3>1, <4>2 DEF LastStep
      <4> QED BY <3>2, <4>1, <4>3 DEF Waiting
    <3> QED BY <2>3, <3>4, <3>5, <3>6
  <2> QED BY <2>1, <2>2, <2>3
<1>6. Quiet'
  BY DEF TimerInv, Quiet, Proceed, Calibrate, Start, Spin, SpinDone, Stop, ReadCount, SetPeriodic
<1> QED BY <1>3, <1>4, <1>5, <1>6 DEF TimerInv

\* The writes of the initial count.
LEMMA WriteInv ==
  ASSUME FreqFits, TimerInv, Arm \/ SetCount
  PROVE  TimerInv'
<1>1. /\ rate' = rate /\ now' = now /\ pause' = 0 /\ timer' = timer
      /\ start' = start /\ bus_freq' = bus_freq
  BY DEF Arm, SetCount, Proceed
<1>2. /\ rate \in Nat /\ now \in Nat /\ start \in Nat /\ pause \in Nat /\ pause <= Pause
      /\ Wait \in Nat /\ Pause \in Nat /\ Pause < Wait /\ U32 \in Nat /\ U32 >= 1
  BY Constants DEF FreqFits, TimerInv, TimerTypeOK
<1>3. CASE Arm
  <2>1. stage = "arm" /\ stage' = "spin" /\ count' = U32 - 1
    BY <1>3 DEF Arm, Proceed
  <2>2. now = start + pause
    BY <2>1 DEF TimerInv, Waiting
  <2>3. TimerTypeOK'
    BY <1>1, <1>2, <2>1 DEF TimerInv, TimerTypeOK
  <2>4. Idle'
    BY <2>1 DEF Idle
  <2>5. Waiting'
    <3>1. now' - now = 0 /\ rate * 0 = 0
      BY <1>1, <1>2
    <3>2. PICK m : m = now
      OBVIOUS
    <3>3. m \in start' .. now' /\ Armed(m)'
      BY <1>1, <1>2, <2>1, <2>2, <3>1, <3>2 DEF Armed
    <3>4. LastStep' < Wait
      BY <1>1, <1>2, <2>2 DEF LastStep
    <3> QED BY <2>1, <3>3, <3>4 DEF Waiting
  <2>6. Quiet'
    BY <1>1, <2>1 DEF TimerInv, Quiet
  <2> QED BY <2>3, <2>4, <2>5, <2>6 DEF TimerInv
<1>4. CASE SetCount
  <2>1. stage = "program" /\ stage' = "periodic" /\ count' = init_count
    BY <1>4 DEF SetCount, Proceed
  <2>2. init_count \in Nat
    BY InitCount DEF TimerInv
  <2>3. TimerTypeOK'
    BY <1>1, <1>2, <2>1, <2>2 DEF TimerInv, TimerTypeOK
  <2>4. Idle' /\ Waiting'
    BY <2>1 DEF Idle, Waiting
  <2>5. Quiet'
    BY <1>1, <2>1 DEF TimerInv, Quiet
  <2> QED BY <2>3, <2>4, <2>5 DEF TimerInv
<1> QED BY <1>3, <1>4

\* The calibration is as TimerInv says at every step of InitCpu (kern/apic.cc).
LEMMA TimerInductive == ASSUME FreqFits PROVE TimerSpec => []TimerInv
<1>1. TimerInit => TimerInv
  BY Constants DEF TimerInit, TimerInv, TimerTypeOK, Idle, Waiting, Quiet
<1>2. TimerInv /\ [TimerNext]_timer_vars => TimerInv'
  <2> SUFFICES ASSUME TimerInv, [TimerNext]_timer_vars PROVE TimerInv'
    OBVIOUS
  <2>1. CASE UNCHANGED timer_vars
    BY <2>1, Zenon DEF timer_vars, TimerInv, TimerTypeOK, Idle, Waiting, Armed, LastStep, Quiet
  <2> QED BY <2>1, TickInv, StepInv, WriteInv DEF TimerNext, InitCpu
<1> QED BY <1>1, <1>2, PTL DEF TimerSpec

\* The count that ReadCount reads gives the frequency, between the bounds.
LEMMA Measured ==
  ASSUME FreqFits, TimerInv, ReadCount, stage' = "program"
  PROVE  BusFreq(Wait - Pause) <= Counted(count) /\ Counted(count) <= BusFreq(Wait + 3 * Pause)
<1>1. stage = "read"
  BY DEF ReadCount, Proceed
<1>2. PICK n \in start .. now : Armed(n)
  BY <1>1 DEF TimerInv, Waiting
<1> DEFINE u == now - n
           lo == Wait - Pause
           hi == Wait + 3 * Pause
           k == Divide * PerSecond
<1>3. /\ rate \in Nat /\ count \in Nat /\ U32 \in Nat /\ Divide \in Nat /\ PerSecond \in Nat
      /\ count = U32 - 1 - rate * u
  BY <1>2, Constants DEF TimerInv, TimerTypeOK, Armed
<1>4. u \in Nat /\ lo \in Nat /\ hi \in Nat /\ lo <= u /\ u <= hi
  <2>1. /\ LastStep >= Wait /\ LastStep < Wait + 2 * Pause /\ n <= start + Pause
        /\ now \in Nat /\ start \in Nat /\ pause \in Nat /\ pause <= Pause
    BY <1>1, <1>2 DEF TimerInv, Waiting, TimerTypeOK, Armed
  <2>2. Pause < Wait
    BY DEF FreqFits
  <2> QED BY <1>2, <2>1, <2>2, Constants DEF LastStep
<1>5. (rate * hi + 1) * Divide * PerSecond < U32
  BY DEF FreqFits, TimerInv, TimerTypeOK
<1> HIDE DEF u, lo, hi
<1>6. /\ rate * lo \in Nat /\ rate * u \in Nat /\ rate * hi \in Nat
      /\ rate * lo <= rate * u /\ rate * u <= rate * hi
  BY <1>3, <1>4, Products
<1>7. ASSUME NEW x \in Nat
      PROVE  x * Divide * PerSecond = k * x /\ k \in Nat /\ k * x \in Nat
  BY <1>3
<1> HIDE DEF k
<1>8. /\ k * (rate * lo + 1) <= k * (rate * u + 1)
      /\ k * (rate * u + 1) <= k * (rate * hi + 1)
  <2>1. rate * lo + 1 \in Nat /\ rate * u + 1 \in Nat /\ rate * hi + 1 \in Nat /\ k \in Nat
    BY <1>6, <1>7
  <2>2. rate * lo + 1 <= rate * u + 1 /\ rate * u + 1 <= rate * hi + 1
    BY <1>6
  <2> QED BY <2>1, <2>2, Products
<1>9. U32 - 1 - count + 1 = rate * u + 1
  BY <1>3, <1>6
<1>10. Counted(count) = (k * (rate * u + 1)) % U32
  BY <1>6, <1>7, <1>9 DEF Counted
<1>11. k * (rate * u + 1) \in Nat /\ k * (rate * hi + 1) \in Nat /\ k * (rate * hi + 1) < U32
  BY <1>5, <1>6, <1>7
<1>12. Counted(count) = k * (rate * u + 1)
  <2>1. k * (rate * u + 1) < U32
    BY <1>3, <1>8, <1>11
  <2> QED BY <1>3, <1>10, <1>11, <2>1, SmallMod
<1>13. BusFreq(Wait - Pause) = k * (rate * lo + 1) /\ BusFreq(Wait + 3 * Pause) = k * (rate * hi + 1)
  BY <1>6, <1>7 DEF BusFreq, lo, hi
<1> QED BY <1>8, <1>12, <1>13

\* The bus frequency is measured to within the time the CPU may lose, if it is
\* never away for a whole calibration and the frequencies of the machines fit in
\* bus_freq.
THEOREM AlwaysAccurate == ASSUME FreqFits PROVE TimerSpec => []Accurate
<1>1. TimerInit => Accurate
  BY DEF TimerInit, Accurate
<1>2. TimerInv /\ Accurate /\ [TimerNext]_timer_vars => Accurate'
  <2> SUFFICES ASSUME TimerInv, Accurate, [TimerNext]_timer_vars, stage' = "program"
               PROVE  BusFreq(Wait - Pause)' <= bus_freq' /\ bus_freq' <= BusFreq(Wait + 3 * Pause)'
    BY DEF Accurate
  <2>1. rate' = rate
    BY DEF TimerNext, InitCpu, timer_vars, Tick, Calibrate, Start, Arm, Spin, SpinDone, Stop, ReadCount,
           SetCount, SetPeriodic, device
  <2>2. CASE ReadCount
    <3>1. bus_freq' = Counted(count)
      BY <2>2 DEF ReadCount
    <3> QED BY <2>1, <2>2, <3>1, Measured DEF BusFreq
  <2>3. CASE ~ReadCount
    <3>1. stage = "program" /\ bus_freq' = bus_freq
      BY <2>3 DEF TimerNext, InitCpu, timer_vars, Tick, Calibrate, Start, Arm, Spin, SpinDone, Stop, SetCount,
                  SetPeriodic, Proceed
    <3> QED BY <2>1, <3>1 DEF Accurate, BusFreq
  <2> QED BY <2>2, <2>3
<1>3. TimerSpec => []TimerInv
  BY TimerInductive
<1> QED BY <1>1, <1>2, <1>3, PTL DEF TimerSpec
=============================================================================
