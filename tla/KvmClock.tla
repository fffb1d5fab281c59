------------------------------ MODULE KvmClock ------------------------------
(***************************************************************************)
(* kern/kvm-clock.cc: KvmSystemTime::BootTime against the hypervisor that  *)
(* rewrites time_info.                                                     *)
(*                                                                         *)
(* Every load of time_info is a step, in the order the loop makes them.    *)
(* The object is built without optimisation: the operands of the addition  *)
(* are loaded from left to right, tsc_shift each time it is tested or used *)
(* and time_info.version a third time for the parity test.  A field holds  *)
(* the number of the update that wrote it.  The time computed from a       *)
(* snapshot is any value of Time: nothing is assumed of what the host or   *)
(* the TSC says.                                                           *)
(* A local the code will not read again is reset.                          *)
(***************************************************************************)
EXTENDS Integers

CONSTANTS Reader,      \* callers of BootTime
          Time,        \* values a snapshot may give
          MaxUpdates   \* bound: updates the host makes

ASSUME KvmAssumption ==
  /\ Time \subseteq Nat \ {0}
  /\ MaxUpdates \in Nat

Field == {"sys_time", "tsc_ts", "tsc_shift", "tsc_to_sys_mul", "flags"}

\* A snapshot's loads between v1 and v2: ProcessorNano tests tsc_shift, tests it
\* again and uses it.  (If it is not negative one of the three is not made.)
Loads ==
  <<"sys_time", "tsc_ts", "tsc_shift", "tsc_shift", "tsc_shift", "tsc_to_sys_mul", "flags">>
NrLoads == 7

VARIABLES version,        \* time_info.version
          field,          \* which update each field comes from
          last_boot_time,
          pc, v1, v2, next, tags, time, last,  \* BootTime's locals; next: the next of Loads
          floor           \* the largest answer of this path when the call began

host == <<version, field>>
locals == <<pc, v1, v2, next, tags, time, last, floor>>
vars == <<host, last_boot_time, locals>>

Odd(v) == v % 2 = 1
Update == (version + 1) \div 2   \* the update in progress, or the last one

\* KvmSystemTime(): version 0 and fields of the constructor's own making.
Init ==
  /\ version = 0
  /\ field = [f \in Field |-> 0]
  /\ last_boot_time = 0
  /\ pc = [r \in Reader |-> "idle"]
  /\ v1 = [r \in Reader |-> 0]
  /\ v2 = [r \in Reader |-> 0]
  /\ next = [r \in Reader |-> 1]
  /\ tags = [r \in Reader |-> {}]
  /\ time = [r \in Reader |-> 0]
  /\ last = [r \in Reader |-> 0]
  /\ floor = [r \in Reader |-> 0]

-----------------------------------------------------------------------------
(* The host: an odd version, the fields in any order, an even version.     *)

HostBegin ==
  /\ ~Odd(version) /\ version < 2 * MaxUpdates
  /\ version' = version + 1
  /\ UNCHANGED <<field, last_boot_time, locals>>

HostWrite(f) ==
  /\ Odd(version) /\ field[f] # Update
  /\ field' = [field EXCEPT ![f] = Update]
  /\ UNCHANGED <<version, last_boot_time, locals>>

HostEnd ==
  /\ Odd(version) /\ \A f \in Field : field[f] = Update
  /\ version' = version + 1
  /\ UNCHANGED <<field, last_boot_time, locals>>

-----------------------------------------------------------------------------
(* BootTime(use_hw_stable).                                                *)

Goto(r, label) == pc' = [pc EXCEPT ![r] = label]

Call(r) ==
  /\ pc[r] = "idle"
  /\ Goto(r, "v1")
  /\ floor' = [floor EXCEPT ![r] = last_boot_time]
  /\ UNCHANGED <<host, last_boot_time, v1, v2, next, tags, time, last>>

ReadV1(r) ==
  /\ pc[r] = "v1"
  /\ v1' = [v1 EXCEPT ![r] = version]
  /\ Goto(r, "fields")
  /\ UNCHANGED <<host, last_boot_time, v2, next, tags, time, last, floor>>

ReadField(r) ==
  /\ pc[r] = "fields" /\ next[r] <= NrLoads
  /\ next' = [next EXCEPT ![r] = @ + 1]
  /\ tags' = [tags EXCEPT ![r] = @ \cup {field[Loads[next[r]]]}]
  /\ UNCHANGED <<host, last_boot_time, pc, v1, v2, time, last, floor>>

ReadV2(r) ==
  /\ pc[r] = "fields" /\ next[r] > NrLoads
  /\ v2' = [v2 EXCEPT ![r] = version]
  /\ next' = [next EXCEPT ![r] = 1]
  /\ Goto(r, "test")
  /\ UNCHANGED <<host, last_boot_time, v1, tags, time, last, floor>>

ForgetSnapshot(r) ==
  /\ v1' = [v1 EXCEPT ![r] = 0]
  /\ v2' = [v2 EXCEPT ![r] = 0]
  /\ tags' = [tags EXCEPT ![r] = {}]

\* Only the parity is looked at.
ParityOnly(r) == Odd(version)

\* (time_info.version & 0x01) || v1 != v2, with version loaded again.
Again(r) == Odd(version) \/ v1[r] # v2[r]

Retry(r) ==
  /\ pc[r] = "test" /\ Again(r)
  /\ Goto(r, "v1")
  /\ ForgetSnapshot(r)
  /\ UNCHANGED <<host, last_boot_time, next, time, last, floor>>

\* The stable path records its time too, without the exchange.
AcceptStores(r, t, stable) ==
  /\ pc[r] = "test" /\ ~Again(r)
  /\ time' = [time EXCEPT ![r] = t]
  /\ last_boot_time' = IF stable THEN t ELSE last_boot_time
  /\ Goto(r, IF stable THEN "return" ELSE "last")
  /\ UNCHANGED <<host, v1, v2, next, tags, last, floor>>

\* The loop is left; the stable bit is set and asked for, or it is not.
Accept(r, t, stable) ==
  /\ pc[r] = "test" /\ ~Again(r)
  /\ time' = [time EXCEPT ![r] = t]
  /\ Goto(r, IF stable THEN "return" ELSE "last")
  /\ UNCHANGED <<host, last_boot_time, v1, v2, next, tags, last, floor>>

ReadLast(r) ==
  /\ pc[r] = "last"
  /\ last' = [last EXCEPT ![r] = last_boot_time]
  /\ IF time[r] <= last_boot_time
       THEN time' = [time EXCEPT ![r] = last_boot_time] /\ Goto(r, "checked")
       ELSE Goto(r, "cas") /\ UNCHANGED time
  /\ ForgetSnapshot(r)
  /\ UNCHANGED <<host, last_boot_time, next, floor>>

\* A failed exchange gives up instead of trying again.
CasNoLoop(r) ==
  /\ pc[r] = "cas"
  /\ last_boot_time' = IF last_boot_time = last[r] THEN time[r] ELSE last_boot_time
  /\ Goto(r, "checked")
  /\ UNCHANGED <<host, v1, v2, next, tags, time, last, floor>>

\* The exchange spins on the value it read first.
CasSpin(r) ==
  /\ pc[r] = "cas"
  /\ last_boot_time = last[r]
  /\ last_boot_time' = time[r]
  /\ Goto(r, "checked")
  /\ UNCHANGED <<host, v1, v2, next, tags, time, last, floor>>

Cas(r) ==
  /\ pc[r] = "cas"
  /\ IF last_boot_time = last[r]
       THEN last_boot_time' = time[r] /\ Goto(r, "checked")
       ELSE Goto(r, "last") /\ UNCHANGED last_boot_time
  /\ UNCHANGED <<host, v1, v2, next, tags, time, last, floor>>

Return(r) ==
  /\ pc[r] \in {"return", "checked"}
  /\ Goto(r, "idle")
  /\ ForgetSnapshot(r)
  /\ time' = [time EXCEPT ![r] = 0]
  /\ last' = [last EXCEPT ![r] = 0]
  /\ floor' = [floor EXCEPT ![r] = 0]
  /\ UNCHANGED <<host, last_boot_time, next>>

Host == HostBegin \/ HostEnd \/ \E f \in Field : HostWrite(f)

Step(r) ==
  \/ ReadV1(r) \/ ReadField(r)
  \/ ReadV2(r) \/ Retry(r)
  \/ \E t \in Time, stable \in BOOLEAN : Accept(r, t, stable)
  \/ ReadLast(r) \/ Cas(r) \/ Return(r)

Next == Host \/ \E r \in Reader : Call(r) \/ Step(r)

Spec == Init /\ [][Next]_vars

\* The host finishes the update it has begun; a running CPU keeps running.
FairSpec ==
  /\ Spec
  /\ WF_vars(HostEnd \/ \E f \in Field : HostWrite(f))
  /\ \A r \in Reader : WF_vars(Step(r))

-----------------------------------------------------------------------------
(* Properties *)

\* Type invariant.
TypeOK ==
  /\ version \in 0 .. (2 * MaxUpdates)
  /\ field \in [Field -> 0 .. MaxUpdates]
  /\ last_boot_time \in Time \cup {0}
  /\ pc \in [Reader -> {"idle", "v1", "fields", "test", "last", "cas", "return", "checked"}]
  /\ v1 \in [Reader -> 0 .. (2 * MaxUpdates)]
  /\ v2 \in [Reader -> 0 .. (2 * MaxUpdates)]
  /\ next \in [Reader -> 1 .. (NrLoads + 1)]
  /\ tags \in [Reader -> SUBSET (0 .. MaxUpdates)]
  /\ time \in [Reader -> Time \cup {0}]
  /\ last \in [Reader -> Time \cup {0}]
  /\ floor \in [Reader -> Time \cup {0}]

Accepted(r) == pc[r] \in {"last", "return"}

\* A snapshot that BootTime goes by, and that was begun while no update was in
\* progress, has all its fields from one update.  (One begun on an odd version
\* may be accepted torn: the parity test loads the version anew, and it may
\* have become even since v2.  KVM updates a CPU's own time_info only while that
\* CPU is not running, so that CPU never sees an odd version.)
SnapshotConsistent ==
  \A r \in Reader : Accepted(r) /\ ~Odd(v1[r]) =>
    \A a, b \in tags[r] : a = b

\* A call that goes through last_boot_time answers no less than any such call
\* had answered before it began, and its own answer binds the later ones.
MovesForward ==
  \A r \in Reader : pc[r] = "checked" =>
    floor[r] <= time[r] /\ time[r] <= last_boot_time

\* last_boot_time never moves back.
LastNeverBack == [][last_boot_time' >= last_boot_time]_vars

\* BootTime returns: both loops end once the host stops rewriting time_info.
Returns == \A r \in Reader : (pc[r] # "idle") ~> (pc[r] = "idle")

-----------------------------------------------------------------------------
(* The inductive invariant for SnapshotConsistent and MovesForward.        *)

\* Between updates every field is of the last one, during one of it or the one before.
HostInv ==
  \A f \in Field : IF Odd(version) THEN field[f] \in {Update - 1, Update}
                                   ELSE field[f] = Update

\* A snapshot begun on the even version that is still current has only its tag.
ReaderInv ==
  \A r \in Reader :
    /\ pc[r] \in {"idle", "v1", "cas", "checked"} => tags[r] = {}
    /\ pc[r] \in {"fields", "test"} => v1[r] <= version
    /\ pc[r] = "fields" /\ ~Odd(v1[r]) /\ v1[r] = version => tags[r] \subseteq {Update}
    /\ pc[r] = "test" /\ ~Odd(v1[r]) /\ v1[r] = v2[r] => tags[r] \subseteq {v1[r] \div 2}

FloorInv ==
  \A r \in Reader :
    /\ pc[r] # "idle" => floor[r] <= last_boot_time
    /\ pc[r] = "cas" => last[r] < time[r] /\ last[r] <= last_boot_time

IInv == TypeOK /\ HostInv /\ ReaderInv /\ FloorInv /\ SnapshotConsistent /\ MovesForward
=============================================================================
