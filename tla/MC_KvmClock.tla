---------------------------- MODULE MC_KvmClock ----------------------------
(* Two callers and one host update, which can begin and end between any    *)
(* two loads; both callers can race for last_boot_time.                    *)
EXTENDS KvmClock
=============================================================================
