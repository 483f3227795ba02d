------------------------------ MODULE MemLock ------------------------------
(***************************************************************************)
(* The memory-lock negotiation of src/main.cpp, on a host whose kernel may *)
(* refuse each call, and may also report that everything was locked and    *)
(* then fail every locked allocation (src/tools/mlock_gvisor_sim.c).       *)
(***************************************************************************)
EXTENDS Integers, Sequences

CONSTANT
  Memory        \* the largest single reservation a host may grant

ASSUME MemoryAssumption == Memory \subseteq Nat

(***************************************************************************)
(* External: the kernel.  setrlimit and mlockall may be refused; once      *)
(* MCL_FUTURE is in force a new mapping, or the mlock of a page, may fail; *)
(* MADV_POPULATE_WRITE may be unknown.                                     *)
(***************************************************************************)
Hosts == [rlimit : BOOLEAN, mlockall : BOOLEAN, maps : BOOLEAN, mlock : BOOLEAN,
          populate : BOOLEAN, memory : Memory]

EnvVars == {"HFT_DISABLE_MLOCKALL", "HFT_MADVISE_ONLY"}
LockModes == {"Locked", "Disabled", "MadviseOnly", "Pageable", "Reverted"}

VARIABLES
  host,         \* the kernel the process runs on
  env,          \* the variables set in its environment
  pc,           \* where main() is
  future,       \* MCL_FUTURE is in force
  probe,        \* the page of locked_alloc_probe_ok: none, mapped or locked
  mode          \* the LockMode, "none" before it is known

lockVars == <<host, env, future, probe, mode>>

LockInit ==
  /\ host \in Hosts
  /\ env \in SUBSET EnvVars
  /\ pc = "prepare"
  /\ future = FALSE
  /\ probe = "none"
  /\ mode = "none"

(***************************************************************************)
(* prepare_memory_locking: the environment first, then the limit and       *)
(* mlockall, then the probe.                                               *)
(***************************************************************************)
SkipLocking ==
  /\ pc = "prepare"
  /\ env # {}
  /\ mode' = IF "HFT_DISABLE_MLOCKALL" \in env THEN "Disabled" ELSE "MadviseOnly"
  /\ pc' = "recap"
  /\ UNCHANGED <<host, env, future, probe>>

LockingRefused ==
  /\ pc = "prepare"
  /\ env = {}
  /\ ~host.rlimit \/ ~host.mlockall
  /\ mode' = "Pageable"
  /\ pc' = "recap"
  /\ UNCHANGED <<host, env, future, probe>>

\* Mutant of LockAll: the success of mlockall is taken at its word.
LockAllUnprobed ==
  /\ pc = "prepare"
  /\ env = {}
  /\ host.rlimit /\ host.mlockall
  /\ future' = TRUE
  /\ mode' = "Locked"
  /\ pc' = "recap"
  /\ UNCHANGED <<host, env, probe>>

LockAll ==
  /\ pc = "prepare"
  /\ env = {}
  /\ host.rlimit /\ host.mlockall
  /\ future' = TRUE
  /\ pc' = "probe"
  /\ UNCHANGED <<host, env, probe, mode>>

(***************************************************************************)
(* locked_alloc_probe_ok maps a page, locks it, writes to it and gives it  *)
(* back; it fails when either of the first two does.                       *)
(***************************************************************************)
ProbeMap ==
  /\ pc = "probe"
  /\ probe = "none"
  /\ probe' = IF host.maps THEN "mapped" ELSE "none"
  /\ pc' = IF host.maps THEN "probe" ELSE "heal"
  /\ UNCHANGED <<host, env, future, mode>>

ProbeFails ==
  /\ pc = "probe"
  /\ probe = "mapped"
  /\ ~host.mlock
  /\ probe' = "none"
  /\ pc' = "heal"
  /\ UNCHANGED <<host, env, future, mode>>

ProbeLock ==
  /\ pc = "probe"
  /\ probe = "mapped"
  /\ host.mlock
  /\ probe' = "locked"
  /\ UNCHANGED <<host, env, pc, future, mode>>

ProbeSucceeds ==
  /\ pc = "probe"
  /\ probe = "locked"
  /\ probe' = "none"
  /\ mode' = "Locked"
  /\ pc' = "recap"
  /\ UNCHANGED <<host, env, future>>

\* Mutant of SelfHeal: the mode is reverted and the lock is left in force.
SelfHealKeepsLock ==
  /\ pc = "heal"
  /\ mode' = "Reverted"
  /\ pc' = "recap"
  /\ UNCHANGED <<host, env, future, probe>>

(***************************************************************************)
(* The probe failed: munlockall, and on with pageable memory.              *)
(***************************************************************************)
SelfHeal ==
  /\ pc = "heal"
  /\ future' = FALSE
  /\ mode' = "Reverted"
  /\ pc' = "recap"
  /\ UNCHANGED <<host, env, probe>>

Negotiate ==
  \/ SkipLocking
  \/ LockingRefused
  \/ LockAll
  \/ ProbeMap
  \/ ProbeFails
  \/ ProbeLock
  \/ ProbeSucceeds
  \/ SelfHeal

(***************************************************************************)
(* What print_lock_recap says of a mode.                                   *)
(***************************************************************************)
SaysLocked(m) == m = "Locked"

(***************************************************************************)
(* When the negotiation is over, on every host and whichever of its calls  *)
(* failed, the recap says "locked" exactly if the lock is in force, and    *)
(* the probe page has been given back.                                     *)
(***************************************************************************)
RecapTrue ==
  mode # "none" =>
    /\ SaysLocked(mode) <=> future
    /\ probe = "none"
=============================================================================
