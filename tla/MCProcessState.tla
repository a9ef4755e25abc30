---------------------------- MODULE MCProcessState ----------------------------
(***************************************************************************)
(* What outlives a call, besides the registry: the quarantine of XPU routes,   *)
(* prepared W4A16 weights, the caches of the CUDA backend and the INT8 cache of *)
(* a decode prefix.  None of them touches another, so a behaviour drives one,   *)
(* named by `part`, with no loss of interleavings that matter.                 *)
(***************************************************************************)
EXTENDS Int8DecodeCache, RouteQuarantine, MCPreparedWeight, DeviceCaches, TLC

VARIABLE part

process_vars == <<part, vars, quarantine_vars, weight_vars, device_vars>>

ProcessInit ==
  /\ part \in {"decode", "quarantine", "weights", "workspace", "rope"}
  /\ Init
  /\ part # "decode" => sourceRows = Capacity /\ pc = "write"
  /\ QuarantineInit
  /\ part # "quarantine" => key \in {[t \in Threads |-> k] : k \in Keys}
  /\ WeightInit
  /\ DeviceInit
  /\ part # "workspace" => current = [t \in Callers |-> 1]

ProcessNext ==
  \/ part = "decode" /\ Next /\ UNCHANGED <<part, quarantine_vars, weight_vars, device_vars>>
  \/ part = "quarantine" /\ QuarantineNext /\ UNCHANGED <<part, vars, weight_vars, device_vars>>
  \/ part = "weights" /\ WeightNext /\ UNCHANGED <<part, vars, quarantine_vars, device_vars>>
  \/ part = "workspace" /\ NextForward /\ UNCHANGED <<part, vars, quarantine_vars, weight_vars>>
  \/ part = "rope" /\ NextRotate /\ UNCHANGED <<part, vars, quarantine_vars, weight_vars>>

ProcessSpec == ProcessInit /\ [][ProcessNext]_process_vars

\* No action or property tells the threads apart; Callers is Threads in the cfg.
ThreadSymmetry == Permutations(Threads)

-----------------------------------------------------------------------------
\* The variables of every part have their types.
ProcessTypeOK == TypeOK /\ QuarantineTypeOK /\ WeightTypeOK /\ DeviceTypeOK
=============================================================================
