---------------------------- MODULE RouteQuarantine ----------------------------
(***************************************************************************)
(* The XPU adapters that retry a failed native call through eager and then   *)
(* keep its route quarantined: backends/xpu/gguf.py, and with the same steps *)
(* backends/xpu/svdquant_w4a16.py.  The quarantine and the route counters    *)
(* have a lock each; between two critical sections other threads run.        *)
(*                                                                          *)
(* A route key is a member of Keys.  The reason texts are left out: a        *)
(* fallback is counted, not told apart.                                      *)
(***************************************************************************)
EXTENDS Integers, FiniteSets

CONSTANTS Threads,
          Keys,     \* route keys
          MaxCalls  \* bound on the calls of a behaviour

ASSUME MaxCallsAssumption == MaxCalls \in Nat

VARIABLES
  quarantined, \* keys in _QUARANTINED_ROUTES
  routes,      \* _ROUTE_COUNTS, [route -> count]
  fallbacks,   \* _FALLBACK_COUNTS, all reasons together
  route_pc,          \* what a thread does next
  key,         \* route key of its call
  calls,       \* calls begun
  collected,   \* history: counts that resetting snapshots returned
  completed,   \* history: calls that returned, by the route that computed them
  abandoned,   \* history: eager fallbacks that raised
  warned       \* history: warnings of a key since the quarantine was reset, less
               \* the ones already owed then

diagnostics == <<routes, fallbacks>>
history == <<collected, completed, abandoned, warned>>
quarantine_vars == <<quarantined, diagnostics, route_pc, key, calls, history>>

Routes == {"xpu", "eager"}

Goto(t, l) == route_pc' = [route_pc EXCEPT ![t] = l]

-----------------------------------------------------------------------------
(* A call that the registry gave to the XPU adapter, or to eager directly. *)

BeginCall(t, k) ==
  /\ route_pc[t] = "idle"
  /\ calls < MaxCalls
  /\ calls' = calls + 1
  /\ key' = [key EXCEPT ![t] = k]
  /\ Goto(t, "check") \/ Goto(t, "direct")
  /\ UNCHANGED <<quarantined, diagnostics, history>>

\* The critical section of lines 72-73.
CheckQuarantine(t) ==
  /\ route_pc[t] = "check"
  /\ Goto(t, IF key[t] \in quarantined THEN "record fallback" ELSE "native")
  /\ UNCHANGED <<quarantined, diagnostics, key, calls, history>>

NativeReturns(t) ==
  /\ route_pc[t] = "native"
  /\ Goto(t, "record native")
  /\ UNCHANGED <<quarantined, diagnostics, key, calls, history>>

\* Any other exception than the three that are caught leaves the call.
NativeRaises(t) ==
  /\ route_pc[t] = "native"
  /\ Goto(t, "idle")
  /\ UNCHANGED <<quarantined, diagnostics, key, calls, history>>

\* As NativeFails, with first_failure taken to follow from the first check.
NativeFailsUnchecked(t) ==
  /\ route_pc[t] = "native"
  /\ quarantined' = quarantined \cup {key[t]}
  /\ Goto(t, "warn")
  /\ UNCHANGED <<diagnostics, key, calls, collected, completed, abandoned, warned>>

\* The critical section of lines 89-91.
NativeFails(t) ==
  /\ route_pc[t] = "native"
  /\ quarantined' = quarantined \cup {key[t]}
  /\ Goto(t, IF key[t] \in quarantined THEN "record fallback" ELSE "warn")
  /\ UNCHANGED <<diagnostics, key, calls, collected, completed, abandoned, warned>>

Warn(t) ==
  /\ route_pc[t] = "warn"
  /\ warned' = [warned EXCEPT ![key[t]] = @ + 1]
  /\ Goto(t, "record fallback")
  /\ UNCHANGED <<quarantined, diagnostics, key, calls, collected, completed, abandoned>>

\* The fallback is recorded first and computed then (lines 75-81, 99-102).
RecordFallback(t) ==
  /\ route_pc[t] = "record fallback"
  /\ routes' = [routes EXCEPT !["eager"] = @ + 1]
  /\ fallbacks' = fallbacks + 1
  /\ Goto(t, "fallback")
  /\ UNCHANGED <<quarantined, key, calls, history>>

\* As FallbackReturns, through the eager function that records by itself.
FallbackReturnsRecorded(t) ==
  /\ route_pc[t] = "fallback"
  /\ routes' = [routes EXCEPT !["eager"] = @ + 1]
  /\ completed' = [completed EXCEPT !["eager"] = @ + 1]
  /\ Goto(t, "idle")
  /\ UNCHANGED <<quarantined, fallbacks, key, calls, collected, abandoned, warned>>

FallbackReturns(t) ==
  /\ route_pc[t] = "fallback"
  /\ completed' = [completed EXCEPT !["eager"] = @ + 1]
  /\ Goto(t, "idle")
  /\ UNCHANGED <<quarantined, diagnostics, key, calls, collected, abandoned, warned>>

FallbackRaises(t) ==
  /\ route_pc[t] = "fallback"
  /\ abandoned' = abandoned + 1
  /\ Goto(t, "idle")
  /\ UNCHANGED <<quarantined, diagnostics, key, calls, collected, completed, warned>>

\* Native calls and direct eager ones are computed first and recorded then.
DirectReturns(t) ==
  /\ route_pc[t] = "direct"
  /\ Goto(t, "record eager")
  /\ UNCHANGED <<quarantined, diagnostics, key, calls, history>>

DirectRaises(t) ==
  /\ route_pc[t] = "direct"
  /\ Goto(t, "idle")
  /\ UNCHANGED <<quarantined, diagnostics, key, calls, history>>

RecordCompleted(t, route) ==
  /\ route_pc[t] = IF route = "xpu" THEN "record native" ELSE "record eager"
  /\ routes' = [routes EXCEPT ![route] = @ + 1]
  /\ completed' = [completed EXCEPT ![route] = @ + 1]
  /\ Goto(t, "idle")
  /\ UNCHANGED <<quarantined, fallbacks, key, calls, collected, abandoned, warned>>

-----------------------------------------------------------------------------

\* The snapshot and the reset are one critical section.
ResetDiagnostics ==
  /\ collected' = [r \in Routes |-> collected[r] + routes[r]]
  /\ routes' = [r \in Routes |-> 0]
  /\ fallbacks' = 0
  /\ UNCHANGED <<quarantined, route_pc, key, calls, completed, abandoned, warned>>

At(l) == {t \in Threads : route_pc[t] = l}

\* The warnings of a key that threads are about to give.
Owed(k) == Cardinality({t \in At("warn") : key[t] = k})

ResetQuarantine ==
  /\ quarantined' = {}
  /\ warned' = [k \in Keys |-> -Owed(k)]
  /\ UNCHANGED <<diagnostics, route_pc, key, calls, collected, completed, abandoned>>

QuarantineInit ==
  /\ quarantined = {}
  /\ routes = [r \in Routes |-> 0]
  /\ fallbacks = 0
  /\ route_pc = [t \in Threads |-> "idle"]
  /\ key \in [Threads -> Keys]
  /\ calls = 0
  /\ collected = [r \in Routes |-> 0]
  /\ completed = [r \in Routes |-> 0]
  /\ abandoned = 0
  /\ warned = [k \in Keys |-> 0]

Step(t) ==
  \/ \E k \in Keys : BeginCall(t, k)
  \/ CheckQuarantine(t)
  \/ NativeReturns(t) \/ NativeRaises(t) \/ NativeFails(t) \/ Warn(t)
  \/ RecordFallback(t) \/ FallbackReturns(t) \/ FallbackRaises(t)
  \/ DirectReturns(t) \/ DirectRaises(t)
  \/ \E route \in Routes : RecordCompleted(t, route)

QuarantineNext == (\E t \in Threads : Step(t)) \/ ResetDiagnostics \/ ResetQuarantine

QuarantineSpec == QuarantineInit /\ [][QuarantineNext]_quarantine_vars

-----------------------------------------------------------------------------
(* Properties. *)

Labels == {"idle", "check", "native", "warn", "record fallback", "fallback",
           "record native", "direct", "record eager"}

\* Every variable has its type, and no counter exceeds the calls begun.
QuarantineTypeOK ==
  /\ quarantined \subseteq Keys
  /\ routes \in [Routes -> 0 .. calls]
  /\ fallbacks \in 0 .. calls
  /\ route_pc \in [Threads -> Labels]
  /\ key \in [Threads -> Keys]
  /\ calls \in 0 .. MaxCalls
  /\ collected \in [Routes -> 0 .. calls]
  /\ completed \in [Routes -> 0 .. calls]
  /\ abandoned \in 0 .. calls
  /\ warned \in [Keys -> Int]

Counted(r) == collected[r] + routes[r]

\* No snapshot, reset or interleaving loses or doubles a call: what the counters
\* and the collected snapshots hold beyond the completed calls are the fallbacks
\* recorded and not yet returned and those that raised, and a snapshot never
\* shows a fallback without the eager route it took (gguf.py:66-67).
EveryCallCountedOnce ==
  /\ Counted("xpu") = completed["xpu"]
  /\ Counted("eager") = completed["eager"] + Cardinality(At("fallback")) + abandoned
  /\ fallbacks <= routes["eager"]

\* However many threads fail on a route at once, it is warned about once until
\* the quarantine is reset, and never left quarantined without a warning.
WarnedOncePerRoute ==
  \A k \in Keys : warned[k] + Owed(k) = IF k \in quarantined THEN 1 ELSE 0

=============================================================================
