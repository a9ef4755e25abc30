---------------------------- MODULE BackendRegistry ----------------------------
(***************************************************************************)
(* The backend registry (comfy_kitchen/registry.py).  Writers hold the lock: *)
(* a registration fills three dictionaries one after the other.  A dispatch  *)
(* takes no lock: it walks the thread's override and then the priority list, *)
(* and asks a few questions about each backend, between which writers run.   *)
(* Backends are also registered late: the CUDA one when int8_decode first    *)
(* needs it (int8_decode.py:14-23).                                          *)
(*                                                                          *)
(* The reasons of mark_unavailable only word error messages and are left     *)
(* out.  A backend is registered once, as its module is imported once.       *)
(***************************************************************************)
EXTENDS Integers, Sequences, FiniteSets

CONSTANTS Backends,
          Funcs,
          Callers,   \* threads that dispatch
          Provides,  \* [backend -> functions it registers]
          Early,     \* backends registered before the first dispatch
          Orders,    \* priority lists the program sets
          None,      \* no backend, Python's None
          MaxNesting \* bound on nested use_backend contexts of a thread

ASSUME ProvidesAssumption == Provides \in [Backends -> SUBSET Funcs \ {{}}]
ASSUME NoneAssumption == None \notin Backends
ASSUME EarlyAssumption == Early \subseteq Backends
ASSUME OrdersAssumption == Orders \subseteq Seq(Backends)
ASSUME NestingAssumption == MaxNesting \in Nat

VARIABLES
  backends,    \* registered backends
  capabilities, \* [backend -> functions]
  constraints, \* <<backend, function>> whose constraints are there
  disabled,
  priority,
  lock,        \* the backend being registered, or None
  override,    \* [caller -> thread-local override, or None]
  contexts,    \* [caller -> open use_backend contexts, innermost last]
  call,        \* [caller -> arguments of its dispatch]
  pc,          \* [caller -> "idle", "check", "run" or "failed"]
  phase,       \* where the candidates come from
  order,       \* the candidates
  at, check,   \* position in them and question asked next
  whole,       \* history: backends that were fully registered at the start
  down, up     \* history: backends disabled, enabled at some time of the call

registry == <<backends, capabilities, constraints, disabled, priority, lock>>
scan == <<call, phase, order, at, check>>
vars == <<registry, override, contexts, pc, scan, whole, down, up>>

Registered(b) ==
  /\ b \in backends
  /\ capabilities[b] = Provides[b]
  /\ {b} \X Provides[b] \subseteq constraints

-----------------------------------------------------------------------------
(* Writers. *)

\* Line 54 to the end of the with block, one dictionary write a step.
AcquireForRegister(b) ==
  /\ lock = None
  /\ b \notin backends
  /\ lock' = b
  /\ UNCHANGED <<backends, capabilities, constraints, disabled, priority>>

AddModule ==
  /\ lock # None /\ lock \notin backends
  /\ backends' = backends \cup {lock}
  /\ UNCHANGED <<capabilities, constraints, disabled, priority, lock>>

AddCapabilities ==
  /\ lock \in backends
  /\ capabilities[lock] = {}
  /\ capabilities' = [capabilities EXCEPT ![lock] = Provides[lock]]
  /\ UNCHANGED <<backends, constraints, disabled, priority, lock>>

\* As AddConstraint, with the constraints filled in before the capabilities.
AddConstraintEarly(f) ==
  /\ lock \in backends
  /\ f \in Provides[lock]
  /\ <<lock, f>> \notin constraints
  /\ constraints' = constraints \cup {<<lock, f>>}
  /\ UNCHANGED <<backends, capabilities, disabled, priority, lock>>

AddConstraint(f) ==
  /\ lock \in backends
  /\ f \in capabilities[lock]
  /\ <<lock, f>> \notin constraints
  /\ constraints' = constraints \cup {<<lock, f>>}
  /\ UNCHANGED <<backends, capabilities, disabled, priority, lock>>

ReleaseAfterRegister ==
  /\ lock # None
  /\ Registered(lock)
  /\ lock' = None
  /\ UNCHANGED <<backends, capabilities, constraints, disabled, priority>>

SetPriority ==
  /\ lock = None
  /\ priority' \in Orders
  /\ UNCHANGED <<backends, capabilities, constraints, disabled, lock>>

Disable(b) ==
  /\ lock = None
  /\ disabled' = disabled \cup {b}
  /\ down' = [t \in Callers |-> IF pc[t] = "idle" THEN {} ELSE down[t] \cup {b}]
  /\ UNCHANGED <<backends, capabilities, constraints, priority, lock, whole, up>>

Enable(b) ==
  /\ lock = None
  /\ disabled' = disabled \ {b}
  /\ up' = [t \in Callers |-> IF pc[t] = "idle" THEN {} ELSE up[t] \cup {b}]
  /\ UNCHANGED <<backends, capabilities, constraints, priority, lock, whole, down>>

Write ==
  /\ \/ /\ \/ \E b \in Backends : AcquireForRegister(b)
           \/ AddModule \/ AddCapabilities \/ ReleaseAfterRegister
           \/ \E f \in Funcs : AddConstraint(f)
           \/ SetPriority
        /\ UNCHANGED <<whole, down, up>>
     \/ \E b \in Backends : Disable(b) \/ Enable(b)
  /\ UNCHANGED <<override, contexts, pc, scan>>

-----------------------------------------------------------------------------
(* use_backend.  Backends are never removed, so the two reads of is_available *)
(* are one at the second of them.                                            *)

is_available(b) == b \in backends /\ b \notin disabled

\* Of an unavailable backend it raises and changes nothing.
EnterContext(t, b) ==
  /\ pc[t] = "idle"
  /\ Len(contexts[t]) < MaxNesting
  /\ is_available(b)
  /\ contexts' = [contexts EXCEPT ![t] = Append(@, [backend |-> b, previous |-> override[t]])]
  /\ override' = [override EXCEPT ![t] = b]
  /\ UNCHANGED <<registry, pc, scan, whole, down, up>>

\* As ExitContext, forgetting the outer context.
ExitContextToDefault(t) ==
  /\ pc[t] = "idle"
  /\ contexts[t] # <<>>
  /\ override' = [override EXCEPT ![t] = None]
  /\ contexts' = [contexts EXCEPT ![t] = SubSeq(@, 1, Len(@) - 1)]
  /\ UNCHANGED <<registry, pc, scan, whole, down, up>>

\* On return and on an exception alike.
ExitContext(t) ==
  /\ pc[t] = "idle"
  /\ contexts[t] # <<>>
  /\ override' = [override EXCEPT ![t] = contexts[t][Len(contexts[t])].previous]
  /\ contexts' = [contexts EXCEPT ![t] = SubSeq(@, 1, Len(@) - 1)]
  /\ UNCHANGED <<registry, pc, scan, whole, down, up>>

-----------------------------------------------------------------------------
(* get_implementation. *)

\* A call of a function with keyword arguments that the constraints of the
\* backends of `accepts` admit, or without any, which are not validated.
Calls ==
  UNION {[func : {f}, accepts : SUBSET {b \in Backends : f \in Provides[b]}, validate : {TRUE}] :
           f \in Funcs}
    \cup [func : Funcs, accepts : {{}}, validate : {FALSE}]

NoCall == [func |-> None, accepts |-> {}, validate |-> FALSE]

\* `explicit` is the backend argument, or None.
BeginCall(t, c, explicit) ==
  /\ pc[t] = "idle"
  /\ call' = [call EXCEPT ![t] = c]
  /\ phase' = [phase EXCEPT ![t] = IF explicit # None THEN "explicit" ELSE "override"]
  /\ order' = [order EXCEPT ![t] = IF explicit # None THEN <<explicit>>
                                   ELSE IF override[t] # None THEN <<override[t]>>
                                   ELSE <<>>]
  /\ at' = [at EXCEPT ![t] = 1]
  /\ check' = [check EXCEPT ![t] = 1]
  /\ pc' = [pc EXCEPT ![t] = "check"]
  /\ whole' = [whole EXCEPT ![t] = {b \in Backends : Registered(b)}]
  /\ down' = [down EXCEPT ![t] = disabled]
  /\ up' = [up EXCEPT ![t] = Backends \ disabled]
  /\ UNCHANGED <<registry, override, contexts>>

Candidate(t) == order[t][at[t]]

\* As Passes, with a disabled backend refused by the second check only.
PassesDisabledAtFirst(t) ==
  LET b == Candidate(t)
      f == call[t].func
  IN  CASE check[t] = 1 -> b \in backends
        [] check[t] = 3 -> is_available(b)
        [] check[t] \in {2, 4} -> f \in capabilities[b]
        [] check[t] = 5 -> <<b, f>> \in constraints => b \in call[t].accepts

\* The questions about a candidate in order: two here, then three inside
\* validate_backend_for_call, the last of which an absent entry passes.
Passes(t) ==
  LET b == Candidate(t)
      f == call[t].func
  IN  CASE check[t] \in {1, 3} -> is_available(b)
        [] check[t] \in {2, 4} -> f \in capabilities[b]
        [] check[t] = 5 -> <<b, f>> \in constraints => b \in call[t].accepts

Checking(t) == pc[t] = "check" /\ at[t] <= Len(order[t])

\* As LastCheck, without the question about the constraints.
LastCheckUnconstrained(t) == check[t] = IF call[t].validate THEN 4 ELSE 2

LastCheck(t) == check[t] = IF call[t].validate THEN 5 ELSE 2

Continue(t) ==
  /\ Checking(t) /\ Passes(t) /\ ~LastCheck(t)
  /\ check' = [check EXCEPT ![t] = @ + 1]
  /\ UNCHANGED <<registry, override, contexts, pc, call, phase, order, at, whole, down, up>>

Select(t) ==
  /\ Checking(t) /\ Passes(t) /\ LastCheck(t)
  /\ pc' = [pc EXCEPT ![t] = "run"]
  /\ UNCHANGED <<registry, override, contexts, scan, whole, down, up>>

Reject(t) ==
  /\ Checking(t) /\ ~Passes(t)
  /\ at' = [at EXCEPT ![t] = @ + 1]
  /\ check' = [check EXCEPT ![t] = 1]
  /\ UNCHANGED <<registry, override, contexts, pc, call, phase, order, whole, down, up>>

Exhausted(t) == pc[t] = "check" /\ at[t] > Len(order[t])

\* As ReadPriority, with the position left where the override put it.
ReadPriorityInPlace(t) ==
  /\ Exhausted(t) /\ phase[t] = "override"
  /\ phase' = [phase EXCEPT ![t] = "list"]
  /\ order' = [order EXCEPT ![t] = priority]
  /\ UNCHANGED <<registry, override, contexts, pc, call, at, check, whole, down, up>>

\* The loop iterates the list it found: set_priority replaces it by another.
ReadPriority(t) ==
  /\ Exhausted(t) /\ phase[t] = "override"
  /\ phase' = [phase EXCEPT ![t] = "list"]
  /\ order' = [order EXCEPT ![t] = priority]
  /\ at' = [at EXCEPT ![t] = 1]
  /\ UNCHANGED <<registry, override, contexts, pc, call, check, whole, down, up>>

Raise(t) ==
  /\ Exhausted(t) /\ phase[t] # "override"
  /\ pc' = [pc EXCEPT ![t] = "failed"]
  /\ UNCHANGED <<registry, override, contexts, scan, whole, down, up>>

\* The selected function was called or the exception left the call.
EndCall(t) ==
  /\ pc[t] \in {"run", "failed"}
  /\ pc' = [pc EXCEPT ![t] = "idle"]
  /\ call' = [call EXCEPT ![t] = NoCall]
  /\ phase' = [phase EXCEPT ![t] = "list"]
  /\ order' = [order EXCEPT ![t] = <<>>]
  /\ at' = [at EXCEPT ![t] = 1]
  /\ check' = [check EXCEPT ![t] = 1]
  /\ whole' = [whole EXCEPT ![t] = {}]
  /\ down' = [down EXCEPT ![t] = {}]
  /\ up' = [up EXCEPT ![t] = {}]
  /\ UNCHANGED <<registry, override, contexts>>

Dispatch(t) ==
  \/ \E c \in Calls, explicit \in Backends \cup {None} : BeginCall(t, c, explicit)
  \/ Continue(t) \/ Select(t) \/ Reject(t) \/ ReadPriority(t) \/ Raise(t) \/ EndCall(t)

Context(t) == ExitContext(t) \/ \E b \in Backends : EnterContext(t, b)

Init ==
  /\ backends = Early
  /\ capabilities = [b \in Backends |-> IF b \in Early THEN Provides[b] ELSE {}]
  /\ constraints = UNION {{b} \X Provides[b] : b \in Early}
  /\ disabled = {}
  /\ priority \in Orders
  /\ lock = None
  /\ override = [t \in Callers |-> None]
  /\ contexts = [t \in Callers |-> <<>>]
  /\ call = [t \in Callers |-> NoCall]
  /\ pc = [t \in Callers |-> "idle"]
  /\ phase = [t \in Callers |-> "list"]
  /\ order = [t \in Callers |-> <<>>]
  /\ at = [t \in Callers |-> 1]
  /\ check = [t \in Callers |-> 1]
  /\ whole = [t \in Callers |-> {}]
  /\ down = [t \in Callers |-> {}]
  /\ up = [t \in Callers |-> {}]

Next == Write \/ \E t \in Callers : Dispatch(t) \/ Context(t)

Spec == Init /\ [][Next]_vars

-----------------------------------------------------------------------------
(* Properties. *)

\* Every variable has its type, and only functions a backend has been listed
\* for have constraints.
TypeOK ==
  /\ backends \subseteq Backends
  /\ \A b \in Backends : capabilities[b] \in {{}, Provides[b]}
  /\ \A c \in constraints : c[1] \in backends /\ c[2] \in capabilities[c[1]]
  /\ disabled \subseteq Backends
  /\ priority \in Orders
  /\ lock \in Backends \cup {None}
  /\ override \in [Callers -> Backends \cup {None}]
  /\ pc \in [Callers -> {"idle", "check", "run", "failed"}]
  /\ phase \in [Callers -> {"explicit", "override", "list"}]
  /\ \A t \in Callers :
       /\ call[t] \in Calls \cup {NoCall}
       /\ order[t] \in Seq(Backends)
       /\ at[t] \in 1 .. Len(order[t]) + 1
       /\ check[t] \in 1 .. 5
       /\ pc[t] = "run" => at[t] <= Len(order[t])
  /\ whole \in [Callers -> SUBSET Backends]
  /\ down \in [Callers -> SUBSET Backends]
  /\ up \in [Callers -> SUBSET Backends]

\* A backend that could have run the call from its start to its end: registered
\* and enabled all along, and the arguments meet its constraints.
CapableThroughout(t, b) ==
  /\ b \in whole[t] \ down[t]
  /\ call[t].func \in Provides[b]
  /\ call[t].validate => b \in call[t].accepts

\* The candidates the dispatch has turned down.
PassedOver(t) ==
  {order[t][i] : i \in 1 .. at[t] - 1}
    \cup (IF phase[t] = "list" THEN {override[t]} \ {None} ELSE {})

\* Whatever registers, is disabled or reprioritized meanwhile, a dispatch turns
\* down no backend that could have run it throughout: it raises only if there is
\* none, and runs the first one of the override and the list it read.
NothingCapablePassedOver ==
  \A t \in Callers : pc[t] # "idle" => \A b \in PassedOver(t) : ~CapableThroughout(t, b)

\* A call runs a backend that was enabled at some time during the call and that
\* has the function ("Disable a backend, preventing its use",
\* comfy_kitchen/__init__.py:1354, up to the calls under way).
RunsEnabledImplementation ==
  \A t \in Callers :
     pc[t] = "run" => Candidate(t) \in up[t] /\ call[t].func \in Provides[Candidate(t)]

\* The constraints of a backend that was registered when the call began were
\* checked before it runs.
ValidatedOnceRegistered ==
  \A t \in Callers :
     pc[t] = "run" /\ call[t].validate /\ Candidate(t) \in whole[t]
       => Candidate(t) \in call[t].accepts

\* The override of a thread is its innermost open context, and each context
\* remembers the one around it (registry.py:311-322).
InnermostOverride ==
  \A t \in Callers :
     LET around(i) == IF i = 0 THEN None ELSE contexts[t][i].backend
     IN  /\ override[t] = around(Len(contexts[t]))
         /\ \A i \in DOMAIN contexts[t] : contexts[t][i].previous = around(i - 1)

\* "The registry validates inputs against these constraints before calling the
\* backend" (README.md:659).
ValidatedBeforeCall ==
  \A t \in Callers :
     pc[t] = "run" /\ call[t].validate => Candidate(t) \in call[t].accepts
=============================================================================
