------------------------- MODULE BackendRegistry_proofs -------------------------
(***************************************************************************)
(* Proofs about BackendRegistry, for any backends, functions, priority lists *)
(* and dispatching threads.                                                  *)
(*                                                                          *)
(* A dispatch relies on two facts that no writer takes back: a registered    *)
(* backend stays registered, and down and up hold whatever is disabled or     *)
(* enabled now.  Settled says so of a thread, Unmoved that the steps of       *)
(* writers and of other threads keep it.                                     *)
(***************************************************************************)
EXTENDS BackendRegistry, SequenceTheorems, TLAPS

ContextType == [backend : Backends, previous : Backends \cup {None}]

Shapes ==
  /\ capabilities \in [Backends -> SUBSET Funcs]
  /\ lock \in Backends \cup {None}
  /\ disabled \in SUBSET Backends
  /\ priority \in Seq(Backends)
  /\ override \in [Callers -> Backends \cup {None}]
  /\ contexts \in [Callers -> Seq(ContextType)]
  /\ pc \in [Callers -> {"idle", "check", "run", "failed"}]
  /\ phase \in [Callers -> {"explicit", "override", "list"}]
  /\ call \in [Callers -> Calls \cup {NoCall}]
  /\ order \in [Callers -> Seq(Backends)]
  /\ at \in [Callers -> Nat \ {0}]
  /\ check \in [Callers -> 1 .. 5]
  /\ whole \in [Callers -> SUBSET Backends]
  /\ down \in [Callers -> SUBSET Backends]
  /\ up \in [Callers -> SUBSET Backends]

\* What the registry says of any backend, at any time.
Filled == \A b \in Backends : capabilities[b] \in {{}, Provides[b]}

\* A backend in a slot of the candidates has passed the checks before this one.
Passed(t) ==
  IF at[t] <= Len(order[t])
  THEN /\ check[t] > 1 => Candidate(t) \in up[t]
       /\ check[t] > 2 => call[t].func \in Provides[Candidate(t)]
  ELSE check[t] = 1

Runs(t) ==
  /\ at[t] <= Len(order[t])
  /\ Candidate(t) \in up[t]
  /\ call[t].func \in Provides[Candidate(t)]
  /\ call[t].validate /\ Candidate(t) \in whole[t] => Candidate(t) \in call[t].accepts

OverrideFirst(t) ==
  phase[t] = "override" => order[t] = IF override[t] # None THEN <<override[t]>> ELSE <<>>

\* What a dispatch under way relies on.
Settled(t) ==
  /\ \A b \in whole[t] : Registered(b)
  /\ disabled \subseteq down[t]
  /\ Backends \ disabled \subseteq up[t]
  /\ OverrideFirst(t)
  /\ check[t] > 2 => call[t].validate
  /\ at[t] <= Len(order[t]) + 1
  /\ pc[t] = "check" => Passed(t)
  /\ \A b \in PassedOver(t) : ~CapableThroughout(t, b)
  /\ pc[t] = "run" => Runs(t)

Inv == Shapes /\ Filled /\ \A t \in Callers : pc[t] # "idle" => Settled(t)

\* The variables of a thread that a step leaves alone.
SameCaller(t) ==
  /\ pc'[t] = pc[t] /\ call'[t] = call[t] /\ phase'[t] = phase[t] /\ order'[t] = order[t]
  /\ at'[t] = at[t] /\ check'[t] = check[t] /\ whole'[t] = whole[t] /\ override'[t] = override[t]

LEMMA Unmoved ==
  ASSUME Inv, NEW t \in Callers, SameCaller(t),
         \A b \in Backends : Registered(b) => Registered(b)',
         pc[t] # "idle",
         down[t] \subseteq down'[t], up[t] \subseteq up'[t],
         disabled' \subseteq down'[t], Backends \ disabled' \subseteq up'[t]
  PROVE  Settled(t)'
<1>1. Settled(t) /\ whole[t] \subseteq Backends
  BY DEF Inv, Shapes
<1>2. Candidate(t)' = Candidate(t)
  BY DEF SameCaller, Candidate
<1>3. \A b \in whole'[t] : Registered(b)'
  BY <1>1 DEF Settled, SameCaller
<1>4. OverrideFirst(t)'
  BY <1>1 DEF Settled, SameCaller, OverrideFirst
<1>5. pc'[t] = "check" => Passed(t)'
  BY <1>1, <1>2 DEF Settled, SameCaller, Passed
<1>6. pc'[t] = "run" => Runs(t)'
  BY <1>1, <1>2 DEF Settled, SameCaller, Runs
<1>7. PassedOver(t)' = PassedOver(t)
  BY DEF SameCaller, PassedOver
<1>8. \A b : CapableThroughout(t, b)' => CapableThroughout(t, b)
  BY DEF SameCaller, CapableThroughout
<1> QED BY <1>1, <1>3, <1>4, <1>5, <1>6, <1>7, <1>8 DEF Settled, SameCaller

LEMMA InitInv == Init => Inv
<1> SUFFICES ASSUME Init PROVE Inv
  OBVIOUS
<1>1. Shapes
  BY ProvidesAssumption, EarlyAssumption, OrdersAssumption DEF Init, Shapes
<1>2. Filled
  BY EarlyAssumption DEF Init, Filled
<1> QED BY <1>1, <1>2 DEF Init, Inv

\* Nothing a writer does unregisters a backend.
LEMMA WriteInv == ASSUME Inv, Write PROVE Inv'
<1>1. UNCHANGED <<override, contexts, pc, scan>>
  BY DEF Write
<1>2. UNCHANGED <<call, phase, order, at, check>>
  BY <1>1 DEF scan
<1>3. \A t \in Callers : whole' = whole /\ SameCaller(t)
  BY <1>1, <1>2 DEF SameCaller, Write, Disable, Enable
<1>4. Filled /\ Shapes
  BY DEF Inv
<1>5. capabilities' \in [Backends -> SUBSET Funcs] /\ Filled'
      /\ backends \subseteq backends' /\ constraints \subseteq constraints'
      /\ \A b \in Backends : capabilities[b] = Provides[b] => capabilities'[b] = Provides[b]
  <2>1. CASE AddCapabilities
    <3>1. lock \in Backends \/ lock = None
      BY <1>4 DEF Shapes
    <3>2. capabilities' = [capabilities EXCEPT ![lock] = Provides[lock]]
          /\ backends' = backends /\ constraints' = constraints
      BY <2>1 DEF AddCapabilities
    <3> QED BY <3>1, <3>2, <1>4, ProvidesAssumption, NoneAssumption DEF Shapes, Filled
  <2>2. CASE capabilities' = capabilities /\ backends \subseteq backends'
             /\ constraints \subseteq constraints'
    BY <2>2, <1>4 DEF Shapes, Filled
  <2> QED
    BY <2>1, <2>2 DEF Write, AcquireForRegister, AddModule, AddConstraint,
       ReleaseAfterRegister, SetPriority, Disable, Enable
<1>6. \A b \in Backends : Registered(b) => Registered(b)'
  BY <1>5 DEF Registered
<1>7. lock' \in Backends \cup {None} /\ priority' \in Seq(Backends) /\ disabled' \in SUBSET Backends
  BY <1>4, OrdersAssumption
     DEF Write, AcquireForRegister, AddModule, AddCapabilities, AddConstraint,
         ReleaseAfterRegister, SetPriority, Disable, Enable, Shapes
<1>8. /\ down' \in [Callers -> SUBSET Backends] /\ up' \in [Callers -> SUBSET Backends]
      /\ \A t \in Callers : pc[t] # "idle" =>
           /\ down[t] \subseteq down'[t] /\ up[t] \subseteq up'[t]
           /\ disabled' \subseteq down'[t] /\ Backends \ disabled' \subseteq up'[t]
  <2>0. \A t \in Callers : pc[t] # "idle" =>
           disabled \subseteq down[t] /\ Backends \ disabled \subseteq up[t]
    BY DEF Inv, Settled
  <2>1. ASSUME NEW b \in Backends, Disable(b) PROVE <1>8!:
    BY <2>0, <2>1, <1>4 DEF Disable, Shapes
  <2>2. ASSUME NEW b \in Backends, Enable(b) PROVE <1>8!:
    BY <2>0, <2>2, <1>4 DEF Enable, Shapes
  <2>3. CASE UNCHANGED <<disabled, down, up>>
    BY <2>0, <2>3, <1>4 DEF Shapes
  <2> QED
    BY <2>1, <2>2, <2>3 DEF Write, AcquireForRegister, AddModule, AddCapabilities,
       AddConstraint, ReleaseAfterRegister, SetPriority
<1>9. Shapes'
  BY <1>1, <1>2, <1>3, <1>4, <1>5, <1>7, <1>8 DEF Shapes, Write, Disable, Enable
<1>10. \A t \in Callers : pc'[t] # "idle" => Settled(t)'
  BY <1>1, <1>3, <1>6, <1>8, Unmoved
<1> QED BY <1>5, <1>9, <1>10 DEF Inv

\* A step of one dispatch.
LEMMA OneDispatch ==
  ASSUME Inv, NEW t \in Callers, UNCHANGED <<registry, override, contexts>>, Shapes',
         \A u \in Callers \ {t} : SameCaller(u) /\ down'[u] = down[u] /\ up'[u] = up[u],
         pc'[t] # "idle" => Settled(t)'
  PROVE  Inv'
<1>1. /\ backends' = backends /\ capabilities' = capabilities /\ constraints' = constraints
      /\ disabled' = disabled
  BY DEF registry
<1>2. Filled' /\ \A b \in Backends : Registered(b) => Registered(b)'
  BY <1>1 DEF Inv, Filled, Registered
<1>3. ASSUME NEW u \in Callers \ {t}, pc'[u] # "idle" PROVE Settled(u)'
  <2>1. SameCaller(u) /\ down'[u] = down[u] /\ up'[u] = up[u] /\ pc[u] # "idle"
    BY <1>3 DEF SameCaller
  <2>2. disabled \subseteq down[u] /\ Backends \ disabled \subseteq up[u]
    BY <2>1 DEF Inv, Settled
  <2> QED BY <1>1, <1>2, <2>1, <2>2, Unmoved
<1> QED BY <1>2, <1>3 DEF Inv

\* A step that reads the registry and moves on within the dispatch.
Reading(t) ==
  /\ UNCHANGED <<registry, override, contexts, call, whole, down, up>>
  /\ pc[t] # "idle"
  /\ \A u \in Callers \ {t} : /\ pc'[u] = pc[u] /\ phase'[u] = phase[u] /\ order'[u] = order[u]
                              /\ at'[u] = at[u] /\ check'[u] = check[u]

LEMMA OneReading ==
  ASSUME Inv, NEW t \in Callers, Reading(t), Shapes', OverrideFirst(t)',
         check'[t] > 2 => call[t].validate,
         at'[t] <= Len(order'[t]) + 1,
         pc'[t] = "check" => Passed(t)',
         \A b \in PassedOver(t)' : ~CapableThroughout(t, b),
         pc'[t] = "run" => Runs(t)'
  PROVE  Inv'
<1>1. Settled(t)
  BY DEF Inv, Reading
<1>2. Settled(t)'
  BY <1>1 DEF Settled, Reading, registry, Registered, CapableThroughout
<1> QED BY <1>2, OneDispatch DEF Reading, SameCaller

LEMMA BeginCallInv ==
  ASSUME Inv, NEW t \in Callers, NEW c \in Calls, NEW explicit \in Backends \cup {None},
         BeginCall(t, c, explicit)
  PROVE  Inv'
<1> DEFINE first == IF explicit # None THEN <<explicit>>
                    ELSE IF override[t] # None THEN <<override[t]>> ELSE <<>>
<1>1. /\ call' = [call EXCEPT ![t] = c]
      /\ phase' = [phase EXCEPT ![t] = IF explicit # None THEN "explicit" ELSE "override"]
      /\ order' = [order EXCEPT ![t] = first]
      /\ at' = [at EXCEPT ![t] = 1]
      /\ check' = [check EXCEPT ![t] = 1]
      /\ pc' = [pc EXCEPT ![t] = "check"]
      /\ whole' = [whole EXCEPT ![t] = {b \in Backends : Registered(b)}]
      /\ down' = [down EXCEPT ![t] = disabled]
      /\ up' = [up EXCEPT ![t] = Backends \ disabled]
      /\ UNCHANGED <<registry, override, contexts>>
  BY DEF BeginCall
<1>2. /\ lock' = lock /\ disabled' = disabled /\ capabilities' = capabilities /\ priority' = priority
      /\ override' = override /\ contexts' = contexts
      /\ backends' = backends /\ constraints' = constraints
  BY <1>1 DEF registry
<1>3. Shapes
  BY DEF Inv
<1>4. first \in Seq(Backends)
  BY <1>3 DEF Shapes
<1>5. Shapes'
  BY <1>1, <1>2, <1>3, <1>4 DEF Shapes
<1>6. /\ phase'[t] = (IF explicit # None THEN "explicit" ELSE "override")
      /\ order'[t] = first /\ at'[t] = 1 /\ check'[t] = 1 /\ pc'[t] = "check"
      /\ whole'[t] = {b \in Backends : Registered(b)}
      /\ down'[t] = disabled /\ up'[t] = Backends \ disabled
  BY <1>1, <1>3 DEF Shapes
<1>7. Settled(t)'
  <2>1. \A b \in whole'[t] : Registered(b)'
    BY <1>2, <1>6 DEF Registered
  <2>2. OverrideFirst(t)'
    BY <1>2, <1>6 DEF OverrideFirst
  <2>3. Len(order'[t]) \in Nat
    BY <1>4, <1>6
  <2>4. Passed(t)'
    BY <1>6 DEF Passed
  <2>5. PassedOver(t)' = {}
    BY <1>6 DEF PassedOver
  <2> QED BY <1>2, <1>6, <2>1, <2>2, <2>3, <2>4, <2>5 DEF Settled
<1>8. \A u \in Callers \ {t} : SameCaller(u) /\ down'[u] = down[u] /\ up'[u] = up[u]
  BY <1>1, <1>2, <1>3 DEF Shapes, SameCaller
<1> QED BY <1>1, <1>5, <1>7, <1>8, OneDispatch

\* A candidate that fails a question could not have run the call throughout.
LEMMA RejectedIncapable ==
  ASSUME Inv, NEW t \in Callers, Checking(t), ~Passes(t)
  PROVE  ~CapableThroughout(t, Candidate(t))
<1> DEFINE b == Candidate(t)
<1>1. SUFFICES ASSUME CapableThroughout(t, b) PROVE FALSE
  OBVIOUS
<1>2. Settled(t) /\ Passed(t) /\ at[t] <= Len(order[t])
  BY DEF Inv, Checking, Settled
<1>3. Registered(b) /\ b \notin disabled /\ call[t].func \in Provides[b]
      /\ (call[t].validate => b \in call[t].accepts)
  BY <1>1, <1>2 DEF CapableThroughout, Settled
<1>4. is_available(b) /\ call[t].func \in capabilities[b]
  BY <1>3 DEF is_available, Registered
<1>5. check[t] \in 1 .. 5
  BY DEF Inv, Shapes
<1>6. check[t] = 5 => b \in call[t].accepts
  BY <1>2, <1>3 DEF Settled
<1>7. check[t] = 1 \/ check[t] = 2 \/ check[t] = 3 \/ check[t] = 4 \/ check[t] = 5
  BY <1>5
<1> QED BY <1>4, <1>6, <1>7 DEF Passes

\* What the last question leaves known of the candidate, and what the others add.
LEMMA PassedQuestion ==
  ASSUME Inv, NEW t \in Callers, Checking(t), Passes(t)
  PROVE  /\ Candidate(t) \in up[t]
         /\ check[t] > 1 => call[t].func \in Provides[Candidate(t)]
         /\ check[t] = 5 /\ Candidate(t) \in whole[t] => Candidate(t) \in call[t].accepts
<1> DEFINE b == Candidate(t)
<1>1. Settled(t) /\ Passed(t) /\ at[t] <= Len(order[t])
  BY DEF Inv, Checking, Settled
<1>2. b \in Backends
  BY <1>1 DEF Inv, Shapes, Candidate
<1>3. check[t] \in 1 .. 5
  BY DEF Inv, Shapes
<1>4. check[t] = 1 => b \in up[t]
  BY <1>1, <1>2 DEF Passes, is_available, Settled
<1>5. check[t] = 2 => call[t].func \in Provides[b]
  BY <1>2 DEF Passes, Inv, Filled
<1>6. check[t] > 2 => b \in up[t] /\ call[t].func \in Provides[b]
  BY <1>1, <1>3 DEF Passed
<1>7. check[t] > 1 => b \in up[t]
  BY <1>1 DEF Passed
<1>8. check[t] = 5 /\ b \in whole[t] => b \in call[t].accepts
  <2>1. SUFFICES ASSUME check[t] = 5, b \in whole[t] PROVE b \in call[t].accepts
    OBVIOUS
  <2>2. Registered(b)
    BY <1>1, <2>1 DEF Settled
  <2>3. <<b, call[t].func>> \in constraints
    BY <1>6, <2>1, <2>2 DEF Registered
  <2> QED BY <2>1, <2>3 DEF Passes
<1> QED BY <1>3, <1>4, <1>5, <1>6, <1>7, <1>8

LEMMA ContinueInv == ASSUME Inv, NEW t \in Callers, Continue(t) PROVE Inv'
<1>1. /\ check' = [check EXCEPT ![t] = @ + 1]
      /\ UNCHANGED <<registry, override, contexts, pc, call, phase, order, at, whole, down, up>>
      /\ Checking(t) /\ Passes(t) /\ ~LastCheck(t)
  BY DEF Continue
<1>2. Shapes /\ Settled(t) /\ pc[t] = "check" /\ at[t] <= Len(order[t])
  BY <1>1 DEF Inv, Checking
<1>3. check[t] \in 1 .. 5 /\ (check[t] > 2 => call[t].validate)
  BY <1>2 DEF Shapes, Settled
<1>4. check[t] < 5 /\ (check[t] > 1 => call[t].validate)
  BY <1>1, <1>3 DEF LastCheck
<1>5. check'[t] = check[t] + 1 /\ check'[t] \in 1 .. 5
  BY <1>1, <1>2, <1>3, <1>4 DEF Shapes
<1>6. Shapes'
  BY <1>1, <1>2, <1>5 DEF Shapes, registry
<1>7. Passed(t)'
  BY <1>1, <1>2, <1>3, <1>5, PassedQuestion DEF Passed, Candidate
<1>8. Reading(t)
  BY <1>1, <1>2 DEF Reading, Shapes
<1>9. PassedOver(t)' = PassedOver(t) /\ OverrideFirst(t)'
  BY <1>1, <1>2 DEF PassedOver, Settled, OverrideFirst
<1>10. \A b \in PassedOver(t)' : ~CapableThroughout(t, b)
  BY <1>2, <1>9 DEF Settled
<1>11. check'[t] > 2 => call[t].validate
  BY <1>3, <1>4, <1>5
<1>12. at'[t] <= Len(order'[t]) + 1 /\ pc'[t] # "run"
  BY <1>1, <1>2 DEF Settled
<1> QED BY <1>6, <1>7, <1>8, <1>9, <1>10, <1>11, <1>12, OneReading

LEMMA SelectInv == ASSUME Inv, NEW t \in Callers, Select(t) PROVE Inv'
<1>1. /\ pc' = [pc EXCEPT ![t] = "run"]
      /\ UNCHANGED <<registry, override, contexts, call, phase, order, at, check, whole, down, up>>
      /\ Checking(t) /\ Passes(t) /\ LastCheck(t)
  BY DEF Select, scan
<1>2. Shapes /\ Settled(t) /\ pc[t] = "check" /\ at[t] <= Len(order[t])
  BY <1>1 DEF Inv, Checking
<1>3. check[t] = IF call[t].validate THEN 5 ELSE 2
  BY <1>1 DEF LastCheck
<1>4. Runs(t)
  BY <1>1, <1>2, <1>3, PassedQuestion DEF Runs
<1>5. Shapes'
  BY <1>1, <1>2 DEF Shapes, registry
<1>6. Reading(t)
  BY <1>1, <1>2 DEF Reading, Shapes
<1>7. PassedOver(t)' = PassedOver(t) /\ OverrideFirst(t)' /\ (Runs(t) => Runs(t)')
  BY <1>1, <1>2 DEF PassedOver, Settled, OverrideFirst, Runs, Candidate
<1>8. pc'[t] = "run"
  BY <1>1, <1>2 DEF Shapes
<1>9. /\ \A b \in PassedOver(t)' : ~CapableThroughout(t, b)
      /\ check'[t] > 2 => call[t].validate
      /\ at'[t] <= Len(order'[t]) + 1
  BY <1>1, <1>2, <1>7 DEF Settled
<1> QED BY <1>4, <1>5, <1>6, <1>7, <1>8, <1>9, OneReading

LEMMA RejectInv == ASSUME Inv, NEW t \in Callers, Reject(t) PROVE Inv'
<1>1. /\ at' = [at EXCEPT ![t] = @ + 1]
      /\ check' = [check EXCEPT ![t] = 1]
      /\ UNCHANGED <<registry, override, contexts, pc, call, phase, order, whole, down, up>>
      /\ Checking(t) /\ ~Passes(t)
  BY DEF Reject
<1>2. Shapes /\ Settled(t) /\ pc[t] = "check" /\ at[t] <= Len(order[t])
  BY <1>1 DEF Inv, Checking
<1>3. at'[t] = at[t] + 1 /\ check'[t] = 1 /\ at[t] \in Nat \ {0} /\ Len(order[t]) \in Nat
  BY <1>1, <1>2 DEF Shapes
<1>4. Shapes'
  BY <1>1, <1>2, <1>3 DEF Shapes, registry
<1>5. Reading(t)
  BY <1>1, <1>2 DEF Reading, Shapes
<1>6. Passed(t)'
  BY <1>3 DEF Passed
<1>7. PassedOver(t)' = PassedOver(t) \cup {Candidate(t)}
  <2>1. 1 .. at'[t] - 1 = (1 .. at[t] - 1) \cup {at[t]}
    BY <1>3
  <2> QED BY <1>1, <2>1 DEF PassedOver, Candidate
<1>8. \A b \in PassedOver(t)' : ~CapableThroughout(t, b)
  BY <1>1, <1>2, <1>7, RejectedIncapable DEF Settled
<1>9. /\ OverrideFirst(t)' /\ at'[t] <= Len(order'[t]) + 1
      /\ ~(check'[t] > 2) /\ pc'[t] # "run"
  BY <1>1, <1>2, <1>3 DEF Settled, OverrideFirst
<1> QED BY <1>4, <1>5, <1>6, <1>8, <1>9, OneReading

\* The override was turned down, and the list begins.
LEMMA ReadPriorityInv == ASSUME Inv, NEW t \in Callers, ReadPriority(t) PROVE Inv'
<1>1. /\ pc[t] = "check" /\ at[t] > Len(order[t]) /\ phase[t] = "override"
      /\ phase' = [phase EXCEPT ![t] = "list"]
      /\ order' = [order EXCEPT ![t] = priority]
      /\ at' = [at EXCEPT ![t] = 1]
      /\ UNCHANGED <<registry, override, contexts, pc, call, check, whole, down, up>>
  BY DEF ReadPriority, Exhausted
<1>2. Shapes /\ Settled(t)
  BY <1>1 DEF Inv
<1>3. /\ phase'[t] = "list" /\ order'[t] = priority /\ at'[t] = 1
      /\ priority \in Seq(Backends) /\ Len(priority) \in Nat
      /\ at[t] \in Nat /\ Len(order[t]) \in Nat
  BY <1>1, <1>2 DEF Shapes
<1>4. check[t] = 1
  BY <1>1, <1>2, <1>3 DEF Settled, Passed
<1>5. Shapes'
  BY <1>1, <1>2, <1>3 DEF Shapes, registry
<1>6. Reading(t)
  BY <1>1, <1>2 DEF Reading, Shapes
<1>7. PassedOver(t)' = {override[t]} \ {None}
  BY <1>1, <1>3 DEF PassedOver
<1>8. override[t] # None => override[t] \in PassedOver(t)
  <2>1. SUFFICES ASSUME override[t] # None PROVE override[t] \in PassedOver(t)
    OBVIOUS
  <2>2. order[t] = <<override[t]>>
    BY <1>1, <1>2, <2>1 DEF Settled, OverrideFirst
  <2>3. Len(order[t]) = 1 /\ order[t][1] = override[t]
    BY <2>2
  <2>4. 1 \in 1 .. at[t] - 1
    BY <1>1, <1>3, <2>3
  <2> QED BY <2>3, <2>4 DEF PassedOver
<1>9. \A b \in PassedOver(t)' : ~CapableThroughout(t, b)
  BY <1>2, <1>7, <1>8 DEF Settled
<1>10. Passed(t)' /\ OverrideFirst(t)'
  BY <1>1, <1>3, <1>4 DEF Passed, OverrideFirst
<1>11. /\ ~(check'[t] > 2) /\ at'[t] <= Len(order'[t]) + 1 /\ pc'[t] # "run"
  BY <1>1, <1>3, <1>4
<1> QED BY <1>5, <1>6, <1>9, <1>10, <1>11, OneReading

LEMMA RaiseInv == ASSUME Inv, NEW t \in Callers, Raise(t) PROVE Inv'
<1>1. /\ pc[t] = "check" /\ pc' = [pc EXCEPT ![t] = "failed"]
      /\ UNCHANGED <<registry, override, contexts, call, phase, order, at, check, whole, down, up>>
  BY DEF Raise, scan, Exhausted
<1>2. Shapes /\ Settled(t)
  BY <1>1 DEF Inv
<1>3. Shapes'
  BY <1>1, <1>2 DEF Shapes, registry
<1>4. Reading(t)
  BY <1>1, <1>2 DEF Reading, Shapes
<1>5. pc'[t] = "failed"
  BY <1>1, <1>2 DEF Shapes
<1>6. PassedOver(t)' = PassedOver(t) /\ OverrideFirst(t)'
  BY <1>1, <1>2 DEF PassedOver, Settled, OverrideFirst
<1>7. /\ \A b \in PassedOver(t)' : ~CapableThroughout(t, b)
      /\ check'[t] > 2 => call[t].validate
      /\ at'[t] <= Len(order'[t]) + 1
  BY <1>1, <1>2, <1>6 DEF Settled
<1> QED BY <1>3, <1>4, <1>5, <1>6, <1>7, OneReading

LEMMA EndCallInv == ASSUME Inv, NEW t \in Callers, EndCall(t) PROVE Inv'
<1>1. /\ pc' = [pc EXCEPT ![t] = "idle"]
      /\ call' = [call EXCEPT ![t] = NoCall]
      /\ phase' = [phase EXCEPT ![t] = "list"]
      /\ order' = [order EXCEPT ![t] = <<>>]
      /\ at' = [at EXCEPT ![t] = 1]
      /\ check' = [check EXCEPT ![t] = 1]
      /\ whole' = [whole EXCEPT ![t] = {}]
      /\ down' = [down EXCEPT ![t] = {}]
      /\ up' = [up EXCEPT ![t] = {}]
      /\ UNCHANGED <<registry, override, contexts>>
  BY DEF EndCall
<1>2. Shapes
  BY DEF Inv
<1>3. Shapes'
  BY <1>1, <1>2 DEF Shapes, registry
<1>4. \A u \in Callers \ {t} : SameCaller(u) /\ down'[u] = down[u] /\ up'[u] = up[u]
  BY <1>1, <1>2 DEF Shapes, SameCaller
<1>5. pc'[t] = "idle"
  BY <1>1, <1>2 DEF Shapes
<1> QED BY <1>1, <1>3, <1>4, <1>5, OneDispatch

\* A thread enters and leaves contexts between its calls.
LEMMA ContextInv == ASSUME Inv, NEW t \in Callers, Context(t) PROVE Inv'
<1>1. Shapes
  BY DEF Inv
<1>2. /\ pc[t] = "idle" /\ UNCHANGED <<registry, pc, scan, whole, down, up>>
      /\ \A u \in Callers \ {t} : override'[u] = override[u]
      /\ override' \in [Callers -> Backends \cup {None}]
      /\ contexts' \in [Callers -> Seq(ContextType)]
  <2>1. ASSUME NEW b \in Backends, EnterContext(t, b) PROVE <1>2!:
    <3>1. override[t] \in Backends \cup {None} /\ contexts[t] \in Seq(ContextType)
      BY <1>1 DEF Shapes
    <3>2. [backend |-> b, previous |-> override[t]] \in ContextType
      BY <3>1 DEF ContextType
    <3>3. Append(contexts[t], [backend |-> b, previous |-> override[t]]) \in Seq(ContextType)
      BY <3>1, <3>2
    <3> QED BY <1>1, <2>1, <3>3 DEF EnterContext, Shapes
  <2>2. CASE ExitContext(t)
    <3>1. contexts[t] \in Seq(ContextType) /\ contexts[t] # <<>>
      BY <1>1, <2>2 DEF ExitContext, Shapes
    <3>2. contexts[t][Len(contexts[t])] \in ContextType
      BY <3>1
    <3>3. contexts[t][Len(contexts[t])].previous \in Backends \cup {None}
      BY <3>2 DEF ContextType
    <3>4. SubSeq(contexts[t], 1, Len(contexts[t]) - 1) \in Seq(ContextType)
      BY <3>1
    <3> QED BY <1>1, <2>2, <3>3, <3>4 DEF ExitContext, Shapes
  <2> QED BY <2>1, <2>2 DEF Context
<1>3. /\ UNCHANGED <<backends, capabilities, constraints, disabled, priority, lock>>
      /\ UNCHANGED <<pc, call, phase, order, at, check, whole, down, up>>
  BY <1>2 DEF registry, scan
<1>4. Shapes'
  BY <1>1, <1>2, <1>3 DEF Shapes
<1>5. Filled' /\ \A b \in Backends : Registered(b) => Registered(b)'
  BY <1>3 DEF Inv, Filled, Registered
<1>6. ASSUME NEW u \in Callers, pc'[u] # "idle" PROVE Settled(u)'
  <2>1. SameCaller(u) /\ down'[u] = down[u] /\ up'[u] = up[u] /\ pc[u] # "idle"
    BY <1>2, <1>3, <1>6 DEF SameCaller
  <2>2. disabled \subseteq down[u] /\ Backends \ disabled \subseteq up[u]
    BY <2>1 DEF Inv, Settled
  <2> QED BY <1>3, <1>5, <2>1, <2>2, Unmoved
<1> QED BY <1>4, <1>5, <1>6 DEF Inv

LEMMA NextInv == ASSUME Inv, [Next]_vars PROVE Inv'
<1>1. CASE UNCHANGED vars
  <2>1. /\ UNCHANGED <<backends, capabilities, constraints, disabled, priority, lock>>
        /\ UNCHANGED <<override, contexts, pc, call, phase, order, at, check, whole, down, up>>
    BY <1>1 DEF vars, registry, scan
  <2>2. Shapes'
    BY <2>1 DEF Inv, Shapes
  <2>3. Filled' /\ \A b \in Backends : Registered(b) => Registered(b)'
    BY <2>1 DEF Inv, Filled, Registered
  <2>4. ASSUME NEW u \in Callers, pc'[u] # "idle" PROVE Settled(u)'
    <3>1. SameCaller(u) /\ down'[u] = down[u] /\ up'[u] = up[u] /\ pc[u] # "idle"
      BY <2>1, <2>4 DEF SameCaller
    <3>2. disabled \subseteq down[u] /\ Backends \ disabled \subseteq up[u]
      BY <3>1 DEF Inv, Settled
    <3> QED BY <2>1, <2>3, <3>1, <3>2, Unmoved
  <2> QED BY <2>2, <2>3, <2>4 DEF Inv
<1>2. ASSUME NEW t \in Callers, Dispatch(t) PROVE Inv'
  BY <1>2, BeginCallInv, ContinueInv, SelectInv, RejectInv, ReadPriorityInv, RaiseInv, EndCallInv
     DEF Dispatch
<1> QED BY <1>1, <1>2, WriteInv, ContextInv DEF Next

LEMMA InvAlways == Spec => []Inv
<1>1. Init => Inv
  BY InitInv
<1>2. Inv /\ [Next]_vars => Inv'
  BY NextInv
<1> QED BY <1>1, <1>2, PTL DEF Spec

\* Whatever registers, is disabled or reprioritized during a dispatch, it turns down
\* no backend that could have run the call from its start to its end.
THEOREM CapableNeverPassedOver == Spec => []NothingCapablePassedOver
<1>1. Inv => NothingCapablePassedOver
  BY DEF Inv, Settled, NothingCapablePassedOver
<1> QED BY <1>1, InvAlways, PTL

\* A call runs a backend that was enabled during the call and has the function.
THEOREM EnabledImplementationRuns == Spec => []RunsEnabledImplementation
<1>1. Inv => RunsEnabledImplementation
  BY DEF Inv, Settled, Runs, RunsEnabledImplementation
<1> QED BY <1>1, InvAlways, PTL

\* A backend registered before the call began runs on arguments that its constraints
\* were found to admit.
THEOREM RegisteredIsValidated == Spec => []ValidatedOnceRegistered
<1>1. Inv => ValidatedOnceRegistered
  BY DEF Inv, Settled, Runs, ValidatedOnceRegistered
<1> QED BY <1>1, InvAlways, PTL

-----------------------------------------------------------------------------
(* Contexts. *)

Around(s, i) == IF i = 0 THEN None ELSE s[i].backend

\* A stack of contexts, each remembering the one around it.
Nested(s) == \A i \in DOMAIN s : s[i].previous = Around(s, i - 1)

Pushed(s, b) == [backend |-> b, previous |-> Around(s, Len(s))]

LEMMA PushedNested ==
  ASSUME NEW s \in Seq(ContextType), Nested(s), NEW b \in Backends,
         NEW r, r = Append(s, Pushed(s, b))
  PROVE  Nested(r) /\ Around(r, Len(r)) = b
<1> DEFINE o == Around(s, Len(s))
<1>1. /\ Len(s) \in Nat /\ Len(r) = Len(s) + 1 /\ DOMAIN s = 1 .. Len(s) /\ DOMAIN r = 1 .. Len(s) + 1
      /\ r[Len(s) + 1] = [backend |-> b, previous |-> o]
      /\ \A i \in 1 .. Len(s) : r[i] = s[i]
  BY DEF Pushed
<1>2. \A i \in 0 .. Len(s) : Around(r, i) = Around(s, i)
  BY <1>1 DEF Around
<1>3. ASSUME NEW i \in DOMAIN r PROVE r[i].previous = Around(r, i - 1)
  <2>1. CASE i \in 1 .. Len(s)
    <3>1. i - 1 \in 0 .. Len(s)
      BY <2>1, <1>1
    <3>2. s[i].previous = Around(s, i - 1)
      BY <2>1, <1>1 DEF Nested
    <3> QED BY <2>1, <3>1, <3>2, <1>1, <1>2
  <2>2. CASE i = Len(s) + 1
    <3>1. r[i].previous = o /\ i - 1 = Len(s)
      BY <2>2, <1>1
    <3> QED BY <3>1, <1>1, <1>2
  <2> QED BY <1>1, <2>1, <2>2
<1>4. Around(r, Len(r)) = b
  BY <1>1 DEF Around
<1> QED BY <1>3, <1>4 DEF Nested

LEMMA PoppedNested ==
  ASSUME NEW s \in Seq(ContextType), s # <<>>, Nested(s),
         NEW r, r = SubSeq(s, 1, Len(s) - 1)
  PROVE  Nested(r) /\ Around(r, Len(r)) = s[Len(s)].previous
<1>0. Len(s) \in Nat \ {0} /\ DOMAIN s = 1 .. Len(s)
  OBVIOUS
<1>1. /\ Len(s) \in Nat \ {0} /\ Len(r) = Len(s) - 1
      /\ DOMAIN s = 1 .. Len(s) /\ DOMAIN r = 1 .. Len(s) - 1
      /\ \A i \in 1 .. Len(s) - 1 : r[i] = s[i]
  <2>1. Len(r) = Len(s) - 1 /\ DOMAIN r = 1 .. Len(s) - 1
    BY <1>0
  <2>2. \A i \in 1 .. Len(s) - 1 : r[i] = s[i]
    BY <1>0
  <2> QED BY <1>0, <2>1, <2>2
<1>2. \A i \in 0 .. Len(s) - 1 : Around(r, i) = Around(s, i)
  BY <1>1 DEF Around
<1>3. ASSUME NEW i \in DOMAIN r PROVE r[i].previous = Around(r, i - 1)
  <2>1. i \in 1 .. Len(s) - 1 /\ i - 1 \in 0 .. Len(s) - 1 /\ i \in DOMAIN s
    BY <1>1
  <2>2. s[i].previous = Around(s, i - 1)
    BY <2>1 DEF Nested
  <2> QED BY <2>1, <2>2, <1>1, <1>2
<1>4. Len(s) \in DOMAIN s /\ Len(s) - 1 \in 0 .. Len(s) - 1
  BY <1>1
<1>5. s[Len(s)].previous = Around(s, Len(s) - 1)
  BY <1>4 DEF Nested
<1> QED BY <1>1, <1>2, <1>3, <1>4, <1>5 DEF Nested

InnermostOfStack ==
  \A t \in Callers : Nested(contexts[t]) /\ override[t] = Around(contexts[t], Len(contexts[t]))

LEMMA InnermostInit == Init => InnermostOfStack
BY DEF Init, InnermostOfStack, Nested, Around

LEMMA InnermostNext == ASSUME Inv, InnermostOfStack, [Next]_vars PROVE InnermostOfStack'
<1>1. CASE UNCHANGED <<override, contexts>>
  BY <1>1 DEF InnermostOfStack
<1>2. ASSUME NEW t \in Callers, Context(t) PROVE InnermostOfStack'
  <2>1. /\ contexts \in [Callers -> Seq(ContextType)] /\ override \in [Callers -> Backends \cup {None}]
        /\ contexts[t] \in Seq(ContextType)
    BY DEF Inv, Shapes
  <2>2. Nested(contexts[t]) /\ override[t] = Around(contexts[t], Len(contexts[t]))
    BY DEF InnermostOfStack
  <2>3. /\ \A u \in Callers \ {t} : contexts'[u] = contexts[u] /\ override'[u] = override[u]
        /\ Nested(contexts'[t]) /\ override'[t] = Around(contexts'[t], Len(contexts'[t]))
    <3>1. ASSUME NEW b \in Backends, EnterContext(t, b) PROVE <2>3!:
      <4>1. /\ contexts' = [contexts EXCEPT
                 ![t] = Append(@, [backend |-> b, previous |-> override[t]])]
            /\ override' = [override EXCEPT ![t] = b]
        BY <3>1 DEF EnterContext
      <4>2. contexts'[t] = Append(contexts[t], [backend |-> b, previous |-> override[t]])
            /\ override'[t] = b
        BY <2>1, <4>1
      <4>3. contexts'[t] = Append(contexts[t], Pushed(contexts[t], b))
        BY <2>2, <4>2 DEF Pushed
      <4>4. Nested(contexts'[t]) /\ Around(contexts'[t], Len(contexts'[t])) = b
        BY <2>1, <2>2, <4>3, PushedNested
      <4> QED BY <2>1, <4>1, <4>2, <4>4
    <3>2. CASE ExitContext(t)
      <4>1. /\ contexts[t] # <<>>
            /\ override' = [override EXCEPT ![t] = contexts[t][Len(contexts[t])].previous]
            /\ contexts' = [contexts EXCEPT ![t] = SubSeq(@, 1, Len(@) - 1)]
        BY <3>2 DEF ExitContext
      <4>2. contexts'[t] = SubSeq(contexts[t], 1, Len(contexts[t]) - 1)
            /\ override'[t] = contexts[t][Len(contexts[t])].previous
        BY <2>1, <4>1
      <4> QED BY <2>1, <2>2, <4>1, <4>2, PoppedNested
    <3> QED BY <1>2, <3>1, <3>2 DEF Context
  <2> QED BY <2>3 DEF InnermostOfStack
<1>3. CASE Write
  BY <1>1, <1>3 DEF Write
<1>4. ASSUME NEW t \in Callers, Dispatch(t) PROVE UNCHANGED <<override, contexts>>
  BY <1>4 DEF Dispatch, BeginCall, Continue, Select, Reject, ReadPriority, Raise, EndCall
<1> QED BY <1>1, <1>2, <1>3, <1>4 DEF Next, vars

\* The override is the innermost open context, whatever nests and returns.
THEOREM OverrideIsInnermost == Spec => []InnermostOverride
<1>1. Init => InnermostOfStack
  BY InnermostInit
<1>2. Inv /\ InnermostOfStack /\ [Next]_vars => InnermostOfStack'
  BY InnermostNext
<1>3. InnermostOfStack => InnermostOverride
  BY DEF InnermostOfStack, InnermostOverride, Nested, Around
<1> QED BY <1>1, <1>2, <1>3, InvAlways, PTL DEF Spec

-----------------------------------------------------------------------------
(* Types. *)

\* What TypeOK asks beyond the shapes.
Listed ==
  /\ backends \subseteq Backends
  /\ \A c \in constraints : c[1] \in backends /\ c[2] \in capabilities[c[1]]
  /\ priority \in Orders
  /\ \A t \in Callers : pc[t] = "idle" => at[t] = 1

LEMMA ListedInit == Init => Listed
BY EarlyAssumption, ProvidesAssumption DEF Init, Listed

LEMMA ListedNext == ASSUME Inv, Listed, [Next]_vars PROVE Listed'
<1>1. /\ backends \subseteq Backends /\ priority \in Orders
      /\ \A c \in constraints : c[1] \in backends /\ c[2] \in capabilities[c[1]]
      /\ \A t \in Callers : pc[t] = "idle" => at[t] = 1
  BY DEF Listed
<1>2. CASE UNCHANGED <<registry, pc, at>>
  BY <1>1, <1>2 DEF registry, Listed
<1>3. CASE Write
  <2>1. pc' = pc /\ at' = at
    BY <1>3 DEF Write, scan
  <2>2. Shapes /\ Filled
    BY DEF Inv
  <2>3. backends' \subseteq Backends
    BY <1>1, <1>3, <2>2 DEF Write, AcquireForRegister, AddModule, AddCapabilities, AddConstraint,
       ReleaseAfterRegister, SetPriority, Disable, Enable, Shapes
  <2>4. priority' \in Orders
    BY <1>1, <1>3 DEF Write, AcquireForRegister, AddModule, AddCapabilities, AddConstraint,
       ReleaseAfterRegister, SetPriority, Disable, Enable
  <2>5. \A c \in constraints' : c[1] \in backends' /\ c[2] \in capabilities'[c[1]]
    <3>1. CASE AddCapabilities
      <4>1. /\ lock \in backends /\ capabilities[lock] = {}
            /\ capabilities' = [capabilities EXCEPT ![lock] = Provides[lock]]
            /\ backends' = backends /\ constraints' = constraints
        BY <3>1 DEF AddCapabilities
      <4>2. \A c \in constraints : c[1] # lock
        BY <1>1, <4>1
      <4>3. \A b \in Backends \ {lock} : capabilities'[b] = capabilities[b]
        BY <2>2, <4>1 DEF Shapes
      <4> QED BY <1>1, <4>1, <4>2, <4>3
    <3>2. ASSUME NEW f \in Funcs, AddConstraint(f)
          PROVE \A c \in constraints' : c[1] \in backends' /\ c[2] \in capabilities'[c[1]]
      BY <1>1, <3>2 DEF AddConstraint
    <3>3. CASE capabilities' = capabilities /\ constraints' = constraints
               /\ backends \subseteq backends'
      BY <1>1, <3>3
    <3> QED
      BY <1>3, <3>1, <3>2, <3>3 DEF Write, AcquireForRegister, AddModule,
         ReleaseAfterRegister, SetPriority, Disable, Enable
  <2> QED BY <1>1, <2>1, <2>3, <2>4, <2>5 DEF Listed
<1>4. ASSUME NEW t \in Callers, Dispatch(t) PROVE Listed'
  <2>1. UNCHANGED registry
    BY <1>4 DEF Dispatch, BeginCall, Continue, Select, Reject, ReadPriority, Raise, EndCall
  <2>2. Shapes
    BY DEF Inv
  <2>3. /\ \A u \in Callers \ {t} : pc'[u] = pc[u] /\ at'[u] = at[u]
        /\ pc'[t] = "idle" => at'[t] = 1
    <3>1. CASE EndCall(t)
      BY <3>1, <2>2 DEF EndCall, Shapes
    <3>2. ASSUME NEW c \in Calls, NEW explicit \in Backends \cup {None}, BeginCall(t, c, explicit)
          PROVE <2>3!:
      BY <3>2, <2>2 DEF BeginCall, Shapes
    <3>3. CASE Continue(t) \/ Reject(t) \/ ReadPriority(t)
      BY <3>3, <2>2 DEF Continue, Reject, ReadPriority, Checking, Exhausted, Shapes
    <3>4. CASE Select(t) \/ Raise(t)
      BY <3>4, <2>2 DEF Select, Raise, scan, Shapes
    <3> QED BY <1>4, <3>1, <3>2, <3>3, <3>4 DEF Dispatch
  <2> QED BY <1>1, <2>1, <2>3 DEF Listed, registry
<1>5. ASSUME NEW t \in Callers, Context(t) PROVE UNCHANGED <<registry, pc, at>>
  BY <1>5 DEF Context, EnterContext, ExitContext, scan
<1>6. UNCHANGED vars => UNCHANGED <<registry, pc, at>>
  BY DEF vars, scan
<1> QED BY <1>2, <1>3, <1>4, <1>5, <1>6 DEF Next

\* Every variable has its type, and no function has constraints before its backend is
\* listed for it.
THEOREM TypeCorrect == Spec => []TypeOK
<1>1. Inv /\ Listed => TypeOK
  <2>1. SUFFICES ASSUME Inv, Listed PROVE TypeOK
    OBVIOUS
  <2>2. ASSUME NEW t \in Callers
        PROVE  /\ call[t] \in Calls \cup {NoCall}
               /\ order[t] \in Seq(Backends)
               /\ at[t] \in 1 .. Len(order[t]) + 1
               /\ check[t] \in 1 .. 5
               /\ pc[t] = "run" => at[t] <= Len(order[t])
    <3>1. /\ call[t] \in Calls \cup {NoCall} /\ order[t] \in Seq(Backends)
          /\ at[t] \in Nat \ {0} /\ check[t] \in 1 .. 5
      BY <2>1 DEF Inv, Shapes
    <3>2. Len(order[t]) \in Nat
      BY <3>1
    <3>3. at[t] <= Len(order[t]) + 1
      <4>1. CASE pc[t] = "idle"
        BY <2>1, <3>2, <4>1 DEF Listed
      <4>2. CASE pc[t] # "idle"
        BY <2>1, <4>2 DEF Inv, Settled
      <4> QED BY <4>1, <4>2
    <3>4. pc[t] = "run" => at[t] <= Len(order[t])
      BY <2>1 DEF Inv, Settled, Runs
    <3> QED BY <3>1, <3>2, <3>3, <3>4
  <2> QED BY <2>1, <2>2 DEF TypeOK, Inv, Shapes, Filled, Listed
<1>2. Init => Listed
  BY ListedInit
<1>3. Inv /\ Listed /\ [Next]_vars => Listed'
  BY ListedNext
<1> QED BY <1>1, <1>2, <1>3, InvAlways, PTL DEF Spec
=============================================================================
