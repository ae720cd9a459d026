------------------------- MODULE GatewayProxyProofs -------------------------
(***************************************************************************)
(* Proofs about the request path of the gateway, for any number of         *)
(* requests, repositories and search bodies and any limits.                *)
(***************************************************************************)
EXTENDS GatewayProxy, FiniteSetTheorems, TLAPS

-----------------------------------------------------------------------------
(* Type correctness.                                                       *)

\* A request is about a registered repository.
LEMMA RepoType == TypeOK => \A q \in Requests : Repo(q) \in Repos /\ key[q] \in Keys
BY DEF TypeOK, Repo, Keys

\* The transitions of a circuit stay among the circuits.
LEMMA CircuitType ==
  ASSUME NEW c \in Circuits
  PROVE  Admitted(c) \in Circuits /\ Succeed(c) \in Circuits /\ Fail(c) \in Circuits
<1>1. Threshold \in Nat /\ Threshold > 0
  BY ThresholdAssumption
<1>2. Admitted(c) \in Circuits
  BY DEF Admitted, Circuits
<1>3. Succeed(c) \in Circuits
  BY <1>1 DEF Succeed, Closed, Circuits
<1>4. Fail(c) \in Circuits
  BY <1>1 DEF Fail, Circuits
<1> QED BY <1>2, <1>3, <1>4

\* Ending a request keeps the types of what it touches.
LEMMA LeaveType ==
  ASSUME TypeOK, NEW q \in Requests, Leave(q)
  PROVE  /\ pc' \in [Requests -> Locations] /\ leads' \in SUBSET Requests
         /\ inflight' \in SUBSET Keys /\ outcome' \in [Requests -> Outcomes]
         /\ got' \in [Requests -> Versions] /\ probes' \in SUBSET Requests
<1>1. 0 \in Versions
  BY BoundsAssumption DEF Versions
<1> QED BY <1>1 DEF Leave, Forget, TypeOK, Locations, Outcomes, Answers

\* The initial state is well typed.
LEMMA TypeInit == Init => TypeOK
BY BoundsAssumption, ThresholdAssumption
   DEF Init, TypeOK, Versions, Closed, Circuits, Locations, AllKinds, Outcomes, Answers

\* Every step keeps the types.
LEMMA TypeStep == TypeOK /\ [Next]_vars => TypeOK'
<1> SUFFICES ASSUME TypeOK, [Next]_vars PROVE TypeOK'
  OBVIOUS
<1> USE BoundsAssumption
<1>1. ASSUME NEW q \in Requests, NEW k \in Kinds, NEW x \in Keys, Arrive(q, k, x) PROVE TypeOK'
  BY <1>1, KindsAssumption
     DEF Arrive, Goto, TypeOK, Locations, content, cache, reply, budget
<1>2. ASSUME NEW q \in Requests, Replay(q) PROVE TypeOK'
  <2>1. key[q] \in Keys
    BY RepoType
  <2>2. entries[key[q]] \in Versions \cup {None}
    BY <2>1 DEF TypeOK
  <2>3. Leave(q)
    BY <1>2 DEF Replay
  <2> QED BY <1>2, <2>2, <2>3, LeaveType DEF Replay, TypeOK, content, cache, call, budget
<1>3. ASSUME NEW q \in Requests, Miss(q) PROVE TypeOK'
  BY <1>3 DEF Miss, Goto, TypeOK, Locations, content, cache, call, reply, history, budget
<1>4. ASSUME NEW q \in Requests, BeginFlight(q) PROVE TypeOK'
  <2>1. key[q] \in Keys
    BY RepoType
  <2> QED BY <1>4, <2>1
    DEF BeginFlight, Goto, TypeOK, Locations, content, cache, call, reply, history, budget
<1>5. ASSUME NEW q \in Requests, Acquire(q) PROVE TypeOK'
  BY <1>5 DEF Acquire, Goto, TypeOK, Locations, content, cache, call, reply, history, budget
<1>6. ASSUME NEW q \in Requests, Shed(q) PROVE TypeOK'
  <2>1. Leave(q)
    BY <1>6 DEF Shed
  <2> QED BY <1>6, <2>1, LeaveType DEF Shed, TypeOK, content, cache, call, budget
<1>7. ASSUME NEW q \in Requests, Admit(q) PROVE TypeOK'
  <2>1. circuit' \in [Repos -> Circuits]
    BY <1>7, RepoType, CircuitType DEF Admit, TypeOK
  <2> QED BY <1>7, <2>1 DEF Admit, Goto, TypeOK, Locations, content, cache, call, reply, budget
<1>8. ASSUME NEW q \in Requests, Refuse(q) PROVE TypeOK'
  <2>1. Leave(q)
    BY <1>8 DEF Refuse
  <2> QED BY <1>8, <2>1, LeaveType DEF Refuse, TypeOK, content, cache, call, budget
<1>9. ASSUME NEW q \in Requests, SendFails(q) PROVE TypeOK'
  BY <1>9 DEF SendFails, Goto, TypeOK, Locations, Outcomes, Answers, content, cache, call, history
<1>10. ASSUME NEW q \in Requests, Answer(q) PROVE TypeOK'
  <2>1. indexed[Repo(q)] \in Versions
    BY RepoType DEF TypeOK
  <2>2. faults' \in 0..MaxFaults /\ outcome' \in [Requests -> Outcomes]
    BY <1>10 DEF Answer, TypeOK, Outcomes
  <2>3. pc' \in [Requests -> Locations]
    BY <1>10 DEF Answer, Goto, TypeOK, Locations
  <2> QED BY <1>10, <2>1, <2>2, <2>3 DEF Answer, TypeOK, content, cache, call, history
<1>11. ASSUME NEW q \in Requests, BodyRead(q) PROVE TypeOK'
  BY <1>11 DEF BodyRead, Goto, TypeOK, Locations, content, cache, call, reply, history, budget
<1>12. ASSUME NEW q \in Requests, BodyFails(q) PROVE TypeOK'
  BY <1>12 DEF BodyFails, Goto, TypeOK, Locations, Outcomes, content, cache, call, history
<1>13. ASSUME NEW q \in Requests, Stream(q) PROVE TypeOK'
  BY <1>13 DEF Stream, Goto, TypeOK, Locations, Outcomes, content, cache, call, history, budget
<1>14. ASSUME NEW q \in Requests, Report(q) PROVE TypeOK'
  <2>1. circuit' \in [Repos -> Circuits]
    BY <1>14, RepoType, CircuitType DEF Report, TypeOK
  <2>2. CASE kind[q] = "search" /\ outcome[q] = "ok"
    BY <1>14, <2>1, <2>2 DEF Report, TypeOK, Locations, content, cache, call, reply, budget
  <2>3. CASE ~(kind[q] = "search" /\ outcome[q] = "ok")
    <3>1. Leave(q)
      BY <1>14, <2>3 DEF Report
    <3> QED BY <1>14, <2>1, <3>1, LeaveType DEF Report, TypeOK, content, cache, call, budget
  <2> QED BY <2>2, <2>3
<1>15. ASSUME NEW q \in Requests, Store(q) PROVE TypeOK'
  <2>1. Leave(q) /\ got[q] \in Versions
    BY <1>15 DEF Store, TypeOK
  <2>2. entries' \in [Keys -> Versions \cup {None}] /\ expired' \in SUBSET Keys
    BY <1>15, <2>1 DEF Store, Put, TypeOK
  <2> QED BY <1>15, <2>1, <2>2, LeaveType DEF Store, TypeOK, content, call, budget
<1>16. ASSUME NEW q \in Requests, Cancel(q) PROVE TypeOK'
  <2>1. Leave(q)
    BY <1>16 DEF Cancel
  <2> QED BY <1>16, <2>1, LeaveType DEF Cancel, TypeOK, content, cache, call
<1>17. ASSUME NEW r \in Repos, CooldownElapses(r) PROVE TypeOK'
  <2>1. circuit' \in [Repos -> Circuits]
    BY <1>17 DEF CooldownElapses, TypeOK, Circuits
  <2> QED BY <1>17, <2>1
    DEF CooldownElapses, TypeOK, content, cache, call, reply, history, budget
<1>18. ASSUME NEW r \in Repos, Materialize(r) PROVE TypeOK'
  BY <1>18 DEF Materialize, TypeOK, Versions, cache, call, reply, history, budget
<1>19. ASSUME NEW r \in Repos, Invalidate(r) PROVE TypeOK'
  BY <1>19 DEF Invalidate, TypeOK, call, reply, history, budget
<1>20. ASSUME NEW r \in Repos, PushFails(r) PROVE TypeOK'
  BY <1>20 DEF PushFails, TypeOK, cache, call, reply, history
<1>21. ASSUME NEW r \in Repos, WorkerIndexes(r) PROVE TypeOK'
  BY <1>21 DEF WorkerIndexes, TypeOK, cache, call, reply, history, budget
<1>22. ASSUME NEW k \in Keys, TtlExpires(k) PROVE TypeOK'
  BY <1>22 DEF TtlExpires, TypeOK, content, call, reply, history, budget
<1>23. CASE UNCHANGED vars
  BY <1>23 DEF vars, TypeOK, content, cache, call, reply, history, budget
<1> QED
  BY <1>1, <1>2, <1>3, <1>4, <1>5, <1>6, <1>7, <1>8, <1>9, <1>10, <1>11, <1>12, <1>13,
     <1>14, <1>15, <1>16, <1>17, <1>18, <1>19, <1>20, <1>21, <1>22, <1>23 DEF Next, Step

\* Every reachable state of the gateway is well typed.
THEOREM TypeCorrect == Spec => []TypeOK
<1>1. Init => TypeOK
  BY TypeInit
<1>2. TypeOK /\ [Next]_vars => TypeOK'
  BY TypeStep
<1> QED BY <1>1, <1>2, PTL DEF Spec

-----------------------------------------------------------------------------
(* Singleflight.                                                           *)

Waiting == {"idle", "lookup", "flight", "follow", "recheck"}

\* The end of any request, leader or not, keeps slots and leaders in step.
LEMMA LeaveFlights ==
  ASSUME TypeOK, FlightsHaveLeaders, NEW q \in Requests, Leave(q), key' = key
  PROVE  FlightsHaveLeaders'
<1>1. \A f \in leads' : f \in leads /\ f # q /\ pc'[f] = pc[f]
  BY DEF Leave, FlightsHaveLeaders, TypeOK
<1>2. ASSUME NEW k \in inflight' PROVE \E f \in leads' : key[f] = k
  <2>1. k \in inflight
    BY DEF Leave
  <2>2. PICK f \in leads : key[f] = k
    BY <2>1 DEF FlightsHaveLeaders
  <2>3. f # q
    BY <2>2 DEF Leave
  <2> QED BY <2>2, <2>3 DEF Leave
<1>3. ASSUME NEW f \in Requests, f \in leads' \/ pc'[f] = "follow" PROVE key[f] \in inflight'
  <2>1. f \in leads \/ pc[f] = "follow"
    BY <1>3 DEF Leave, TypeOK
  <2>2. key[f] \in inflight
    BY <2>1 DEF FlightsHaveLeaders
  <2>3. CASE q \in leads
    <3>1. key[f] # key[q]
      <4>1. CASE f \in leads'
        BY <1>1, <4>1, <2>3 DEF FlightsHaveLeaders
      <4>2. CASE f \notin leads'
        BY <1>3, <4>2, <2>3 DEF Leave, TypeOK
      <4> QED BY <4>1, <4>2
    <3> QED BY <2>2, <2>3, <3>1 DEF Leave
  <2>4. CASE q \notin leads
    BY <2>2, <2>4 DEF Leave
  <2> QED BY <2>3, <2>4
<1> QED BY <1>1, <1>2, <1>3 DEF FlightsHaveLeaders

\* So does a move of a request that stays out of the followers' wait.
LEMMA MoveFlights ==
  ASSUME TypeOK, FlightsHaveLeaders, NEW q \in Requests, NEW n,
         pc' = [pc EXCEPT ![q] = n], n # "follow",
         n \in Waiting => pc[q] \in Waiting,
         inflight' = inflight, leads' = leads, key' = key
  PROVE  FlightsHaveLeaders'
BY DEF FlightsHaveLeaders, TypeOK, Waiting

\* A slot is claimed by one leader, or its claimant waits for the leader.
LEMMA BeginFlights ==
  ASSUME TypeOK, FlightsHaveLeaders, NEW q \in Requests, BeginFlight(q)
  PROVE  FlightsHaveLeaders'
<1>1. key' = key /\ pc[q] = "flight" /\ q \notin leads
  BY DEF BeginFlight, Goto, call, FlightsHaveLeaders
<1>2. CASE key[q] \notin inflight
  <2>1. inflight' = inflight \cup {key[q]} /\ leads' = leads \cup {q}
        /\ pc' = [pc EXCEPT ![q] = "permit"]
    BY <1>2 DEF BeginFlight, Goto
  <2> QED BY <1>1, <1>2, <2>1 DEF FlightsHaveLeaders, TypeOK
<1>3. CASE key[q] \in inflight
  <2>1. inflight' = inflight /\ leads' = leads /\ pc' = [pc EXCEPT ![q] = "follow"]
    BY <1>3 DEF BeginFlight, Goto
  <2> QED BY <1>1, <1>3, <2>1 DEF FlightsHaveLeaders, TypeOK
<1> QED BY <1>2, <1>3

\* An arriving request holds no slot and follows none.
LEMMA ArriveFlights ==
  ASSUME TypeOK, FlightsHaveLeaders, NEW q \in Requests, NEW k, NEW x, Arrive(q, k, x)
  PROVE  FlightsHaveLeaders'
<1>1. pc[q] = "idle" /\ q \notin leads
  BY DEF Arrive, Goto, FlightsHaveLeaders
<1>2. PICK n \in {"lookup", "permit"} : pc' = [pc EXCEPT ![q] = n]
  BY DEF Arrive, Goto
<1>3. inflight' = inflight /\ leads' = leads /\ key' = [key EXCEPT ![q] = x]
  BY DEF Arrive
<1> QED BY <1>1, <1>2, <1>3 DEF FlightsHaveLeaders, TypeOK

\* Every step keeps slots and leaders in step.
LEMMA FlightStep == TypeOK /\ FlightsHaveLeaders /\ [Next]_vars => FlightsHaveLeaders'
<1> SUFFICES ASSUME TypeOK, FlightsHaveLeaders, [Next]_vars PROVE FlightsHaveLeaders'
  OBVIOUS
<1>1. ASSUME NEW q \in Requests, NEW k \in Kinds, NEW x \in Keys, Arrive(q, k, x)
      PROVE FlightsHaveLeaders'
  BY <1>1, ArriveFlights
<1>2. ASSUME NEW q \in Requests,
             Replay(q) \/ Shed(q) \/ Refuse(q) \/ Store(q) \/ Cancel(q)
      PROVE FlightsHaveLeaders'
  <2>1. Leave(q) /\ key' = key
    BY <1>2 DEF Replay, Shed, Refuse, Store, Cancel, call
  <2> QED BY <2>1, LeaveFlights
<1>3. ASSUME NEW q \in Requests,
             Miss(q) \/ Acquire(q) \/ Admit(q) \/ SendFails(q) \/ Answer(q) \/ BodyRead(q)
               \/ BodyFails(q) \/ Stream(q)
      PROVE FlightsHaveLeaders'
  <2>1. inflight' = inflight /\ leads' = leads /\ key' = key
    BY <1>3 DEF Miss, Acquire, Admit, SendFails, Answer, BodyRead, BodyFails, Stream, call
  <2>2. PICK n : /\ pc' = [pc EXCEPT ![q] = n] /\ n # "follow"
                 /\ n \in Waiting => pc[q] \in Waiting
    BY <1>3 DEF Miss, Acquire, Admit, SendFails, Answer, BodyRead, BodyFails, Stream, Goto,
                Waiting
  <2> QED BY <2>1, <2>2, MoveFlights
<1>4. ASSUME NEW q \in Requests, BeginFlight(q) PROVE FlightsHaveLeaders'
  BY <1>4, BeginFlights
<1>5. ASSUME NEW q \in Requests, Report(q) PROVE FlightsHaveLeaders'
  <2>1. key' = key
    BY <1>5 DEF Report, call
  <2>2. CASE kind[q] = "search" /\ outcome[q] = "ok"
    <3>1. pc' = [pc EXCEPT ![q] = "store"] /\ inflight' = inflight /\ leads' = leads
      BY <1>5, <2>2 DEF Report
    <3> QED BY <2>1, <3>1, MoveFlights DEF Waiting
  <2>3. CASE ~(kind[q] = "search" /\ outcome[q] = "ok")
    BY <1>5, <2>1, <2>3, LeaveFlights DEF Report
  <2> QED BY <2>2, <2>3
<1>6. ASSUME NEW r \in Repos,
             CooldownElapses(r) \/ Materialize(r) \/ Invalidate(r) \/ PushFails(r)
               \/ WorkerIndexes(r)
      PROVE FlightsHaveLeaders'
  BY <1>6 DEF CooldownElapses, Materialize, Invalidate, PushFails, WorkerIndexes,
              FlightsHaveLeaders, call
<1>7. ASSUME NEW k \in Keys, TtlExpires(k) PROVE FlightsHaveLeaders'
  BY <1>7 DEF TtlExpires, FlightsHaveLeaders, call
<1>8. CASE UNCHANGED vars
  BY <1>8 DEF vars, FlightsHaveLeaders, call
<1> QED BY <1>1, <1>2, <1>3, <1>4, <1>5, <1>6, <1>7, <1>8 DEF Next, Step

\* Singleflight never strands a slot or a follower: FlightDone covers every
\* way a leader can end, its cancellation included.
THEOREM FlightsAreLed == Spec => []FlightsHaveLeaders
<1>1. Init => FlightsHaveLeaders
  BY DEF Init, FlightsHaveLeaders
<1>2. TypeOK /\ FlightsHaveLeaders /\ [Next]_vars => FlightsHaveLeaders'
  BY FlightStep
<1> QED BY <1>1, <1>2, TypeCorrect, PTL DEF Spec

-----------------------------------------------------------------------------
(* The circuit breaker.                                                    *)

Consistent(c) == /\ c.open # "closed" <=> c.failures >= Threshold
                 /\ c.probing => c.open = "elapsed"

Elapsed(c) == [c EXCEPT !.open = "elapsed"]

\* The transitions of one circuit keep it consistent.
LEMMA CircuitConsistent ==
  ASSUME NEW c \in Circuits, Consistent(c)
  PROVE  /\ Admits(c) => Consistent(Admitted(c))
         /\ Consistent(Succeed(c)) /\ Consistent(Fail(c))
         /\ c.open = "cooling" => Consistent(Elapsed(c))
<1>1. Threshold \in Nat /\ Threshold > 0
  BY ThresholdAssumption
<1>2. c.failures \in 0..Threshold /\ c.open \in {"closed", "cooling", "elapsed"}
      /\ c.probing \in BOOLEAN
  BY DEF Circuits
<1>3. Admits(c) => Consistent(Admitted(c))
  BY <1>1, <1>2 DEF Admits, Admitted, Consistent, Circuits
<1>4. Consistent(Succeed(c))
  BY <1>1 DEF Succeed, Closed, Consistent
<1>5. Consistent(Fail(c))
  BY <1>1, <1>2 DEF Fail, Consistent
<1>6. c.open = "cooling" => Consistent(Elapsed(c))
  BY <1>1, <1>2 DEF Elapsed, Consistent, Circuits
<1> QED BY <1>3, <1>4, <1>5, <1>6

\* What a step may do to the circuits.
CircuitUpdate ==
  \/ circuit' = circuit
  \/ \E r \in Repos :
       \/ Admits(circuit[r]) /\ circuit' = [circuit EXCEPT ![r] = Admitted(@)]
       \/ circuit' = [circuit EXCEPT ![r] = Succeed(@)]
       \/ circuit' = [circuit EXCEPT ![r] = Fail(@)]
       \/ circuit[r].open = "cooling" /\ circuit' = [circuit EXCEPT ![r] = Elapsed(@)]

\* Every step makes at most one transition of one circuit.
LEMMA CircuitSteps == TypeOK /\ [Next]_vars => CircuitUpdate
<1> SUFFICES ASSUME TypeOK, [Next]_vars PROVE CircuitUpdate
  OBVIOUS
<1>1. ASSUME NEW q \in Requests, Admit(q) PROVE CircuitUpdate
  BY <1>1, RepoType DEF Admit, CircuitUpdate
<1>2. ASSUME NEW q \in Requests, Report(q) PROVE CircuitUpdate
  <2>1. \/ circuit' = [circuit EXCEPT ![Repo(q)] = Succeed(@)]
        \/ circuit' = [circuit EXCEPT ![Repo(q)] = Fail(@)]
    BY <1>2 DEF Report
  <2> QED BY <2>1, RepoType DEF CircuitUpdate
<1>3. ASSUME NEW r \in Repos, CooldownElapses(r) PROVE CircuitUpdate
  BY <1>3 DEF CooldownElapses, CircuitUpdate, Elapsed
<1>4. ASSUME NEW q \in Requests,
             \/ Replay(q) \/ Miss(q) \/ BeginFlight(q) \/ Acquire(q) \/ Shed(q) \/ Refuse(q)
             \/ SendFails(q) \/ Answer(q) \/ BodyRead(q) \/ BodyFails(q) \/ Stream(q)
             \/ Store(q) \/ Cancel(q) \/ \E k \in Kinds, x \in Keys : Arrive(q, k, x)
      PROVE CircuitUpdate
  BY <1>4 DEF CircuitUpdate, Replay, Miss, BeginFlight, Acquire, Shed, Refuse, SendFails,
              Answer, BodyRead, BodyFails, Stream, Store, Cancel, Arrive
<1>5. ASSUME NEW r \in Repos,
             Materialize(r) \/ Invalidate(r) \/ PushFails(r) \/ WorkerIndexes(r)
      PROVE CircuitUpdate
  BY <1>5 DEF CircuitUpdate, Materialize, Invalidate, PushFails, WorkerIndexes
<1>6. ASSUME NEW k \in Keys, TtlExpires(k) PROVE CircuitUpdate
  BY <1>6 DEF CircuitUpdate, TtlExpires
<1>7. CASE UNCHANGED vars
  BY <1>7 DEF CircuitUpdate, vars
<1> QED BY <1>1, <1>2, <1>3, <1>4, <1>5, <1>6, <1>7 DEF Next, Step

\* Every step keeps every circuit consistent.
LEMMA BreakerStep == TypeOK /\ BreakerConsistent /\ [Next]_vars => BreakerConsistent'
<1> SUFFICES ASSUME TypeOK, BreakerConsistent, [Next]_vars, NEW r \in Repos
             PROVE  Consistent(circuit'[r])
  BY DEF BreakerConsistent, Consistent
<1>1. circuit \in [Repos -> Circuits] /\ \A x \in Repos : Consistent(circuit[x])
  BY DEF TypeOK, BreakerConsistent, Consistent
<1>2. CircuitUpdate
  BY CircuitSteps
<1>3. CASE circuit' = circuit
  BY <1>1, <1>3
<1>4. ASSUME NEW x \in Repos,
             \/ Admits(circuit[x]) /\ circuit' = [circuit EXCEPT ![x] = Admitted(@)]
             \/ circuit' = [circuit EXCEPT ![x] = Succeed(@)]
             \/ circuit' = [circuit EXCEPT ![x] = Fail(@)]
             \/ circuit[x].open = "cooling" /\ circuit' = [circuit EXCEPT ![x] = Elapsed(@)]
      PROVE  Consistent(circuit'[r])
  <2>1. CASE x = r
    BY <1>1, <1>4, <2>1, CircuitConsistent
  <2>2. CASE x # r
    BY <1>1, <1>4, <2>2
  <2> QED BY <2>1, <2>2
<1> QED BY <1>2, <1>3, <1>4 DEF CircuitUpdate

\* A circuit is open exactly when the failures in a row reached the
\* threshold, whatever order admits, stragglers and cooldowns come in.
THEOREM BreakersConsistent == Spec => []BreakerConsistent
<1>1. Init => BreakerConsistent
  BY ThresholdAssumption DEF Init, BreakerConsistent, Closed
<1>2. TypeOK /\ BreakerConsistent /\ [Next]_vars => BreakerConsistent'
  BY BreakerStep
<1> QED BY <1>1, <1>2, TypeCorrect, PTL DEF Spec

-----------------------------------------------------------------------------
(* Probe permits.                                                          *)

\* A step that leaves the circuits alone and lets every other probe go on.
LEMMA ProbeKept ==
  ASSUME TypeOK, ProbeHasOwner, cancels' = 0 => cancels = 0, circuit' = circuit,
         \A q \in probes : InCall(q) => q \in probes' /\ InCall(q)' /\ Repo(q)' = Repo(q)
  PROVE  ProbeHasOwner'
<1> SUFFICES ASSUME cancels' = 0, NEW r \in Repos, circuit'[r].probing
             PROVE  \E q \in probes' : InCall(q)' /\ Repo(q)' = r
  BY DEF ProbeHasOwner
<1>1. PICK q \in probes : InCall(q) /\ Repo(q) = r
  BY DEF ProbeHasOwner
<1> QED BY <1>1

\* The end of a request that owes no outcome.
LEMMA LeaveKeepsProbes ==
  ASSUME TypeOK, NEW q \in Requests, Leave(q), ~InCall(q), key' = key
  PROVE  \A p \in probes : InCall(p) => p \in probes' /\ InCall(p)' /\ Repo(p)' = Repo(p)
BY DEF Leave, Forget, InCall, Repo, TypeOK

\* Every step keeps probe permits owned.
LEMMA ProbeStep ==
  TypeOK /\ BreakerConsistent /\ ProbeHasOwner /\ [Next]_vars => ProbeHasOwner'
<1> SUFFICES ASSUME TypeOK, BreakerConsistent, ProbeHasOwner, [Next]_vars
             PROVE  ProbeHasOwner'
  OBVIOUS
<1>1. ASSUME NEW q \in Requests, Replay(q) \/ Shed(q) \/ Refuse(q) \/ Store(q)
      PROVE ProbeHasOwner'
  <2>1. Leave(q) /\ ~InCall(q) /\ key' = key /\ circuit' = circuit /\ cancels' = cancels
    BY <1>1 DEF Replay, Shed, Refuse, Store, InCall, call, budget
  <2> QED BY <2>1, LeaveKeepsProbes, ProbeKept
<1>2. ASSUME NEW q \in Requests,
             \/ Miss(q) \/ BeginFlight(q) \/ Acquire(q) \/ SendFails(q) \/ Answer(q)
             \/ BodyRead(q) \/ BodyFails(q) \/ Stream(q)
             \/ \E k \in Kinds, x \in Keys : Arrive(q, k, x)
      PROVE ProbeHasOwner'
  <2>1. circuit' = circuit /\ cancels' = cancels /\ probes' = probes
    BY <1>2 DEF Miss, BeginFlight, Acquire, SendFails, Answer, BodyRead, BodyFails, Stream,
                Arrive, history, budget
  <2>2. \A p \in probes : InCall(p) => InCall(p)' /\ Repo(p)' = Repo(p)
    BY <1>2 DEF Miss, BeginFlight, Acquire, SendFails, Answer, BodyRead, BodyFails, Stream,
                Arrive, Goto, call, InCall, Repo, TypeOK
  <2> QED BY <2>1, <2>2, ProbeKept
<1>3. ASSUME NEW q \in Requests, Admit(q) PROVE ProbeHasOwner'
  <2> SUFFICES ASSUME cancels' = 0, NEW r \in Repos, circuit'[r].probing
               PROVE  \E p \in probes' : InCall(p)' /\ Repo(p)' = r
    BY DEF ProbeHasOwner
  <2>1. pc[q] = "admit" /\ pc' = [pc EXCEPT ![q] = "sending"] /\ key' = key /\ cancels = 0
    BY <1>3 DEF Admit, Goto, call, budget
  <2>2. CASE Repo(q) = r /\ circuit[r].open # "closed"
    BY <1>3, <2>1, <2>2 DEF Admit, InCall, Repo, TypeOK
  <2>3. CASE ~(Repo(q) = r /\ circuit[r].open # "closed")
    <3>1. circuit[r].probing
      BY <1>3, <2>3 DEF Admit, Admitted, TypeOK
    <3>2. PICK p \in probes : InCall(p) /\ Repo(p) = r
      BY <2>1, <3>1 DEF ProbeHasOwner
    <3>3. p # q
      BY <2>1, <3>2 DEF InCall
    <3> QED BY <1>3, <2>1, <3>2, <3>3 DEF Admit, InCall, Repo, TypeOK
  <2> QED BY <2>2, <2>3
<1>4. ASSUME NEW q \in Requests, Report(q) PROVE ProbeHasOwner'
  <2> SUFFICES ASSUME cancels' = 0, NEW r \in Repos, circuit'[r].probing
               PROVE  \E p \in probes' : InCall(p)' /\ Repo(p)' = r
    BY DEF ProbeHasOwner
  <2>1. Repo(q) \in Repos /\ key' = key /\ cancels = 0
    BY <1>4, RepoType DEF Report, call, budget
  <2>2. Repo(q) # r /\ circuit'[r] = circuit[r]
    BY <1>4, <2>1 DEF Report, Succeed, Closed, Fail, TypeOK
  <2>3. PICK p \in probes : InCall(p) /\ Repo(p) = r
    BY <2>1, <2>2 DEF ProbeHasOwner
  <2>4. p # q
    BY <2>2, <2>3
  <2>5. p \in probes' /\ pc'[p] = pc[p]
    <3>1. CASE kind[q] = "search" /\ outcome[q] = "ok"
      BY <1>4, <2>3, <2>4, <3>1 DEF Report, TypeOK
    <3>2. CASE ~(kind[q] = "search" /\ outcome[q] = "ok")
      BY <1>4, <2>3, <2>4, <3>2 DEF Report, Leave, Forget, InCall, TypeOK
    <3> QED BY <3>1, <3>2
  <2> QED BY <2>1, <2>3, <2>5 DEF InCall, Repo
<1>5. ASSUME NEW q \in Requests, Cancel(q) PROVE ProbeHasOwner'
  BY <1>5, BoundsAssumption DEF Cancel, ProbeHasOwner, TypeOK
<1>6. ASSUME NEW r \in Repos, CooldownElapses(r) PROVE ProbeHasOwner'
  <2> SUFFICES ASSUME cancels' = 0, NEW x \in Repos, circuit'[x].probing
               PROVE  \E p \in probes' : InCall(p)' /\ Repo(p)' = x
    BY DEF ProbeHasOwner
  <2>1. circuit[x].probing /\ cancels = 0
    BY <1>6 DEF CooldownElapses, budget, TypeOK, Circuits
  <2> QED BY <1>6, <2>1 DEF ProbeHasOwner, CooldownElapses, InCall, Repo, call, history
<1>7. ASSUME NEW r \in Repos,
             Materialize(r) \/ Invalidate(r) \/ PushFails(r) \/ WorkerIndexes(r)
      PROVE ProbeHasOwner'
  BY <1>7 DEF Materialize, Invalidate, PushFails, WorkerIndexes, ProbeHasOwner, InCall, Repo,
              call, history, budget
<1>8. ASSUME NEW k \in Keys, TtlExpires(k) PROVE ProbeHasOwner'
  BY <1>8 DEF TtlExpires, ProbeHasOwner, InCall, Repo, call, history, budget
<1>9. CASE UNCHANGED vars
  BY <1>9 DEF vars, ProbeHasOwner, InCall, Repo, call, history, budget
<1> QED BY <1>1, <1>2, <1>3, <1>4, <1>5, <1>6, <1>7, <1>8, <1>9 DEF Next, Step

\* While clients stay, a claimed probe permit is always on its way back.
THEOREM ProbesAreOwned == Spec => []ProbeHasOwner
<1>1. Init => ProbeHasOwner
  BY DEF Init, ProbeHasOwner, Closed
<1>2. TypeOK /\ BreakerConsistent /\ ProbeHasOwner /\ [Next]_vars => ProbeHasOwner'
  BY ProbeStep
<1> QED BY <1>1, <1>2, TypeCorrect, BreakersConsistent, PTL DEF Spec

-----------------------------------------------------------------------------
(* The bound of the cache.                                                 *)

Cached == {k \in Keys : entries[k] # None}

\* There are finitely many keys.
LEMMA KeysFinite == IsFiniteSet(Keys)
BY FiniteAssumption, FS_Product DEF Keys

\* A store makes room before it inserts.
LEMMA PutBounded ==
  ASSUME TypeOK, NEW k \in Keys, NEW v, Put(k, v)
  PROVE  CacheBounded'
<1>1. IsFiniteSet(Cached) /\ IsFiniteSet(Cached \ expired) /\ IsFiniteSet({})
  BY KeysFinite, FS_Subset, FS_EmptySet DEF Cached
<1>2. IsFiniteSet(Survivors) /\ Cardinality(Survivors) < MaxEntries
  BY <1>1, CapacityAssumption, FS_EmptySet DEF Survivors, Cached
<1>3. IsFiniteSet(Survivors \cup {k})
      /\ Cardinality(Survivors \cup {k}) <= MaxEntries
  <2>1. Cardinality(Survivors) \in Nat
    BY <1>2, FS_CardinalityType
  <2>2. CASE k \in Survivors
    <3>1. Survivors \cup {k} = Survivors
      BY <2>2
    <3> QED BY <1>2, <2>1, <3>1, CapacityAssumption
  <2>3. CASE k \notin Survivors
    <3>1. /\ IsFiniteSet(Survivors \cup {k})
          /\ Cardinality(Survivors \cup {k}) = Cardinality(Survivors) + 1
      BY <1>2, <2>3, FS_AddElement
    <3> QED BY <1>2, <2>1, <3>1, CapacityAssumption
  <2> QED BY <2>2, <2>3
<1>4. Cached' \subseteq Survivors \cup {k}
  BY DEF Put, Cached
<1>5. Cardinality(Cached') <= Cardinality(Survivors \cup {k}) /\ IsFiniteSet(Cached')
  BY <1>3, <1>4, FS_Subset
<1>6. Cardinality(Cached') \in Nat /\ Cardinality(Survivors \cup {k}) \in Nat
  BY <1>3, <1>5, FS_CardinalityType
<1> QED BY <1>3, <1>5, <1>6, CapacityAssumption DEF CacheBounded, Cached

\* Every step keeps the cache within its bound.
LEMMA CacheStep == TypeOK /\ CacheBounded /\ [Next]_vars => CacheBounded'
<1> SUFFICES ASSUME TypeOK, CacheBounded, [Next]_vars PROVE CacheBounded'
  OBVIOUS
<1>1. ASSUME NEW q \in Requests, Store(q) PROVE CacheBounded'
  BY <1>1, RepoType, PutBounded DEF Store
<1>2. ASSUME NEW r \in Repos, Invalidate(r) PROVE CacheBounded'
  <2>1. Cached' \subseteq Cached
    BY <1>2 DEF Invalidate, Cached, Keys
  <2>2. IsFiniteSet(Cached)
    BY KeysFinite, FS_Subset DEF Cached
  <2>3. Cardinality(Cached') <= Cardinality(Cached) /\ IsFiniteSet(Cached')
    BY <2>1, <2>2, FS_Subset
  <2>4. Cardinality(Cached') \in Nat /\ Cardinality(Cached) \in Nat
    BY <2>2, <2>3, FS_CardinalityType
  <2> QED BY <2>3, <2>4, CapacityAssumption DEF CacheBounded, Cached
<1>3. CASE entries' = entries
  BY <1>3 DEF CacheBounded
<1>4. ASSUME NEW q \in Requests,
             \/ Replay(q) \/ Miss(q) \/ BeginFlight(q) \/ Acquire(q) \/ Shed(q) \/ Admit(q)
             \/ Refuse(q) \/ SendFails(q) \/ Answer(q) \/ BodyRead(q) \/ BodyFails(q)
             \/ Stream(q) \/ Report(q) \/ Cancel(q)
             \/ \E k \in Kinds, x \in Keys : Arrive(q, k, x)
      PROVE entries' = entries
  BY <1>4 DEF Replay, Miss, BeginFlight, Acquire, Shed, Admit, Refuse, SendFails, Answer,
              BodyRead, BodyFails, Stream, Report, Cancel, Arrive, cache
<1>5. ASSUME NEW r \in Repos,
             CooldownElapses(r) \/ Materialize(r) \/ PushFails(r) \/ WorkerIndexes(r)
      PROVE entries' = entries
  BY <1>5 DEF CooldownElapses, Materialize, PushFails, WorkerIndexes, cache
<1>6. ASSUME NEW k \in Keys, TtlExpires(k) PROVE entries' = entries
  BY <1>6 DEF TtlExpires
<1>7. CASE UNCHANGED vars
  BY <1>3, <1>7 DEF vars, cache
<1> QED BY <1>1, <1>2, <1>3, <1>4, <1>5, <1>6, <1>7 DEF Next, Step

\* The cache stays within max_entries for ever.
THEOREM CacheStaysBounded == Spec => []CacheBounded
<1>1. Init => CacheBounded
  <2> SUFFICES ASSUME Init PROVE CacheBounded
    OBVIOUS
  <2>1. Cached = {}
    BY DEF Init, Cached
  <2> QED BY <2>1, FS_EmptySet, CapacityAssumption DEF CacheBounded, Cached
<1>2. TypeOK /\ CacheBounded /\ [Next]_vars => CacheBounded'
  BY CacheStep
<1> QED BY <1>1, <1>2, TypeCorrect, PTL DEF Spec

-----------------------------------------------------------------------------
(* Failures of a circuit are faults that happened.                         *)

\* Requests whose fault has happened and is not reported yet.
Owing(r) == {q \in Requests : /\ Repo(q) = r /\ pc[q] \in {"reading", "report"}
                              /\ ~WorkerOk(kind[q], outcome[q])}

\* The inductive invariant: a fault is either counted by the circuit or owed
\* to it by exactly one request.
FaultsAccounted ==
  /\ \A q \in Requests : kind[q] # "mcp"
  /\ \A r \in Repos : circuit[r].failures + Cardinality(Owing(r)) <= faults

\* Any set of requests is finite.
LEMMA OwingFinite ==
  \A S : S \subseteq Requests => IsFiniteSet(S) /\ Cardinality(S) \in Nat
BY FiniteAssumption, FS_Subset, FS_CardinalityType

\* A smaller set of debts and a smaller count are accounted for as well.
LEMMA FewerOwing ==
  ASSUME FaultsAccounted, TypeOK, TypeOK', \A q \in Requests : kind'[q] # "mcp",
         faults' >= faults,
         \A r \in Repos : circuit'[r].failures <= circuit[r].failures
                          /\ Owing(r)' \subseteq Owing(r)
  PROVE  FaultsAccounted'
<1> SUFFICES ASSUME NEW r \in Repos
             PROVE  circuit'[r].failures + Cardinality(Owing(r)') <= faults'
  BY DEF FaultsAccounted
<1>1. circuit[r].failures + Cardinality(Owing(r)) <= faults
  BY DEF FaultsAccounted
<1>2. IsFiniteSet(Owing(r)) /\ Cardinality(Owing(r)) \in Nat
      /\ Cardinality(Owing(r)') \in Nat
  BY OwingFinite DEF Owing
<1>3. Cardinality(Owing(r)') <= Cardinality(Owing(r))
  BY <1>2, FS_Subset
<1>4. circuit[r].failures \in Nat /\ circuit'[r].failures \in Nat
      /\ faults \in Nat /\ faults' \in Nat
  BY BoundsAssumption, ThresholdAssumption DEF TypeOK, Circuits
<1> QED BY <1>1, <1>2, <1>3, <1>4

\* One more debt is covered by one more fault.
LEMMA OneMoreOwing ==
  ASSUME FaultsAccounted, TypeOK, TypeOK', \A q \in Requests : kind'[q] # "mcp",
         faults' = faults + 1, circuit' = circuit, NEW q \in Requests,
         \A r \in Repos : Owing(r)' \subseteq Owing(r) \cup {q}
  PROVE  FaultsAccounted'
<1> SUFFICES ASSUME NEW r \in Repos
             PROVE  circuit'[r].failures + Cardinality(Owing(r)') <= faults'
  BY DEF FaultsAccounted
<1>1. circuit[r].failures + Cardinality(Owing(r)) <= faults
  BY DEF FaultsAccounted
<1>2. IsFiniteSet(Owing(r)) /\ Cardinality(Owing(r)) \in Nat
      /\ Cardinality(Owing(r)') \in Nat /\ IsFiniteSet(Owing(r) \cup {q})
      /\ Cardinality(Owing(r) \cup {q}) \in Nat
  BY OwingFinite DEF Owing
<1>3. Cardinality(Owing(r)') <= Cardinality(Owing(r) \cup {q})
  BY <1>2, FS_Subset
<1>4. Cardinality(Owing(r) \cup {q}) <= Cardinality(Owing(r)) + 1
  <2>1. CASE q \in Owing(r)
    <3>1. Owing(r) \cup {q} = Owing(r)
      BY <2>1
    <3> QED BY <1>2, <3>1
  <2>2. CASE q \notin Owing(r)
    BY <1>2, <2>2, FS_AddElement
  <2> QED BY <2>1, <2>2
<1>5. circuit[r].failures \in Nat /\ faults \in Nat
  BY BoundsAssumption, ThresholdAssumption DEF TypeOK, Circuits
<1> QED BY <1>1, <1>2, <1>3, <1>4, <1>5

\* The end of a request adds no debt.
LEMMA LeaveOwing ==
  ASSUME TypeOK, NEW q \in Requests, Leave(q), kind' = kind, key' = key
  PROVE  \A r \in Repos : Owing(r)' \subseteq Owing(r) \ {q}
BY DEF Leave, Forget, Owing, Repo, WorkerOk, TypeOK

\* A report settles the debt of its request and adds at most one failure.
LEMMA ReportAccounted ==
  ASSUME FaultsAccounted, TypeOK, TypeOK', NEW q \in Requests, Report(q)
  PROVE  FaultsAccounted'
<1>1. kind' = kind /\ key' = key /\ faults' = faults /\ pc[q] = "report" /\ Repo(q) \in Repos
  BY RepoType DEF Report, call, budget
<1>2. \A r \in Repos : Owing(r)' \subseteq Owing(r) \ {q}
  <2>1. CASE kind[q] = "search" /\ outcome[q] = "ok"
    BY <1>1, <2>1 DEF Report, Owing, Repo, WorkerOk, TypeOK, reply
  <2>2. CASE ~(kind[q] = "search" /\ outcome[q] = "ok")
    BY <1>1, <2>2, LeaveOwing DEF Report
  <2> QED BY <2>1, <2>2
<1>3. CASE WorkerOk(kind[q], outcome[q])
  <2>1. \A r \in Repos : circuit'[r].failures <= circuit[r].failures
    BY <1>1, <1>3, ThresholdAssumption DEF Report, Succeed, Closed, TypeOK, Circuits
  <2> QED BY <1>1, <1>2, <2>1, BoundsAssumption, FewerOwing DEF FaultsAccounted, TypeOK
<1>4. CASE ~WorkerOk(kind[q], outcome[q])
  <2> SUFFICES ASSUME NEW r \in Repos
               PROVE  circuit'[r].failures + Cardinality(Owing(r)') <= faults'
    BY <1>1 DEF FaultsAccounted
  <2>1. circuit[r].failures + Cardinality(Owing(r)) <= faults
    BY DEF FaultsAccounted
  <2>2. IsFiniteSet(Owing(r)) /\ Cardinality(Owing(r)) \in Nat
        /\ Cardinality(Owing(r)') \in Nat /\ IsFiniteSet(Owing(r) \ {q})
        /\ Cardinality(Owing(r) \ {q}) \in Nat
    BY OwingFinite DEF Owing
  <2>3. Cardinality(Owing(r)') <= Cardinality(Owing(r) \ {q})
    BY <1>2, <2>2, FS_Subset
  <2>4. circuit[r].failures \in Nat /\ circuit'[r].failures \in Nat /\ faults \in Nat
    BY BoundsAssumption, ThresholdAssumption DEF TypeOK, Circuits
  <2>5. CASE r = Repo(q)
    <3>1. q \in Owing(r)
      BY <1>1, <1>4, <2>5 DEF Owing
    <3>2. Cardinality(Owing(r) \ {q}) = Cardinality(Owing(r)) - 1
      BY <2>2, <3>1, FS_RemoveElement
    <3>3. circuit'[r] = Fail(circuit[r])
      BY <1>1, <1>4, <2>5 DEF Report, TypeOK
    <3>4. circuit'[r].failures <= circuit[r].failures + 1
      BY <2>4, <3>3, ThresholdAssumption DEF Fail, TypeOK, Circuits
    <3> QED BY <1>1, <2>1, <2>2, <2>3, <2>4, <3>2, <3>4
  <2>6. CASE r # Repo(q)
    <3>1. circuit'[r] = circuit[r]
      BY <1>1, <1>4, <2>6 DEF Report, TypeOK
    <3>2. Cardinality(Owing(r) \ {q}) <= Cardinality(Owing(r))
      BY <2>2, FS_Subset
    <3> QED BY <1>1, <2>1, <2>2, <2>3, <2>4, <3>1, <3>2
  <2> QED BY <2>5, <2>6
<1> QED BY <1>3, <1>4

\* Every step keeps the faults accounted for.
LEMMA FaultStep ==
  ASSUME "mcp" \notin Kinds, TypeOK, TypeOK', FaultsAccounted, [Next]_vars
  PROVE  FaultsAccounted'
<1> USE DEF FaultsAccounted
<1>0. faults \in Nat /\ \A r \in Repos : circuit[r].failures \in Nat
  BY BoundsAssumption, ThresholdAssumption DEF TypeOK, Circuits
<1>1. ASSUME NEW q \in Requests, NEW k \in Kinds, NEW x \in Keys, Arrive(q, k, x)
      PROVE FaultsAccounted'
  <2>1. \A f \in Requests : kind'[f] # "mcp"
    BY <1>1 DEF Arrive, TypeOK
  <2>2. \A r \in Repos : Owing(r)' \subseteq Owing(r)
    BY <1>1 DEF Arrive, Goto, Owing, Repo, WorkerOk, reply, TypeOK
  <2>3. circuit' = circuit /\ faults' = faults
    BY <1>1 DEF Arrive, budget
  <2> QED BY <1>0, <2>1, <2>2, <2>3, FewerOwing
<1>2. ASSUME NEW q \in Requests,
             Replay(q) \/ Shed(q) \/ Refuse(q) \/ Store(q) \/ Cancel(q)
      PROVE FaultsAccounted'
  <2>1. Leave(q) /\ kind' = kind /\ key' = key /\ circuit' = circuit /\ faults' = faults
    BY <1>2 DEF Replay, Shed, Refuse, Store, Cancel, call, budget
  <2>2. \A r \in Repos : Owing(r)' \subseteq Owing(r)
    BY <2>1, LeaveOwing
  <2> QED BY <1>0, <2>1, <2>2, FewerOwing
<1>3. ASSUME NEW q \in Requests,
             Miss(q) \/ BeginFlight(q) \/ Acquire(q) \/ BodyRead(q) \/ Stream(q)
      PROVE FaultsAccounted'
  <2>1. kind' = kind /\ circuit' = circuit /\ faults' = faults
    BY <1>3 DEF Miss, BeginFlight, Acquire, BodyRead, Stream, call, budget
  <2>2. \A r \in Repos : Owing(r)' \subseteq Owing(r)
    BY <1>3 DEF Miss, BeginFlight, Acquire, BodyRead, Stream, Goto, call, reply, Owing, Repo,
                WorkerOk, TypeOK
  <2> QED BY <1>0, <2>1, <2>2, FewerOwing
<1>4. ASSUME NEW q \in Requests, Admit(q) PROVE FaultsAccounted'
  <2>1. kind' = kind /\ key' = key /\ reply' = reply /\ faults' = faults
        /\ pc' = [pc EXCEPT ![q] = "sending"] /\ Repo(q) \in Repos
    BY <1>4, RepoType DEF Admit, Goto, call, budget
  <2>2. \A r \in Repos : circuit'[r].failures = circuit[r].failures
    BY <1>4, <2>1 DEF Admit, Admitted, TypeOK, Circuits
  <2>3. \A r \in Repos : Owing(r)' \subseteq Owing(r)
    BY <2>1 DEF Owing, Repo, WorkerOk, reply, TypeOK
  <2> QED BY <1>0, <2>1, <2>2, <2>3, FewerOwing
<1>5. ASSUME NEW q \in Requests, SendFails(q) \/ BodyFails(q) PROVE FaultsAccounted'
  <2>1. kind' = kind /\ circuit' = circuit /\ faults' = faults + 1
    BY <1>5 DEF SendFails, BodyFails, call
  <2>2. \A r \in Repos : Owing(r)' \subseteq Owing(r) \cup {q}
    BY <1>5 DEF SendFails, BodyFails, Goto, call, Owing, Repo, WorkerOk, TypeOK
  <2> QED BY <2>1, <2>2, OneMoreOwing
<1>6. ASSUME NEW q \in Requests, Answer(q) PROVE FaultsAccounted'
  <2>1. PICK a \in Answers : /\ faults' = IF a \in ServerErrors THEN faults + 1 ELSE faults
                             /\ outcome' = [outcome EXCEPT ![q] = a]
    BY <1>6 DEF Answer
  <2>2. kind' = kind /\ key' = key /\ circuit' = circuit
        /\ pc' = [pc EXCEPT ![q] = "reading"]
    BY <1>6 DEF Answer, Goto, call
  <2>3. CASE a \in ServerErrors
    <3>1. \A r \in Repos : Owing(r)' \subseteq Owing(r) \cup {q}
      BY <2>1, <2>2 DEF Owing, Repo, WorkerOk, TypeOK
    <3> QED BY <2>1, <2>2, <2>3, <3>1, OneMoreOwing
  <2>4. CASE a \notin ServerErrors
    <3>1. WorkerOk(kind[q], a)
      BY <2>4 DEF WorkerOk, Answers, ServerErrors
    <3>2. \A r \in Repos : Owing(r)' \subseteq Owing(r)
      BY <2>1, <2>2, <3>1 DEF Owing, Repo, WorkerOk, TypeOK
    <3> QED BY <1>0, <2>1, <2>2, <2>4, <3>2, FewerOwing
  <2> QED BY <2>3, <2>4
<1>7. ASSUME NEW q \in Requests, Report(q) PROVE FaultsAccounted'
  BY <1>7, ReportAccounted
<1>8. ASSUME NEW r \in Repos, CooldownElapses(r) PROVE FaultsAccounted'
  <2>1. \A x \in Repos : circuit'[x].failures = circuit[x].failures
    BY <1>8 DEF CooldownElapses, TypeOK, Circuits
  <2>2. kind' = kind /\ faults' = faults /\ \A x \in Repos : Owing(x)' = Owing(x)
    BY <1>8 DEF CooldownElapses, call, reply, budget, Owing, Repo, WorkerOk
  <2> QED BY <1>0, <2>1, <2>2, FewerOwing
<1>9. ASSUME NEW r \in Repos,
             Materialize(r) \/ Invalidate(r) \/ PushFails(r) \/ WorkerIndexes(r)
      PROVE FaultsAccounted'
  <2>1. kind' = kind /\ circuit' = circuit /\ faults' >= faults
        /\ \A x \in Repos : Owing(x)' = Owing(x)
    BY <1>0, <1>9 DEF Materialize, Invalidate, PushFails, WorkerIndexes, call, reply, budget,
                      Owing, Repo, WorkerOk
  <2> QED BY <1>0, <2>1, FewerOwing
<1>10. ASSUME NEW k \in Keys, TtlExpires(k) PROVE FaultsAccounted'
  BY <1>10 DEF TtlExpires, call, reply, budget, Owing, Repo, WorkerOk
<1>11. CASE UNCHANGED vars
  BY <1>11 DEF vars, call, reply, budget, Owing, Repo, WorkerOk
<1> QED BY <1>1, <1>2, <1>3, <1>4, <1>5, <1>6, <1>7, <1>8, <1>9, <1>10, <1>11 DEF Next, Step

\* Without MCP calls a circuit never counts a failure that did not happen.
THEOREM FailuresHappened == Spec => []FailuresAreFaults
<1>1. CASE "mcp" \in Kinds
  <2>1. FailuresAreFaults
    BY <1>1 DEF FailuresAreFaults
  <2> QED BY <2>1, PTL
<1>2. CASE "mcp" \notin Kinds
  <2>1. Init => FaultsAccounted
    <3> SUFFICES ASSUME Init PROVE FaultsAccounted
      OBVIOUS
    <3>1. \A r \in Repos : Owing(r) = {}
      BY DEF Init, Owing
    <3>2. \A r \in Repos : Cardinality(Owing(r)) = 0
      BY <3>1, FS_EmptySet
    <3>3. \A r \in Repos : circuit[r].failures = 0
      BY DEF Init, Closed
    <3>4. faults = 0 /\ \A q \in Requests : kind[q] # "mcp"
      BY DEF Init
    <3> QED BY <3>2, <3>3, <3>4 DEF FaultsAccounted
  <2>2. TypeOK /\ TypeOK' /\ FaultsAccounted /\ [Next]_vars => FaultsAccounted'
    BY <1>2, FaultStep
  <2>3. TypeOK /\ FaultsAccounted => FailuresAreFaults
    <3> SUFFICES ASSUME TypeOK, FaultsAccounted, NEW r \in Repos
                 PROVE  circuit[r].failures <= faults
      BY DEF FailuresAreFaults
    <3>1. Cardinality(Owing(r)) \in Nat
      BY OwingFinite DEF Owing
    <3>2. circuit[r].failures \in Nat /\ faults \in Nat
      BY BoundsAssumption, ThresholdAssumption DEF TypeOK, Circuits
    <3> QED BY <3>1, <3>2 DEF FaultsAccounted
  <2> QED BY <2>1, <2>2, <2>3, TypeCorrect, PTL DEF Spec
<1> QED BY <1>1, <1>2
=============================================================================
