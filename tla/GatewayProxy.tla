---------------------------- MODULE GatewayProxy ----------------------------
(***************************************************************************)
(* The request path of cce-gateway: every call to a worker passes the      *)
(* search cache with its singleflight slots, the upstream permits and the  *)
(* worker's circuit breaker, while pushes replace the content underneath.  *)
(*                                                                         *)
(* A request is a handler future.  Its steps are the stretches between two *)
(* awaits or two critical sections; the guards it holds (the flight slot   *)
(* and the permits) are released when the future ends or is dropped.  The  *)
(* kinds are the four ways to reach a worker: a cacheable `POST search`    *)
(* and any other call through `proxy`, one branch of `search_all`, and an  *)
(* MCP tool call.  A response is abstracted to the version of the content  *)
(* the worker answered from.                                               *)
(***************************************************************************)
EXTENDS Integers, FiniteSets

CONSTANTS
  Requests,           \* concurrent handler futures
  Repos,              \* registered repositories, one worker each
  Digests,            \* digests of search bodies
  Kinds,              \* kinds of requests that arrive
  Threshold,          \* failure_threshold of the breakers
  MaxEntries,         \* max_entries of the search cache
  WorkerConcurrency,  \* permits per worker
  GlobalConcurrency,  \* permits of the gateway
  MaxPushes,          \* bound: pushes per repository
  MaxFaults,          \* bound: failures of workers and of pushes
  MaxCancels,         \* bound: requests dropped by their client
  None

AllKinds == {"search", "proxy", "fanout", "mcp"}

ASSUME KindsAssumption == Kinds \subseteq AllKinds
ASSUME ThresholdAssumption == Threshold \in Nat \ {0}
ASSUME CapacityAssumption ==
  /\ MaxEntries \in Nat \ {0}
  /\ WorkerConcurrency \in Nat \ {0} /\ GlobalConcurrency \in Nat \ {0}
ASSUME BoundsAssumption ==
  MaxPushes \in Nat /\ MaxFaults \in Nat /\ MaxCancels \in Nat
ASSUME FiniteAssumption == IsFiniteSet(Requests) /\ IsFiniteSet(Repos) /\ IsFiniteSet(Digests)
ASSUME NoneAssumption == None \notin Nat

Keys == Repos \X Digests
Versions == 0..MaxPushes

\* What a call came to.  The "bare" answers carry no `error` field in their
\* body; "broken" is a body that failed or was not the JSON it should be.
Answers == {"ok", "rejected", "rejectedBare", "error", "errorBare"}
Outcomes == Answers \cup {"unreachable", "broken", "stream"}
ServerErrors == {"error", "errorBare"}

VARIABLES
  source,    \* version of each repository's materialized tree
  indexed,   \* version each worker's current snapshot was built from
  pushing,   \* repositories whose push is between materialize and invalidate
  entries,   \* search cache: the version each key's response came from
  expired,   \* cached keys older than the TTL
  inflight,  \* keys with a running fetch
  circuit,   \* breaker of each worker
  pc, kind, key,
  leads,     \* requests that hold a FlightDone guard
  outcome,   \* what the request's worker call came to
  got,       \* version the worker answered from
  served,    \* version a request was last served from the cache
  probes,    \* requests whose call was admitted by a half-open circuit
  faults, cancels

content == <<source, indexed, pushing>>
cache == <<entries, expired>>
call == <<kind, key>>
reply == <<outcome, got>>
history == <<served, probes>>
budget == <<faults, cancels>>
vars == <<content, cache, inflight, circuit, pc, call, leads, reply, history, budget>>

Closed == [failures |-> 0, open |-> "closed", probing |-> FALSE]

Init ==
  /\ source = [r \in Repos |-> 0] /\ indexed = [r \in Repos |-> 0] /\ pushing = {}
  /\ entries = [k \in Keys |-> None] /\ expired = {}
  /\ inflight = {}
  /\ circuit = [r \in Repos |-> Closed]
  /\ pc = [q \in Requests |-> "idle"]
  /\ kind = [q \in Requests |-> "proxy"]
  /\ \E x \in Keys : key = [q \in Requests |-> x]
  /\ leads = {}
  /\ outcome = [q \in Requests |-> "ok"]
  /\ got = [q \in Requests |-> 0]
  /\ served = [q \in Requests |-> None] /\ probes = {}
  /\ faults = 0 /\ cancels = 0

Repo(q) == key[q][1]
Goto(q, p, n) == pc[q] = p /\ pc' = [pc EXCEPT ![q] = n]

-----------------------------------------------------------------------------
(* The circuit breaker of one worker.                                      *)

\* Circuit::admit: closed admits, a half-open circuit admits one probe.
Admits(c) == c.open = "closed" \/ (c.open = "elapsed" /\ ~c.probing)
Admitted(c) == IF c.open = "closed" THEN c ELSE [c EXCEPT !.probing = TRUE]

\* Seeded bug: success does not clear the deadline.
SucceedKeepsOpen(c) == [Closed EXCEPT !.open = c.open]

\* Circuit::succeed.
Succeed(c) == Closed

\* Seeded bug: a failure does not give the probe permit back.
FailKeepsProbe(c) ==
  LET n == IF c.failures < Threshold THEN c.failures + 1 ELSE Threshold IN
  [failures |-> n, probing |-> c.probing,
   open |-> IF c.open # "closed" \/ n >= Threshold THEN "cooling" ELSE "closed"]

\* Seeded bug: the count does not saturate.
FailUnsaturated(c) ==
  LET n == c.failures + 1 IN
  [failures |-> n, probing |-> FALSE,
   open |-> IF c.open # "closed" \/ n >= Threshold THEN "cooling" ELSE "closed"]

\* Circuit::fail; the count saturates at Threshold, beyond which the code
\* never looks at it.
Fail(c) ==
  LET n == IF c.failures < Threshold THEN c.failures + 1 ELSE Threshold IN
  [failures |-> n, probing |-> FALSE,
   open |-> IF c.open # "closed" \/ n >= Threshold THEN "cooling" ELSE "closed"]

\* The cooldown of an open circuit runs out: it is half-open from now on.
CooldownElapses(r) ==
  /\ circuit[r].open = "cooling"
  /\ circuit' = [circuit EXCEPT ![r].open = "elapsed"]
  /\ UNCHANGED <<content, cache, inflight, pc, call, leads, reply, history, budget>>

\* Seeded bug: every kind of call goes by its message.
WorkerOkByMessage(k, o) == o \in {"ok", "rejectedBare", "errorBare", "stream"}

\* Whether a call of kind k that came to o is reported as a success.  The
\* proxy and the fan-out go by the status; an MCP call goes by its message,
\* which is the body's `error` field when there is one.
WorkerOk(k, o) ==
  IF k = "mcp" THEN o \in {"ok", "rejectedBare", "errorBare", "broken"}
               ELSE o \in {"ok", "rejected", "rejectedBare", "stream"}

-----------------------------------------------------------------------------
(* Guards: what a request holds, and its end.                              *)

Forget(q) ==
  /\ outcome' = [outcome EXCEPT ![q] = "ok"]
  /\ got' = [got EXCEPT ![q] = 0]
  /\ probes' = probes \ {q}

\* Seeded bug: the slot is released without dropping the sender.
LeaveWithoutWake(q) ==
  /\ pc' = [pc EXCEPT ![q] = "idle"]
  /\ leads' = leads \ {q}
  /\ inflight' = IF q \in leads THEN inflight \ {key[q]} ELSE inflight
  /\ Forget(q)

\* The future of q ends: its locals are gone, its permits are free, and
\* FlightDone releases the slot and wakes every follower of the key.
Leave(q) ==
  LET woken == {f \in Requests : q \in leads /\ pc[f] = "follow" /\ key[f] = key[q]} IN
  /\ pc' = [f \in Requests |-> IF f = q THEN "idle"
                               ELSE IF f \in woken THEN "recheck" ELSE pc[f]]
  /\ leads' = leads \ {q}
  /\ inflight' = IF q \in leads THEN inflight \ {key[q]} ELSE inflight
  /\ Forget(q)

\* A fan-out branch gives its permits back before it reports.
HoldsWorker(q) ==
  \/ pc[q] \in {"global", "admit", "sending", "reading", "store"}
  \/ pc[q] = "report" /\ kind[q] # "fanout"
HoldsGlobal(q) == HoldsWorker(q) /\ pc[q] # "global"

WorkerFree(r) == Cardinality({q \in Requests : HoldsWorker(q) /\ Repo(q) = r}) < WorkerConcurrency
GlobalFree == Cardinality({q \in Requests : HoldsGlobal(q)}) < GlobalConcurrency

-----------------------------------------------------------------------------
(* The search cache.                                                       *)

\* Seeded bug: an entry is replayed whatever its age.
HitAtAnyAge(k) == entries[k] # None

\* SearchCache::get finds an entry within its TTL.
Hit(k) == entries[k] # None /\ k \notin expired

\* What SearchCache::put leaves in a cache before it inserts.
Survivors ==
  LET live == {k \in Keys : entries[k] # None} IN
  IF Cardinality(live) < MaxEntries THEN live
  ELSE IF Cardinality(live \ expired) < MaxEntries THEN live \ expired ELSE {}

Put(k, v) ==
  /\ entries' = [x \in Keys |-> IF x = k THEN v
                                ELSE IF x \in Survivors THEN entries[x] ELSE None]
  /\ expired' = (expired \cap Survivors) \ {k}

TtlExpires(k) ==
  /\ Hit(k)
  /\ expired' = expired \cup {k}
  /\ UNCHANGED <<content, entries, inflight, circuit, pc, call, leads, reply, history, budget>>

-----------------------------------------------------------------------------
(* The steps of a request.                                                 *)

Arrive(q, k, x) ==
  /\ Goto(q, "idle", IF k = "search" THEN "lookup" ELSE "permit")
  /\ kind' = [kind EXCEPT ![q] = k]
  /\ key' = [key EXCEPT ![q] = x]
  /\ served' = [served EXCEPT ![q] = None]
  /\ UNCHANGED <<content, cache, inflight, circuit, leads, reply, probes, budget>>

\* The first look into the cache, and a woken follower's second one.
Replay(q) ==
  /\ pc[q] \in {"lookup", "recheck"}
  /\ Hit(key[q])
  /\ served' = [served EXCEPT ![q] = entries[key[q]]]
  /\ Leave(q)
  /\ UNCHANGED <<content, cache, circuit, call, budget>>

Miss(q) ==
  /\ ~Hit(key[q])
  /\ \/ Goto(q, "lookup", "flight")
     \/ Goto(q, "recheck", "permit")
  /\ UNCHANGED <<content, cache, inflight, circuit, call, leads, reply, history, budget>>

\* Seeded bug: the slot is taken without looking whether it is free.
BeginFlightUnchecked(q) ==
  /\ Goto(q, "flight", "permit")
  /\ inflight' = inflight \cup {key[q]}
  /\ leads' = leads \cup {q}
  /\ UNCHANGED <<content, cache, circuit, call, reply, history, budget>>

\* SearchCache::begin_flight.
BeginFlight(q) ==
  /\ \/ /\ key[q] \notin inflight
        /\ Goto(q, "flight", "permit")
        /\ inflight' = inflight \cup {key[q]}
        /\ leads' = leads \cup {q}
     \/ /\ key[q] \in inflight
        /\ Goto(q, "flight", "follow")
        /\ UNCHANGED <<inflight, leads>>
  /\ UNCHANGED <<content, cache, circuit, call, reply, history, budget>>

\* acquire_upstream: the worker's permit first, then the gateway's.
Acquire(q) ==
  /\ \/ WorkerFree(Repo(q)) /\ Goto(q, "permit", "global")
     \/ GlobalFree /\ Goto(q, "global", "admit")
  /\ UNCHANGED <<content, cache, inflight, circuit, call, leads, reply, history, budget>>

\* No permit came free within UPSTREAM_QUEUE_WAIT.
Shed(q) ==
  /\ \/ pc[q] = "permit" /\ ~WorkerFree(Repo(q))
     \/ pc[q] = "global" /\ ~GlobalFree
  /\ Leave(q)
  /\ UNCHANGED <<content, cache, circuit, call, served, budget>>

Admit(q) ==
  /\ Admits(circuit[Repo(q)])
  /\ Goto(q, "admit", "sending")
  /\ circuit' = [circuit EXCEPT ![Repo(q)] = Admitted(@)]
  /\ probes' = IF circuit[Repo(q)].open = "closed" THEN probes \ {q} ELSE probes \cup {q}
  /\ UNCHANGED <<content, cache, inflight, call, leads, reply, served, budget>>

Refuse(q) ==
  /\ pc[q] = "admit"
  /\ ~Admits(circuit[Repo(q)])
  /\ Leave(q)
  /\ UNCHANGED <<content, cache, circuit, call, served, budget>>

\* The call times out or cannot connect.
SendFails(q) ==
  /\ Goto(q, "sending", "report")
  /\ faults < MaxFaults
  /\ faults' = faults + 1
  /\ outcome' = [outcome EXCEPT ![q] = "unreachable"]
  /\ UNCHANGED <<content, cache, inflight, circuit, call, leads, got, history, cancels>>

\* The worker answers from its current snapshot and the status line arrives.
Answer(q) ==
  /\ Goto(q, "sending", "reading")
  /\ \E a \in Answers :
       /\ a \in ServerErrors => faults < MaxFaults
       /\ faults' = IF a \in ServerErrors THEN faults + 1 ELSE faults
       /\ outcome' = [outcome EXCEPT ![q] = a]
  /\ got' = [got EXCEPT ![q] = indexed[Repo(q)]]
  /\ UNCHANGED <<content, cache, inflight, circuit, call, leads, history, cancels>>

BodyRead(q) ==
  /\ Goto(q, "reading", "report")
  /\ UNCHANGED <<content, cache, inflight, circuit, call, leads, reply, history, budget>>

BodyFails(q) ==
  /\ Goto(q, "reading", "report")
  /\ faults < MaxFaults
  /\ faults' = faults + 1
  /\ outcome' = [outcome EXCEPT ![q] = "broken"]
  /\ UNCHANGED <<content, cache, inflight, circuit, call, leads, got, history, cancels>>

\* An event stream is passed through without reading its body.
Stream(q) ==
  /\ kind[q] = "proxy" /\ outcome[q] = "ok"
  /\ Goto(q, "reading", "report")
  /\ outcome' = [outcome EXCEPT ![q] = "stream"]
  /\ UNCHANGED <<content, cache, inflight, circuit, call, leads, got, history, budget>>

\* Seeded bug: a reached error answer is not reported to the breaker.
ReportTransportOnly(q) ==
  /\ pc[q] = "report"
  /\ IF outcome[q] \in ServerErrors
     THEN UNCHANGED circuit
     ELSE circuit' = [circuit EXCEPT ![Repo(q)] =
                        IF WorkerOk(kind[q], outcome[q]) THEN Succeed(@) ELSE Fail(@)]
  /\ Leave(q)
  /\ UNCHANGED <<content, cache, call, served, budget>>

\* The one outcome report of an admitted call; a good search goes on to be
\* stored, everything else returns.
Report(q) ==
  /\ pc[q] = "report"
  /\ circuit' = [circuit EXCEPT ![Repo(q)] =
                   IF WorkerOk(kind[q], outcome[q]) THEN Succeed(@) ELSE Fail(@)]
  /\ IF kind[q] = "search" /\ outcome[q] = "ok"
     THEN /\ pc' = [pc EXCEPT ![q] = "store"]
          /\ UNCHANGED <<leads, inflight, reply, probes>>
     ELSE Leave(q)
  /\ UNCHANGED <<content, cache, call, served, budget>>

Store(q) ==
  /\ pc[q] = "store"
  /\ Put(key[q], got[q])
  /\ Leave(q)
  /\ UNCHANGED <<content, circuit, call, served, budget>>

\* The client goes away: the future is dropped at the await it is in.
Cancel(q) ==
  /\ pc[q] \in {"follow", "permit", "global", "sending", "reading"}
  /\ cancels < MaxCancels
  /\ cancels' = cancels + 1
  /\ Leave(q)
  /\ UNCHANGED <<content, cache, circuit, call, served, faults>>

-----------------------------------------------------------------------------
(* Pushes and the worker's index.                                          *)

\* push_inner up to the swap of the source tree, one push per repository.
Materialize(r) ==
  /\ r \notin pushing
  /\ source[r] < MaxPushes
  /\ source' = [source EXCEPT ![r] = @ + 1]
  /\ pushing' = pushing \cup {r}
  /\ UNCHANGED <<indexed, cache, inflight, circuit, pc, call, leads, reply, history, budget>>

\* invalidate_repo at the end of the push.
Invalidate(r) ==
  /\ r \in pushing
  /\ pushing' = pushing \ {r}
  /\ entries' = [k \in Keys |-> IF k[1] = r THEN None ELSE entries[k]]
  /\ expired' = {k \in expired : k[1] # r}
  /\ UNCHANGED <<source, indexed, inflight, circuit, pc, call, leads, reply, history, budget>>

\* persist_registry fails, and the push returns without invalidating.
PushFails(r) ==
  /\ r \in pushing
  /\ faults < MaxFaults
  /\ faults' = faults + 1
  /\ pushing' = pushing \ {r}
  /\ UNCHANGED <<source, indexed, cache, inflight, circuit, pc, call, leads, reply, history,
                 cancels>>

\* The worker publishes a snapshot of the materialized tree, at its own pace.
WorkerIndexes(r) ==
  /\ indexed[r] # source[r]
  /\ indexed' = [indexed EXCEPT ![r] = source[r]]
  /\ UNCHANGED <<source, pushing, cache, inflight, circuit, pc, call, leads, reply, history,
                 budget>>

-----------------------------------------------------------------------------
Step(q) ==
  \/ Replay(q) \/ Miss(q) \/ BeginFlight(q) \/ Acquire(q) \/ Shed(q) \/ Admit(q)
  \/ Refuse(q) \/ SendFails(q) \/ Answer(q) \/ BodyRead(q) \/ BodyFails(q)
  \/ Stream(q) \/ Report(q) \/ Store(q)

Next ==
  \/ \E q \in Requests : Step(q) \/ Cancel(q) \/ \E k \in Kinds, x \in Keys : Arrive(q, k, x)
  \/ \E r \in Repos : \/ CooldownElapses(r) \/ Materialize(r) \/ Invalidate(r)
                      \/ PushFails(r) \/ WorkerIndexes(r)
  \/ \E k \in Keys : TtlExpires(k)

Spec == Init /\ [][Next]_vars

\* The runtime polls every future that can go on, timers fire, clients keep
\* asking.  Nothing is assumed of pushes, of the worker's index or of clients
\* that go away.
Fairness ==
  /\ \A q \in Requests : WF_vars(Step(q))
  /\ \A r \in Repos : WF_vars(CooldownElapses(r))
  /\ \A k \in Keys : WF_vars(TtlExpires(k))
  /\ WF_vars(\E q \in Requests, k \in Kinds, x \in Keys : Arrive(q, k, x))

FairSpec == Spec /\ Fairness
-----------------------------------------------------------------------------
(* Properties.                                                             *)

Locations == {"idle", "lookup", "flight", "follow", "recheck", "permit", "global", "admit",
              "sending", "reading", "report", "store"}
Circuits == [failures : 0..Threshold, open : {"closed", "cooling", "elapsed"},
             probing : BOOLEAN]

\* Type correctness.
TypeOK ==
  /\ source \in [Repos -> Versions] /\ indexed \in [Repos -> Versions]
  /\ pushing \in SUBSET Repos
  /\ entries \in [Keys -> Versions \cup {None}]
  /\ expired \in SUBSET Keys
  /\ inflight \in SUBSET Keys
  /\ circuit \in [Repos -> Circuits]
  /\ pc \in [Requests -> Locations]
  /\ kind \in [Requests -> AllKinds] /\ key \in [Requests -> Keys]
  /\ leads \in SUBSET Requests /\ probes \in SUBSET Requests
  /\ outcome \in [Requests -> Outcomes] /\ got \in [Requests -> Versions]
  /\ served \in [Requests -> Versions \cup {None}]
  /\ faults \in 0..MaxFaults /\ cancels \in 0..MaxCancels

\* Between admit and its report: the breaker is owed an outcome.
InCall(q) == pc[q] \in {"sending", "reading", "report"}

\* Singleflight: a key in flight has exactly one leader, that leader is
\* working towards its end, and whoever follows waits for a slot that exists.
FlightsHaveLeaders ==
  /\ \A k \in inflight : \E q \in leads : key[q] = k
  /\ \A q \in leads : pc[q] \notin {"idle", "lookup", "flight", "follow", "recheck"}
  /\ \A q, f \in leads : key[q] = key[f] => q = f
  /\ \A q \in Requests : q \in leads \/ pc[q] = "follow" => key[q] \in inflight

\* The cache never holds more than max_entries responses.
CacheBounded == Cardinality({k \in Keys : entries[k] # None}) <= MaxEntries

\* A circuit is open exactly when the consecutive failures reached the
\* threshold, whichever stragglers report in between, and only a half-open
\* circuit has a probe out.
BreakerConsistent ==
  \A r \in Repos : /\ circuit[r].open # "closed" <=> circuit[r].failures >= Threshold
                   /\ circuit[r].probing => circuit[r].open = "elapsed"

\* As long as no client went away, a claimed probe permit belongs to a call
\* that still owes its outcome, so the permit comes back.
ProbeHasOwner ==
  cancels = 0 => \A r \in Repos : circuit[r].probing =>
                   \E q \in probes : InCall(q) /\ Repo(q) = r

\* Without MCP calls, a worker that never failed is never counted down: the
\* failures of a circuit are failures that happened.
FailuresAreFaults == "mcp" \notin Kinds => \A r \in Repos : circuit[r].failures <= faults

\* Every request returns: followers are woken, waiters are served or shed.
EveryRequestReturns == \A q \in Requests : pc[q] # "idle" ~> pc[q] = "idle"

\* Once a worker stops failing its circuit closes for good, as long as no
\* client went away during a call.
HealthyWorkerRecovers == <>[](cancels > 0 \/ \A r \in Repos : circuit[r].open = "closed")

\* Once pushes and the index have settled, replays of older content end.
StaleReplaysEnd ==
  <>[][\A q \in Requests : served'[q] # served[q] =>
         served'[q] \in {None, indexed[Repo(q)]}]_vars
=============================================================================
