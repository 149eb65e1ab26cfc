------------------------ MODULE ProviderAvailability ------------------------
(* The gates in front of optional telemetry providers.  A provider has a   *)
(* gate object in a bounded cache; the first request, and the first after   *)
(* an outage, probes the provider alone, the others wait for its verdict.  *)
EXTENDS Naturals, Sequences, FiniteSets, SequencesExt, StudioValues

CONSTANTS
    Providers,          \* keys: a service and its provider configuration
    Requests,
    Gates,              \* identities of gate objects
    MaxStates,          \* capacity of the cache
    MaxActive,          \* requests performed at one time
    MaxWaiting,         \* requests waiting for a probe at one time
    MaxRequests         \* bound on the requests made

ASSUME ProviderAssumption ==
    /\ {MaxStates, MaxActive, MaxWaiting, MaxRequests} \subseteq Nat
    /\ IsFiniteSet(Gates) /\ IsFiniteSet(Requests)
    /\ Cardinality(Gates) > MaxStates + Cardinality(Requests)
    /\ Nothing \notin Providers \cup Gates

VARIABLES
    states,         \* the cache, least recently used first: <<provider, gate>>
    gate,           \* gate[g]: what is known of the provider
    request,        \* request[r]
    down,           \* providers whose pause has neither ended nor been evicted
    requests        \* requests made

providerVars == <<states, gate, request, down, requests>>

NewGate == [locked |-> FALSE, queue |-> <<>>, healthy |-> FALSE, paused |-> FALSE, generation |-> 0]
NoRequest == [pc |-> "idle", key |-> Nothing, g |-> Nothing, generation |-> 0]

ProviderInit ==
    /\ states = <<>> /\ gate = [g \in Gates |-> NewGate]
    /\ request = [r \in Requests |-> NoRequest]
    /\ down = {} /\ requests = 0

Performing == {r \in Requests : request[r].pc \in {"probe", "perform"}}
Waiting == {r \in Requests : request[r].pc = "wait"}
ActiveOn(g) == {r \in Performing : request[r].g = g}
WaitersOf(g) == {r \in Waiting : request[r].g = g}

-----------------------------------------------------------------------------
(* _state: the cached gate moves to the end; a full cache gives up its     *)
(* oldest gate that nobody uses, or refuses.                               *)
Cached(k) == {i \in DOMAIN states : states[i][1] = k}
(* Seeded fault: a gate is evicted although requests wait for its probe.   *)
MutantEvictable(g) == ActiveOn(g) = {} /\ ~gate[g].locked
Evictable(g) == ActiveOn(g) = {} /\ WaitersOf(g) = {} /\ ~gate[g].locked
Victims == {i \in DOMAIN states : Evictable(states[i][2])}
Fresh == CHOOSE g \in Gates : /\ \A i \in DOMAIN states : states[i][2] # g
                              /\ \A r \in Requests : request[r].g # g
Lookup(k) ==
    IF Cached(k) # {}
    THEN LET i == CHOOSE i \in Cached(k) : TRUE
         IN  [states |-> Append(RemoveAt(states, i), states[i]), g |-> states[i][2], evicted |-> {}, new |-> FALSE]
    ELSE IF Len(states) < MaxStates
    THEN [states |-> Append(states, <<k, Fresh>>), g |-> Fresh, evicted |-> {}, new |-> TRUE]
    ELSE LET i == CHOOSE i \in Victims : \A j \in Victims : i <= j
         IN  [states |-> Append(RemoveAt(states, i), <<k, Fresh>>), g |-> Fresh,
              evicted |-> {states[i][1]}, new |-> TRUE]

(* _perform up to the request: refused when too many are under way.        *)
Perform(r, k, g, state, pc) ==
    IF Cardinality(Performing) >= MaxActive
    THEN request' = [request EXCEPT ![r] = NoRequest]
    ELSE request' = [request EXCEPT ![r] = [pc |-> pc, key |-> k, g |-> g, generation |-> state.generation]]

(* run, up to its first suspension.                                        *)
Run(r, k) ==
    LET found == Lookup(k)
        g == found.g
        state == IF found.new THEN NewGate ELSE gate[g]
        busy == Cardinality(Performing) >= MaxActive
    IN  /\ request[r] = NoRequest /\ requests < MaxRequests /\ requests' = requests + 1
        /\ Cached(k) # {} \/ Len(states) < MaxStates \/ Victims # {}
        /\ states' = found.states /\ down' = down \ found.evicted
        /\ \/ state.paused /\ UNCHANGED <<gate, request>>
           \/ /\ ~state.paused /\ state.healthy
              /\ Perform(r, k, g, state, "perform") /\ gate' = [gate EXCEPT ![g] = state]
           \/ /\ ~state.paused /\ ~state.healthy /\ (state.locked \/ state.queue # <<>>)
              /\ IF Cardinality(Waiting) >= MaxWaiting THEN UNCHANGED <<gate, request>>
                 ELSE /\ gate' = [gate EXCEPT ![g].queue = Append(@, r)]
                      /\ request' = [request EXCEPT ![r] = [NoRequest EXCEPT !.pc = "wait", !.key = k, !.g = g]]
           \/ /\ ~state.paused /\ ~state.healthy /\ ~state.locked /\ state.queue = <<>>
              /\ gate' = [gate EXCEPT ![g] = [state EXCEPT !.locked = ~busy]]
              /\ Perform(r, k, g, state, "probe")

(* The lock falls to the first that waits, which looks again.              *)
Acquired(r) ==
    LET me == request[r]
        state == gate[me.g]
        busy == Cardinality(Performing) >= MaxActive
        probing == ~state.paused /\ ~state.healthy /\ ~busy
    IN  /\ me.pc = "wait" /\ ~state.locked /\ Head(state.queue) = r
        /\ gate' = [gate EXCEPT ![me.g].queue = Tail(@), ![me.g].locked = probing]
        /\ IF state.paused THEN request' = [request EXCEPT ![r] = NoRequest]
           ELSE Perform(r, me.key, me.g, state, IF state.healthy THEN "perform" ELSE "probe")
        /\ UNCHANGED <<states, down, requests>>

(* The wait for the probe is over before the probe is.                     *)
WaitTimedOut(r) ==
    /\ request[r].pc = "wait"
    /\ gate' = [gate EXCEPT ![request[r].g].queue = SelectSeq(@, LAMBDA q : q # r)]
    /\ request' = [request EXCEPT ![r] = NoRequest]
    /\ UNCHANGED <<states, down, requests>>

Released(state, r) == [state EXCEPT !.locked = IF request[r].pc = "probe" THEN FALSE ELSE @]

(* The provider failed or timed out: an outage.                            *)
Failed(r) ==
    LET g == request[r].g
    IN  /\ r \in Performing
        /\ gate' = [gate EXCEPT ![g] = [Released(@, r) EXCEPT !.generation = gate[g].generation + 1,
                                                            !.healthy = FALSE, !.paused = TRUE]]
        /\ down' = down \cup {request[r].key}
        /\ request' = [request EXCEPT ![r] = NoRequest]
        /\ UNCHANGED <<states, requests>>

(* The provider answered; only the current generation clears the outage.   *)
Succeeded(r) ==
    LET g == request[r].g
        current == request[r].generation = gate[g].generation
    IN  /\ r \in Performing
        /\ gate' = [gate EXCEPT ![g] = IF current THEN [Released(@, r) EXCEPT !.paused = FALSE, !.healthy = TRUE]
                                       ELSE Released(@, r)]
        /\ request' = [request EXCEPT ![r] = NoRequest]
        /\ UNCHANGED <<states, down, requests>>

(* A rejected query, or a cancelled caller, says nothing of the provider.  *)
Rejected(r) ==
    /\ r \in Performing
    /\ gate' = [gate EXCEPT ![request[r].g] = Released(@, r)]
    /\ request' = [request EXCEPT ![r] = NoRequest]
    /\ UNCHANGED <<states, down, requests>>

(* Time: evidence of health, or of an outage, runs out.                    *)
EvidenceExpires(g) ==
    /\ gate[g].healthy \/ gate[g].paused
    /\ gate' = [gate EXCEPT ![g].healthy = FALSE, ![g].paused = FALSE]
    /\ down' = IF gate[g].paused THEN down \ {states[i][1] : i \in {j \in DOMAIN states : states[j][2] = g}} ELSE down
    /\ UNCHANGED <<states, request, requests>>

(* describe.                                                               *)
Describe(k) ==
    IF Cached(k) = {} THEN "unknown"
    ELSE LET state == gate[states[CHOOSE i \in Cached(k) : TRUE][2]]
         IN  IF state.paused THEN "unavailable" ELSE IF state.healthy THEN "ok" ELSE "unknown"

ProviderNext ==
    \/ \E r \in Requests : \/ \E k \in Providers : Run(r, k)
                           \/ Acquired(r) \/ WaitTimedOut(r)
                           \/ Failed(r) \/ Succeeded(r) \/ Rejected(r)
    \/ \E g \in Gates : EvidenceExpires(g)

ProviderSpec == ProviderInit /\ [][ProviderNext]_providerVars

-----------------------------------------------------------------------------
(* A provider whose availability is unknown is asked once: while a probe   *)
(* is under way nobody else probes, whatever was evicted from the bounded  *)
(* cache, and every request of a provider goes through the cached gate.    *)
OneProbe ==
    /\ \A q, r \in Requests :
          q # r /\ request[q].key = request[r].key /\ request[r].key # Nothing =>
             /\ request[q].g = request[r].g
             /\ {request[q].pc, request[r].pc} # {"probe"}
    /\ \A r \in Requests : request[r].key # Nothing =>
          \E i \in DOMAIN states : states[i] = <<request[r].key, request[r].g>>

(* An answer to a request sent before an outage was seen does not end the  *)
(* outage: until its time is over the provider is shown as unavailable.    *)
OutageHolds == \A k \in down : Describe(k) = "unavailable"

(* Both: one probe of an unknown provider, and a pause that lasts.         *)
ProbingSound == OneProbe /\ OutageHolds
=============================================================================
