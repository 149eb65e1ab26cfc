------------------------ MODULE ObservationForwarder ------------------------
(* The sink of a service that sends its observations to Studio in batches. *)
EXTENDS Naturals, Sequences, FiniteSets, SequencesExt

CONSTANTS
    BatchSize,
    MaxObservations,    \* bound on the observations made
    MaxFlushes          \* bound on the POSTs under way at one time

ASSUME ForwarderAssumption == BatchSize \in Nat \ {0} /\ {MaxObservations, MaxFlushes} \subseteq Nat

VARIABLES
    unsent,         \* _pending: observations, numbered
    flushes,        \* the batches whose POST is under way
    ingested,       \* observations Studio took
    observed,       \* observations made
    flushesOverlap  \* two POSTs were under way at one time

forwarderVars == <<unsent, flushes, ingested, observed, flushesOverlap>>

ForwarderInit ==
    /\ unsent = <<>> /\ flushes = <<>> /\ ingested = {} /\ observed = 0
    /\ flushesOverlap = FALSE

(* flush, up to its POST.                                                  *)
StartFlush(batch) ==
    /\ Len(flushes) < MaxFlushes
    /\ flushes' = Append(flushes, batch)
    /\ flushesOverlap' = (flushesOverlap \/ flushes # <<>>)

(* __call__: the batch that is full is sent.                               *)
Observe ==
    /\ observed < MaxObservations /\ observed' = observed + 1
    /\ unsent' = Append(unsent, observed + 1)
    /\ IF Len(unsent') >= BatchSize THEN StartFlush(unsent') ELSE UNCHANGED <<flushes, flushesOverlap>>
    /\ UNCHANGED ingested

Flush == unsent # <<>> /\ StartFlush(unsent) /\ UNCHANGED <<unsent, ingested, observed>>

(* Seeded fault: everything pending is dropped after a POST.               *)
MutantFlushed(i) ==
    /\ ingested' = ingested \cup Range(flushes[i])
    /\ unsent' = <<>>
    /\ flushes' = RemoveAt(flushes, i) /\ UNCHANGED <<observed, flushesOverlap>>
(* The POST was taken: as many as were sent leave the front of the list.   *)
Flushed(i) ==
    /\ ingested' = ingested \cup Range(flushes[i])
    /\ unsent' = SubSeq(unsent, Len(flushes[i]) + 1, Len(unsent))
    /\ flushes' = RemoveAt(flushes, i) /\ UNCHANGED <<observed, flushesOverlap>>

(* The POST failed, or its answer was lost: the observations stay.         *)
FlushFailed(i) ==
    /\ ingested' \in {ingested, ingested \cup Range(flushes[i])}
    /\ flushes' = RemoveAt(flushes, i)
    /\ UNCHANGED <<unsent, observed, flushesOverlap>>

ForwarderNext ==
    \/ Observe \/ Flush
    \/ \E i \in DOMAIN flushes : Flushed(i) \/ FlushFailed(i)

ForwarderSpec == ForwarderInit /\ [][ForwarderNext]_forwarderVars

-----------------------------------------------------------------------------
(* An observation is dropped only once Studio has it, however many arrive  *)
(* while a POST is under way, unless two flushes overlapped.               *)
NoObservationLost ==
    ~flushesOverlap => \A n \in 1..observed : n \in ingested \cup Range(unsent)
=============================================================================
