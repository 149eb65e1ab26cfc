----------------------------- MODULE MCRuntime ------------------------------
(* Parts of the service runtime that do not meet, for TLC: a behaviour     *)
(* exercises one of them.                                                  *)
EXTENDS StatusHub, DLQRecords, Aggregation, ObservationForwarder, ExecutionGraph, Lifespan, Backpressure, TLC

CONSTANTS
    Components,         \* those to explore
    h1, h2, b1, b2

VARIABLE active     \* the component this behaviour is about

TwoHubs == (h1 :> b1) @@ (h2 :> b2)
MCShardOf == ("a" :> 0) @@ ("b" :> 1)
MCStudioWorkers == <<"pull", "health", "retention", "email", "relay">>
MCCollectors == <<"dlq", "queues", "workers", "queues">>
MCQueueNames == <<<<>>, <<"qa", "qb">>, <<>>, <<"qa">>>>

Init ==
    /\ active \in Components
    /\ HubInit
    /\ DlqInit
    /\ AggregationInit /\ (active # "aggregation" => retryPolicyGiven)
    /\ ForwarderInit
    /\ GraphInit /\ (active # "graph" => workflow)
    /\ LifespanInit /\ (active # "lifespan" => host = "service")
    /\ PressureInit

HubStep == active = "hub" /\ HubNext /\ UNCHANGED <<active, dlqVars, aggregationVars, forwarderVars, graphVars, lifespanVars, pressureVars>>
DlqStep == active = "dlq" /\ DlqNext /\ UNCHANGED <<active, hubVars, aggregationVars, forwarderVars, graphVars, lifespanVars, pressureVars>>
AggregationStep == active = "aggregation" /\ AggregationNext /\ UNCHANGED <<active, hubVars, dlqVars, forwarderVars, graphVars, lifespanVars, pressureVars>>
ForwarderStep == active = "forwarder" /\ ForwarderNext /\ UNCHANGED <<active, hubVars, dlqVars, aggregationVars, graphVars, lifespanVars, pressureVars>>
GraphStep == active = "graph" /\ GraphNext /\ UNCHANGED <<active, hubVars, dlqVars, aggregationVars, forwarderVars, lifespanVars, pressureVars>>
LifespanStep == active = "lifespan" /\ LifespanNext /\ UNCHANGED <<active, hubVars, dlqVars, aggregationVars, forwarderVars, graphVars, pressureVars>>
PressureStep == active = "pressure" /\ PressureNext /\ UNCHANGED <<active, hubVars, dlqVars, aggregationVars, forwarderVars, graphVars, lifespanVars>>

Next ==
    \/ HubStep \/ DlqStep \/ AggregationStep \/ ForwarderStep
    \/ GraphStep \/ LifespanStep \/ PressureStep

vars == <<active, hubVars, dlqVars, aggregationVars, forwarderVars, graphVars, lifespanVars, pressureVars>>
Spec == Init /\ [][Next]_vars
=============================================================================
