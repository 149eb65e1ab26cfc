------------------------------ MODULE MCStudio ------------------------------
(* The parts of the Studio backend besides ingest and recovery, for TLC: a *)
(* behaviour exercises one of them, for they meet only in the database.    *)
EXTENDS ServiceRegistry, ProviderAvailability, Notifications, Incidents, StudioAuth, LoadTesting, Backfill, Reliability, ReliabilityGoals, FailedTaskPages, TaskJoins, SearchPages, HealthStatus, TLC

CONSTANTS
    Components,         \* those to explore
    f1, f2, f3, g1, g2, c1

VARIABLE active     \* the component this behaviour is about

MCGroupOf == (f1 :> g1) @@ (f2 :> g1) @@ (f3 :> g2)
MCScopeOf == (g1 :> "a") @@ (g2 :> "b")
MCScanOrder == <<"services", "events", "health", "cards">>
NoRef == [corr |-> Nothing, parent |-> Nothing, child |-> Nothing, lineage |-> Nothing]

Init ==
    /\ active \in Components
    /\ RegistryInit /\ (active # "registry" => store = "postgres")
    /\ ProviderInit
    /\ MailInit /\ (active # "mail" => mailStore = "postgres" /\ ~mailSettings.wait)
    /\ IncidentsInit
    /\ AuthInit /\ (active # "auth" => authStore = "postgres" /\ sessions = {})
    /\ LoadInit /\ (active # "load" => chamber = c1 /\ target.environment = "e1")
    /\ BackfillInit /\ (active # "backfill" => ~broken /\ \A k \in AllKinds : source[k] = {})
    /\ ReliabilityInit /\ (active # "alerts" => mailOn)
    /\ GoalsInit /\ (active # "goals" => goalKind = "plain" /\ threshold = 0)
    /\ PagesInit /\ (active # "pages" => \A s \in Upstreams : failures[s] = {})
    /\ JoinsInit /\ (active # "joins" => bare /\ joinMode = "none" /\ (\A s \in Peers : holds[s] = {}) /\ ref = NoRef)
    /\ SearchInit /\ (active # "search" => searchStore = "events" /\ \A d \in Documents : seenAt[d] = 0)
    /\ HealthInit

RegistryStep == active = "registry" /\ RegistryNext /\ UNCHANGED <<active, providerVars, mailVars, incidentVars, authVars, loadVars, backfillVars, reliabilityVars, goalVars, pageVars, joinVars, searchVars, healthVars>>
ProviderStep == active = "provider" /\ ProviderNext /\ UNCHANGED <<active, registryVars, mailVars, incidentVars, authVars, loadVars, backfillVars, reliabilityVars, goalVars, pageVars, joinVars, searchVars, healthVars>>
MailStep == active = "mail" /\ MailNext /\ UNCHANGED <<active, registryVars, providerVars, incidentVars, authVars, loadVars, backfillVars, reliabilityVars, goalVars, pageVars, joinVars, searchVars, healthVars>>
IncidentsStep == active = "incidents" /\ IncidentsNext /\ UNCHANGED <<active, registryVars, providerVars, mailVars, authVars, loadVars, backfillVars, reliabilityVars, goalVars, pageVars, joinVars, searchVars, healthVars>>
AuthStep == active = "auth" /\ AuthNext /\ UNCHANGED <<active, registryVars, providerVars, mailVars, incidentVars, loadVars, backfillVars, reliabilityVars, goalVars, pageVars, joinVars, searchVars, healthVars>>
LoadStep == active = "load" /\ LoadNext /\ UNCHANGED <<active, registryVars, providerVars, mailVars, incidentVars, authVars, backfillVars, reliabilityVars, goalVars, pageVars, joinVars, searchVars, healthVars>>
BackfillStep == active = "backfill" /\ BackfillNext /\ UNCHANGED <<active, registryVars, providerVars, mailVars, incidentVars, authVars, loadVars, reliabilityVars, goalVars, pageVars, joinVars, searchVars, healthVars>>
ReliabilityStep == active = "alerts" /\ ReliabilityNext /\ UNCHANGED <<active, registryVars, providerVars, mailVars, incidentVars, authVars, loadVars, backfillVars, goalVars, pageVars, joinVars, searchVars, healthVars>>
GoalsStep == active = "goals" /\ GoalsNext /\ UNCHANGED <<active, registryVars, providerVars, mailVars, incidentVars, authVars, loadVars, backfillVars, reliabilityVars, pageVars, joinVars, searchVars, healthVars>>
PagesStep == active = "pages" /\ PagesNext /\ UNCHANGED <<active, registryVars, providerVars, mailVars, incidentVars, authVars, loadVars, backfillVars, reliabilityVars, goalVars, joinVars, searchVars, healthVars>>
JoinsStep == active = "joins" /\ JoinsNext /\ UNCHANGED <<active, registryVars, providerVars, mailVars, incidentVars, authVars, loadVars, backfillVars, reliabilityVars, goalVars, pageVars, searchVars, healthVars>>
SearchStep == active = "search" /\ SearchNext /\ UNCHANGED <<active, registryVars, providerVars, mailVars, incidentVars, authVars, loadVars, backfillVars, reliabilityVars, goalVars, pageVars, joinVars, healthVars>>
HealthStep == active = "health" /\ HealthNext /\ UNCHANGED <<active, registryVars, providerVars, mailVars, incidentVars, authVars, loadVars, backfillVars, reliabilityVars, goalVars, pageVars, joinVars, searchVars>>

Next ==
    \/ RegistryStep \/ ProviderStep \/ MailStep \/ IncidentsStep
    \/ AuthStep \/ LoadStep \/ BackfillStep \/ ReliabilityStep \/ GoalsStep \/ PagesStep \/ JoinsStep \/ SearchStep \/ HealthStep

vars == <<active, registryVars, providerVars, mailVars, incidentVars, authVars, loadVars, backfillVars, reliabilityVars, goalVars, pageVars, joinVars, searchVars, healthVars>>
Spec == Init /\ [][Next]_vars
=============================================================================
