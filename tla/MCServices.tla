------------------------------ MODULE MCServices ------------------------------
(***************************************************************************)
(* The modules that model one service each, run side by side: they share   *)
(* no state, so a behaviour is one of one module, and the states add up.   *)
(***************************************************************************)
EXTENDS SecretChain, EntityVerification, Provisioning, SiteEvents, DisputeReview,
        PromptMatrix, BenchmarkConsent, Comms, CalendarTicks, BrandIdentity

CONSTANT Scopes   \* the services that are run

VARIABLE scope    \* the one of this behaviour

CONSTANTS
  i1, i2,        \* the two clients, handlers, signups, site events, operators, commands,
                 \* mailers, editors
  j1, j2,        \* the two addresses, sweepers, pages
  d1, r1,        \* a dispute, a request that contributes
  pa, pb,        \* prompts
  m1, m2, m3,    \* models
  b1, b2         \* brands

TwoLegs == <<"keyring", "age">>
TwoProviders == (m1 :> "openai") @@ (m2 :> "openrouter") @@ (m3 :> "openrouter")

\* A service that is not run keeps the one state chosen here.
ServicesInit ==
  /\ scope \in Scopes
  /\ scope # "matrix" => source = "cli" /\ database = TRUE /\ registered = {} /\ asked = MatrixCells
  /\ scope # "consent" => claim = "absent"
  /\ scope # "calendar" => /\ calendar = [at |-> 0, on |-> [rule |-> "every", n |-> 1]]
                           /\ clocks = [forward |-> 0, back |-> 1] /\ lastTick = 0
  /\ SecretInit /\ EntityInit /\ ProvisioningInit /\ SiteInit
  /\ DisputeInit /\ MatrixInit /\ ConsentInit /\ CommsInit
  /\ CalendarInit /\ BrandInit
  /\ scope # "comms" => ~subscription.exists
  /\ scope # "brands" => \A p \in prompts : p.name = pa

ServicesNext ==
  /\ UNCHANGED scope
  /\ \/ /\ scope = "secrets" /\ SecretNext
        /\ UNCHANGED <<entityVars, provisioningVars, siteVars, disputeVars, matrixVars, consentVars, commsVars, calendarVars, brandVars>>
     \/ /\ scope = "verification" /\ EntityNext
        /\ UNCHANGED <<secretVars, provisioningVars, siteVars, disputeVars, matrixVars, consentVars, commsVars, calendarVars, brandVars>>
     \/ /\ scope = "provisioning" /\ ProvisioningNext
        /\ UNCHANGED <<secretVars, entityVars, siteVars, disputeVars, matrixVars, consentVars, commsVars, calendarVars, brandVars>>
     \/ /\ scope = "site" /\ SiteNext
        /\ UNCHANGED <<secretVars, entityVars, provisioningVars, disputeVars, matrixVars, consentVars, commsVars, calendarVars, brandVars>>
     \/ /\ scope = "disputes" /\ DisputeNext
        /\ UNCHANGED <<secretVars, entityVars, provisioningVars, siteVars, matrixVars, consentVars, commsVars, calendarVars, brandVars>>
     \/ /\ scope = "matrix" /\ MatrixNext
        /\ UNCHANGED <<secretVars, entityVars, provisioningVars, siteVars, disputeVars, consentVars, commsVars, calendarVars, brandVars>>
     \/ /\ scope = "consent" /\ ConsentNext
        /\ UNCHANGED <<secretVars, entityVars, provisioningVars, siteVars, disputeVars, matrixVars, commsVars, calendarVars, brandVars>>
     \/ /\ scope = "comms" /\ CommsNext
        /\ UNCHANGED <<secretVars, entityVars, provisioningVars, siteVars, disputeVars, matrixVars, consentVars, calendarVars, brandVars>>
     \/ /\ scope = "calendar" /\ CalendarNext
        /\ UNCHANGED <<secretVars, entityVars, provisioningVars, siteVars, disputeVars, matrixVars, consentVars, commsVars, brandVars>>
     \/ /\ scope = "brands" /\ BrandNext
        /\ UNCHANGED <<secretVars, entityVars, provisioningVars, siteVars, disputeVars, matrixVars, consentVars, commsVars, calendarVars>>

ServicesSpec == ServicesInit /\ [][ServicesNext]_<<scope, secretVars, entityVars, provisioningVars,
                  siteVars, disputeVars, matrixVars, consentVars, commsVars, calendarVars, brandVars>>

Alike == Permutations({i1, i2}) \cup Permutations({j1, j2})
===============================================================================
