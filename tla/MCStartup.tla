----------------------------- MODULE MCStartup ------------------------------
EXTENDS Startup

Given(there) == [f \in DOMAIN NoConfig |-> f \in there]

InRange   == {"request_timeout_ms", "queue_capacity"}
Enrolling == {"enrollment_enabled", "enrollment_url", "enrollment_token"} \cup InRange
Manual    == {"telemetry_enabled", "ingestion_url", "api_key", "firewall_instance_id"} \cup InRange

MCSettings ==
    {Given(Manual), Given(Manual \ {"api_key"}), Given(Manual \ {"queue_capacity"}),
     Given(Enrolling), Given(Enrolling \cup {"ingestion_url"})}
MCEnrolling == {Given(Enrolling \cup {"ingestion_url"})}
=============================================================================
