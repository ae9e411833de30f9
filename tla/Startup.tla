------------------------------ MODULE Startup -------------------------------
(***************************************************************************)
(* The life of the process around the delivery of events: the operator's   *)
(* settings are read and validated, a one-time token is traded for the     *)
(* credential of the control plane, the database is opened, the state is   *)
(* built (which validates again), hydrated, and served until the process   *)
(* ends.  A step that fails ends the process; somebody starts it again,    *)
(* perhaps with other settings.  Of a setting only whether it is there     *)
(* matters; of the timeout and the capacity, whether it is in its range.   *)
(***************************************************************************)
EXTENDS TelemetryDelivery

CONSTANTS
    Settings     \* what an operator may set

ControlPlaneConfig ==
    [enrollment_enabled : BOOLEAN, enrollment_url : BOOLEAN, enrollment_token : BOOLEAN,
     telemetry_enabled : BOOLEAN, ingestion_url : BOOLEAN, api_key : BOOLEAN,
     firewall_instance_id : BOOLEAN,
     request_timeout_ms : BOOLEAN, queue_capacity : BOOLEAN]

ASSUME StartupAssumption == Settings \subseteq ControlPlaneConfig

VARIABLES
    settings,    \* file and environment, the operator's
    config,      \* the process's copy
    phase,       \* what main has done
    spent,       \* the control plane has taken the token of the settings
    enrolled,    \* history: this start's enrollment succeeded
    refused,     \* history: why the last start ended before serving
    served       \* history: these settings have served

process   == <<config, phase, enrolled>>
startVars == <<vars, settings, process, spent, refused, served>>

(* A process that does not run has no configuration.                       *)
NoConfig == [f \in {"enrollment_enabled", "enrollment_url", "enrollment_token", "telemetry_enabled",
                    "ingestion_url", "api_key", "firewall_instance_id",
                    "request_timeout_ms", "queue_capacity"} |-> FALSE]

(* What the other sections of a configuration must satisfy is left out.    *)
validate(c) ==
    /\ c.enrollment_enabled => c.enrollment_url /\ c.enrollment_token
    /\ c.telemetry_enabled =>
         /\ c.ingestion_url
         /\ c.enrollment_enabled \/ (c.api_key /\ c.firewall_instance_id)
    /\ c.request_timeout_ms /\ c.queue_capacity

StartInit ==
    /\ Init
    /\ settings \in Settings /\ config = NoConfig
    /\ phase = "down"
    /\ spent = FALSE /\ enrolled = FALSE /\ refused = "no" /\ served = FALSE
-----------------------------------------------------------------------------
(* Only a process that does not run is given other settings; their token   *)
(* may be a new one or one already taken.                                  *)
Configure ==
    /\ phase = "down"
    /\ settings' \in Settings
    /\ spent' \in {FALSE, settings'.enrollment_token}
    /\ refused' = "no" /\ served' = FALSE
    /\ UNCHANGED <<vars, process>>

Proceed(to) == phase' = to /\ UNCHANGED <<vars, settings, refused, served>>

End(why) ==
    /\ phase' = "down" /\ config' = NoConfig /\ refused' = why
    /\ UNCHANGED <<vars, settings, enrolled, served>>

Load ==
    /\ phase = "down"
    /\ enrolled' = FALSE
    /\ IF validate(settings)
       THEN phase' = "loaded" /\ config' = settings /\ refused' = "no"
       ELSE refused' = "settings" /\ UNCHANGED <<phase, config>>
    /\ UNCHANGED <<vars, settings, spent, served>>

SkipEnrollment ==
    /\ phase = "loaded" /\ ~config.enrollment_enabled
    /\ Proceed("enrolled")
    /\ UNCHANGED <<config, spent, enrolled>>

MutEnroll ==    \* mutant: what enrollment did is not to be done again, in memory
    /\ phase = "loaded" /\ config.enrollment_enabled
    /\ ~spent /\ spent' = TRUE
    /\ config' = [config EXCEPT !.telemetry_enabled = TRUE, !.firewall_instance_id = TRUE,
                                !.api_key = TRUE, !.enrollment_token = FALSE,
                                !.enrollment_enabled = FALSE]
    /\ enrolled' = TRUE
    /\ Proceed("enrolled")

(* The control plane takes the token and its answer arrives complete.      *)
Enroll ==
    /\ phase = "loaded" /\ config.enrollment_enabled
    /\ ~spent /\ spent' = TRUE
    /\ config' = [config EXCEPT !.telemetry_enabled = TRUE, !.firewall_instance_id = TRUE,
                                !.api_key = TRUE, !.enrollment_token = FALSE]
    /\ enrolled' = TRUE
    /\ Proceed("enrolled")

(* The control plane turns the token down, or the request, the answer or   *)
(* its content fails: the token may have been taken all the same.          *)
EnrollFails ==
    /\ phase = "loaded" /\ config.enrollment_enabled
    /\ spent' \in {spent, TRUE}
    /\ End(IF spent THEN "token" ELSE "failure")

Store == phase = "enrolled" /\ Proceed("stored") /\ UNCHANGED <<config, spent, enrolled>>

MutBuild ==    \* mutant: the enrolled configuration is not validated again
    phase = "stored" /\ Proceed("built") /\ UNCHANGED <<config, spent, enrolled>>

Build ==
    /\ phase = "stored" /\ UNCHANGED spent
    /\ \/ validate(config) /\ Proceed("built") /\ UNCHANGED <<config, enrolled>>
       \/ ~validate(config) /\ End("settings")

Hydrate == phase = "built" /\ Proceed("hydrated") /\ UNCHANGED <<config, spent, enrolled>>

Bind ==
    /\ phase = "hydrated"
    /\ phase' = "serving" /\ served' = TRUE
    /\ UNCHANGED <<vars, settings, config, spent, enrolled, refused>>

(* The database, an address or a listener fails, or the process is ended.  *)
StartFails ==
    /\ phase \notin {"down", "serving"}
    /\ End("failure") /\ UNCHANGED spent

(* A process that serves ends, and its queue and counters with it.         *)
Crash ==
    /\ phase = "serving" /\ Restart
    /\ phase' = "down" /\ config' = NoConfig
    /\ UNCHANGED <<settings, spent, enrolled, refused, served>>

(* Requests queue events, and the worker sends them, in a process that     *)
(* serves with telemetry on; otherwise enqueue returns at once.            *)
Deliver(step) ==
    /\ phase = "serving" /\ config.telemetry_enabled
    /\ step
    /\ UNCHANGED <<settings, process, spent, refused, served>>

DeliveryStep == Deliver(WorkerStep)

StartNext ==
    \/ Configure \/ Load \/ SkipEnrollment \/ Enroll \/ EnrollFails
    \/ Store \/ Build \/ Hydrate \/ Bind \/ StartFails \/ Crash
    \/ \E e \in Events : Deliver(Enqueue(e)) \/ Deliver(CountDrop(e))
    \/ DeliveryStep

(* As in TelemetryDelivery, the worker runs while the process does; nobody *)
(* has to start it again.                                                  *)
StartSpec == StartInit /\ [][StartNext]_startVars /\ WF_startVars(DeliveryStep)
-----------------------------------------------------------------------------
(* Whoever serves with telemetry on has an address to post to, a key and   *)
(* an id, whichever of the two ways switched it on: enrollment switches it *)
(* on after the settings were validated with it off.                       *)
ServesAsConfigured ==
    phase = "serving" /\ config.telemetry_enabled =>
        config.ingestion_url /\ config.api_key /\ config.firewall_instance_id

(* Settings that have served can be started again as they are: no later    *)
(* start under them is refused for what they say or for a token spent.     *)
ServedSettingsStand == served => refused \notin {"settings", "token"}

(* Enrollment gives what telemetry needs but the address to post to: a     *)
(* start that has enrolled under settings with that address is not refused *)
(* for its settings.                                                       *)
EnrollmentSuffices == enrolled /\ settings.ingestion_url => refused # "settings"
=============================================================================
