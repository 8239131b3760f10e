---------------------------- MODULE CfxIdentity ----------------------------
(***************************************************************************)
(* How the gateway gets and keeps its CFX identity (baston-gateway cfx.rs, *)
(* the licence decisions of baston-core, the policy client, and the start  *)
(* and the end of baston-gateway.rs): a private broker authenticates, the  *)
(* policy caps the slots, the listeners open, a public broker takes over,  *)
(* and the gateway lives as long as the broker it owns.  What happens      *)
(* inside a broker is CfxSidecar's.                                        *)
(***************************************************************************)
EXTENDS Naturals, FiniteSets

CONSTANTS Slots,        \* server.max_players as configured
          PolicyLists   \* answers of the policy endpoint: sets of policy names

ASSUME SlotsAssumption == Slots \subseteq Nat

BASE_MAX_SLOTS == 48

Brokers == {"private", "public"}
NoBroker == "none"

VARIABLES
    mode, listing,      \* license.mode; "off", "on" or "incomplete" (no listing_ip_override)
    configured,         \* server.max_players of the file
    stage,              \* of main: see the actions
    max_players, entitled, \* the enforced cap; what the identity is entitled to
    process,            \* per broker, its FXServer: "none", "up", "dead"
    verdict,            \* what the component of that broker says of the key
    worker,             \* per broker, the blocking start_and_authenticate
    stopped,            \* per broker: its start was cancelled
    sidecar, token,     \* of CfxRuntime: the broker it owns, the broker its token is from
    failure_rx,         \* the broker whose monitor it listens to
    monitor,            \* per broker: "none", "watching", "reported", "ended"
    advertised,         \* sv_maxclients of the public broker, once started
    http, license_token,
    why, crashed        \* why main returned; brokers that died by themselves

identVars == <<mode, listing, configured, stage, max_players, entitled, process, verdict, worker, stopped,
               sidecar, token, failure_rx, monitor, advertised, http, license_token, why, crashed>>
setting == <<mode, listing, configured>>
slots == <<max_players, entitled, advertised>>
serving == <<http, license_token>>
runtime == <<sidecar, token, failure_rx>>

IdentInit ==
    /\ mode \in {"off", "gate", "verified"} /\ listing \in {"off", "on", "incomplete"}
    /\ stage = "boot" /\ configured \in Slots /\ max_players = configured /\ entitled = 0
    /\ process = [b \in Brokers |-> "none"] /\ verdict \in [Brokers -> {"valid", "invalid", "banned", "tokenless"}]
    /\ worker = [b \in Brokers |-> "none"] /\ stopped = [b \in Brokers |-> FALSE]
    /\ sidecar = NoBroker /\ token = NoBroker /\ failure_rx = NoBroker
    /\ monitor = [b \in Brokers |-> "none"]
    /\ advertised = 0 /\ http = "closed" /\ license_token = NoBroker /\ why = "" /\ crashed = {}

\* main returns: the runtime and every handle it still holds are dropped, and a
\* worker that nobody waits for is told to stop (CancelOnDrop).
Exit(reason) ==
    /\ stage' = "exited" /\ why' = reason
    /\ process' = [b \in Brokers |-> IF b = sidecar /\ process[b] = "up" THEN "dead" ELSE process[b]]
    /\ sidecar' = NoBroker /\ failure_rx' = NoBroker
    /\ stopped' = [b \in Brokers |-> worker[b] \in {"starting", "asking"} \/ stopped[b]]

----------------------------------------------------------------------------
(* start_and_authenticate on a blocking thread.                             *)

Start(b) ==
    /\ worker' = [worker EXCEPT ![b] = "starting"]
    /\ process' = [process EXCEPT ![b] = "up"]

\* The worker gives up for any of CfxSidecar's reasons; its handle kills the
\* process.
WorkerFails(b) ==
    /\ worker[b] \in {"starting", "asking"}
    /\ worker' = [worker EXCEPT ![b] = "failed"]
    /\ process' = [process EXCEPT ![b] = "dead"]
    /\ UNCHANGED <<setting, stage, slots, verdict, stopped, runtime, monitor, serving, why, crashed>>

WorkerReady(b) ==
    /\ worker[b] = "starting" /\ ~stopped[b] /\ process[b] = "up"
    /\ worker' = [worker EXCEPT ![b] = "asking"]
    /\ UNCHANGED <<setting, stage, slots, process, verdict, stopped, runtime, monitor, serving, why, crashed>>

\* The query settles with the component's verdict.  When main has gone, the
\* result is dropped with the join handle, and the process with it.
WorkerAnswers(b) ==
    /\ worker[b] = "asking" /\ ~stopped[b] /\ process[b] = "up"
    /\ worker' = [worker EXCEPT ![b] = "answered"]
    /\ UNCHANGED <<setting, stage, slots, process, verdict, stopped, runtime, monitor, serving, why, crashed>>

\* Slip: the process outlives the result nobody took.
ResultLeaks(b) ==
    /\ stage = "exited" /\ worker[b] = "answered"
    /\ worker' = [worker EXCEPT ![b] = "failed"]
    /\ UNCHANGED <<setting, stage, slots, process, verdict, stopped, runtime, monitor, serving, why, crashed>>

ResultDropped(b) ==
    /\ stage = "exited" /\ worker[b] = "answered"
    /\ worker' = [worker EXCEPT ![b] = "failed"]
    /\ process' = [process EXCEPT ![b] = "dead"]
    /\ UNCHANGED <<setting, stage, slots, verdict, stopped, runtime, monitor, serving, why, crashed>>

\* Slip: a licence that is not banned is enough.
BootUnlessBanned(v) == v # "banned"

\* boot_decision and authenticated_token.
boot_decision(v) == v = "valid"

----------------------------------------------------------------------------
(* bootstrap.                                                               *)

\* Modes "off" and "gate" run without an identity.
Bootstrap ==
    /\ stage = "boot"
    /\ IF mode = "verified"
       THEN stage' = "authenticating" /\ Start("private")
       ELSE stage' = "opening" /\ UNCHANGED <<worker, process>>
    /\ UNCHANGED <<setting, slots, verdict, stopped, runtime, monitor, serving, why, crashed>>

\* Slip: the handle is taken while the query still runs.
AuthenticatedEarly ==
    /\ stage = "authenticating" /\ worker["private"] = "asking" /\ boot_decision(verdict["private"])
    /\ stage' = "policy" /\ sidecar' = "private" /\ token' = "private"
    /\ UNCHANGED <<setting, slots, process, verdict, worker, stopped, failure_rx, monitor, serving, why, crashed>>

Authenticated ==
    /\ stage = "authenticating" /\ worker["private"] = "answered" /\ boot_decision(verdict["private"])
    /\ stage' = "policy" /\ sidecar' = "private" /\ token' = "private"
    /\ UNCHANGED <<setting, slots, process, verdict, worker, stopped, failure_rx, monitor, serving, why, crashed>>

Denied ==
    /\ stage = "authenticating"
    /\ \/ worker["private"] = "failed" /\ UNCHANGED worker
       \/ /\ worker["private"] = "answered" /\ ~boot_decision(verdict["private"])
          /\ worker' = [worker EXCEPT !["private"] = "failed"]
    /\ stage' = "exited" /\ why' = "denied"
    /\ process' = [process EXCEPT !["private"] = "dead"]
    /\ UNCHANGED <<setting, slots, verdict, stopped, runtime, monitor, serving, crashed>>

\* Slip: the entitlement replaces the configured value.
CapToGrant(wanted, limit) == limit

\* effective_max_players.
effective_max_players(wanted, limit) == IF wanted > limit THEN limit ELSE wanted

entitlements_from_policies(policies) ==
    CASE "onesync_big" \in policies -> 2048
      [] policies \cap {"onesync_plus", "onesync_medium"} # {} -> 128
      [] "onesync" \in policies -> 64
      [] OTHER -> BASE_MAX_SLOTS

apply_slot_policy(limit) == max_players' = effective_max_players(max_players, limit)

\* PolicyClient::resolve: a lookup that fails is an empty list; then the slots
\* are capped and the monitor starts.
Resolve(policies) ==
    /\ stage = "policy"
    /\ entitled' = entitlements_from_policies(policies) /\ apply_slot_policy(entitled')
    /\ stage' = "opening" /\ failure_rx' = "private"
    /\ monitor' = [monitor EXCEPT !["private"] = "watching"]
    /\ UNCHANGED <<setting, advertised, process, verdict, worker, stopped, sidecar, token, serving, why, crashed>>

----------------------------------------------------------------------------
(* main after bootstrap.                                                    *)

\* Every listener is bound and served, with the token known so far.
OpenListeners ==
    /\ stage = "opening"
    /\ http' = "open" /\ license_token' = token
    /\ stage' = IF token = NoBroker THEN "running" ELSE "activating"
    /\ UNCHANGED <<setting, slots, process, verdict, worker, stopped, runtime, monitor, why, crashed>>

\* public_listing: what the second broker will advertise.
public_listing == max_players

\* activate_public_listing: nothing to do, impossible, or a second broker.
Activate ==
    /\ stage = "activating" /\ worker["public"] = "none"
    /\ \/ /\ listing = "off" /\ stage' = "running" /\ license_token' = token
          /\ UNCHANGED <<process, worker, advertised, stopped, sidecar, failure_rx, http, why>>
       \/ /\ listing = "incomplete" /\ Exit("denied") /\ http' = "closed"
          /\ UNCHANGED <<worker, advertised, license_token>>
       \/ /\ listing = "on" /\ Start("public") /\ advertised' = public_listing
          /\ UNCHANGED <<stage, stopped, sidecar, failure_rx, http, license_token, why>>
    /\ UNCHANGED <<setting, max_players, entitled, verdict, token, monitor, crashed>>

\* Slip: the runtime keeps listening to the first broker's monitor.
SwapSilently ==
    /\ sidecar' = "public" /\ token' = "public" /\ UNCHANGED failure_rx
    /\ monitor' = [monitor EXCEPT !["public"] = "watching"]
    /\ process' = [process EXCEPT !["private"] = "dead"]

\* Slip: the first broker is kept.
SwapKeeps ==
    /\ sidecar' = "public" /\ token' = "public" /\ failure_rx' = "public"
    /\ monitor' = [monitor EXCEPT !["public"] = "watching"]
    /\ UNCHANGED process

\* The public broker replaces the private one, whose process dies with its
\* last handle.
Swap ==
    /\ sidecar' = "public" /\ token' = "public" /\ failure_rx' = "public"
    /\ monitor' = [monitor EXCEPT !["public"] = "watching"]
    /\ process' = [process EXCEPT !["private"] = "dead"]

Activated ==
    /\ stage = "activating" /\ worker["public"] = "answered" /\ boot_decision(verdict["public"])
    /\ Swap
    /\ stage' = "running" /\ license_token' = "public"
    /\ UNCHANGED <<setting, slots, verdict, worker, stopped, http, why, crashed>>

\* The select also ends when the private broker's monitor reports, or when the
\* HTTP server stops.
NotActivated ==
    /\ stage = "activating"
    /\ \/ worker["public"] = "failed" /\ Exit("denied") /\ UNCHANGED worker
       \/ /\ worker["public"] = "answered" /\ ~boot_decision(verdict["public"]) /\ Exit("denied")
          /\ UNCHANGED worker
       \/ /\ worker["public"] # "none" /\ monitor[failure_rx] \in {"reported", "ended"}
          /\ Exit("broker") /\ UNCHANGED worker
    /\ http' = "closed"
    /\ UNCHANGED <<setting, slots, verdict, token, monitor, license_token, crashed>>

HttpStops ==
    /\ stage \in {"activating", "running"} /\ Exit("http") /\ http' = "closed"
    /\ UNCHANGED <<setting, slots, verdict, worker, token, monitor, license_token, crashed>>

\* wait_for_failure: a report, or a monitor that is gone.
BrokerStopped ==
    /\ stage = "running" /\ failure_rx # NoBroker /\ monitor[failure_rx] \in {"reported", "ended"}
    /\ Exit("broker") /\ http' = "closed"
    /\ UNCHANGED <<setting, slots, verdict, worker, token, monitor, license_token, crashed>>

----------------------------------------------------------------------------
(* spawn_broker_monitor's task, and brokers that die by themselves.         *)

\* Slip: a dead process is not noticed.
MonitorHolders(b) ==
    /\ monitor[b] = "watching" /\ sidecar # b /\ monitor' = [monitor EXCEPT ![b] = "ended"]
    /\ UNCHANGED <<setting, stage, slots, process, verdict, worker, stopped, runtime, serving, why, crashed>>

\* Nobody holds the broker any more: upgrade fails and the sender is dropped.
MonitorTick(b) ==
    /\ monitor[b] = "watching"
    /\ \/ sidecar # b /\ monitor' = [monitor EXCEPT ![b] = "ended"]
       \/ sidecar = b /\ process[b] = "dead" /\ monitor' = [monitor EXCEPT ![b] = "reported"]
    /\ UNCHANGED <<setting, stage, slots, process, verdict, worker, stopped, runtime, serving, why, crashed>>

BrokerDies(b) ==
    /\ process[b] = "up" /\ stage # "exited"
    /\ process' = [process EXCEPT ![b] = "dead"] /\ crashed' = crashed \cup {b}
    /\ UNCHANGED <<setting, stage, slots, verdict, worker, stopped, runtime, monitor, serving, why>>

Main ==
    \/ Bootstrap \/ Authenticated \/ Denied \/ OpenListeners \/ Activate \/ Activated
    \/ NotActivated \/ BrokerStopped
    \/ \E policies \in PolicyLists \cup {{}} : Resolve(policies)

Background(b) ==
    WorkerFails(b) \/ WorkerReady(b) \/ WorkerAnswers(b) \/ ResultDropped(b) \/ MonitorTick(b)

IdentNext == Main \/ HttpStops \/ \E b \in Brokers : Background(b) \/ BrokerDies(b)

\* A booted gateway goes on, and so do the threads it started.
IdentFairness ==
    /\ WF_identVars(stage # "boot" /\ Main)
    /\ \A b \in Brokers : WF_identVars(Background(b))

IdentSpec == IdentInit /\ [][IdentNext]_identVars /\ IdentFairness

----------------------------------------------------------------------------
\* The states are those of their types; the runtime owns, and a monitor watches,
\* only a broker whose start has ended.
IdentTypeOK ==
    /\ stage \in {"boot", "authenticating", "policy", "opening", "activating", "running", "exited"}
    /\ sidecar \in Brokers \cup {NoBroker} /\ failure_rx \in Brokers \cup {NoBroker}
    /\ sidecar # NoBroker => worker[sidecar] = "answered"
    /\ \A b \in Brokers : monitor[b] # "none" => process[b] # "none" /\ worker[b] \in {"answered", "failed"}

\* In verified mode nothing is served before an explicitly valid verdict, and
\* the token handed to clients comes from a broker that gave one ("Fail-closed:
\* anything other than an explicitly valid, non-banned licence denies startup").
ServesAuthenticated ==
    http = "open" /\ mode = "verified" => license_token # NoBroker /\ verdict[license_token] = "valid"

\* The enforced cap never exceeds the configured one or the granted one, and
\* the public list is told the enforced one ("the first advertised heartbeat
\* cannot overstate the server's authenticated capacity").
SlotsWithinBoth ==
    /\ max_players <= configured
    /\ http = "open" /\ mode = "verified" => max_players <= entitled
    /\ advertised \in {0, max_players}

\* A running gateway watches the broker it owns and keeps no other alive.
OneBroker ==
    stage = "running" /\ sidecar # NoBroker =>
        /\ token = sidecar /\ license_token = sidecar
        /\ \A b \in Brokers \ {sidecar} : process[b] # "up"

\* The gateway shuts down for a broker only when a broker died by itself: the
\* swap is not taken for a failure.
ShutdownEarned == why = "broker" => crashed # {}

\* The gateway serves under an identity it has: authenticated where the licence
\* mode asks for it, within the slots granted and configured, under one broker
\* at a time, and it stops only for cause.
IdentityHonest ==
    /\ IdentTypeOK /\ ServesAuthenticated /\ SlotsWithinBoth
    /\ OneBroker /\ ShutdownEarned

\* The death of the owned broker shuts the gateway down.
BrokerFailureStops == []<>(stage = "running" /\ sidecar # NoBroker => process[sidecar] # "dead")

\* No FXServer outlives the gateway, wherever its start was interrupted.
NoOrphanBroker == []<>(stage = "exited" => \A b \in Brokers : process[b] # "up")
\* The gateway and its broker end together: the failure of the broker in charge
\* stops the gateway, and no broker outlives the start that spawned it.
BrokersEnd ==
    /\ BrokerFailureStops /\ NoOrphanBroker
=============================================================================
