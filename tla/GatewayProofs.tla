--------------------------- MODULE GatewayProofs ----------------------------
(****************************************************************************)
(* Proofs about what stands between a client and the game: the identity main*)
(* boots with, the channel to the sidecar that holds the server's license,  *)
(* entitlement tickets, and the sessions of players from the connect        *)
(* request to the drop; each for any clients, peers, slots and answers.     *)
(****************************************************************************)
EXTENDS Session, CfxIdentity, CfxSidecar, Tickets, TLAPS

\* A step goes to Zenon unless it names another prover.
USE ZenonT(60)

-----------------------------------------------------------------------------
(* The identity. *)

\* The states of a broker, its process, its worker and its monitor.
BrokerOrNone == Brokers \cup {NoBroker}
\* The states of a process.
Processes == {"none", "up", "dead"}
\* The states of a worker.
Workers == {"none", "starting", "asking", "answered", "failed"}
\* The states of a monitor.
Monitors == {"none", "watching", "reported", "ended"}

\* The states and the values of the variables.
IdentTyped ==
    /\ stage \in {"boot", "authenticating", "policy", "opening", "activating", "running", "exited"}
    /\ sidecar \in BrokerOrNone /\ token \in BrokerOrNone
    /\ failure_rx \in BrokerOrNone /\ license_token \in BrokerOrNone
    /\ process \in [Brokers -> Processes] /\ worker \in [Brokers -> Workers]
    /\ monitor \in [Brokers -> Monitors]
    /\ configured \in Nat /\ max_players \in Nat /\ entitled \in Nat

\* What each stage of main has behind it.
Booting == stage \in {"boot", "authenticating", "policy", "opening"}
\* What main has done, and holds, at each stage.
StageAgrees ==
    /\ Booting => http = "closed" /\ advertised = 0 /\ worker["public"] = "none"
    /\ stage = "boot" => worker["private"] = "none"
    /\ stage \in {"boot", "authenticating"} => sidecar = NoBroker /\ token = NoBroker /\ failure_rx = NoBroker
    /\ stage \in {"authenticating", "policy", "activating"} => mode = "verified"
    /\ stage = "policy" => sidecar = "private" /\ token = "private" /\ failure_rx = NoBroker
    /\ stage = "opening" => sidecar = token /\ failure_rx = token
    /\ stage = "opening" => token = IF mode = "verified" THEN "private" ELSE NoBroker
    /\ stage = "activating" =>
            sidecar = "private" /\ token = "private" /\ failure_rx = "private" /\ license_token = "private"
    /\ stage = "running" => sidecar = token /\ failure_rx = token /\ license_token = token
    /\ stage = "running" => (token = NoBroker <=> mode # "verified")
    /\ stage = "running" /\ token = "private" => worker["public"] = "none"
    /\ stage = "exited" => sidecar = NoBroker /\ http = "closed" /\ failure_rx = NoBroker

\* The cap is within the grant from the moment the policy is known.
CapAgrees ==
    /\ max_players <= configured
    /\ mode = "verified" /\ stage \in {"opening", "activating", "running"} => max_players <= entitled
    /\ advertised \in {0, max_players}

\* A broker has a process from its start on; one that is dead in the hands of
\* main or of a worker that answered died by itself, but for the private broker
\* that the public one replaced.
BrokersAgree ==
    /\ \A b \in Brokers : worker[b] = "none" <=> process[b] = "none"
    /\ \A b \in Brokers :
          worker[b] = "answered" /\ process[b] = "dead" /\ stage # "exited"
             /\ ~(b = "private" /\ sidecar = "public") => b \in crashed
    /\ sidecar = "public" => process["private"] # "up"
    /\ sidecar # NoBroker => worker[sidecar] = "answered"

\* Monitors and tokens are of brokers that authenticated.
MonitorsAgree ==
    /\ \A b \in Brokers : monitor[b] # "none" => worker[b] \in {"answered", "failed"}
    /\ \A b \in Brokers : monitor[b] = "reported" => b \in crashed
    /\ failure_rx # NoBroker => monitor[failure_rx] \in {"watching", "reported"}
    /\ token # NoBroker => verdict[token] = "valid"
    /\ license_token # NoBroker => verdict[license_token] = "valid"
    /\ why = "broker" => crashed # {}

\* The inductive invariant of the identity.
IdentInv == IdentTyped /\ StageAgrees /\ CapAgrees /\ BrokersAgree /\ MonitorsAgree

\* The inductive invariant implies the property.
LEMMA IdentHonest == IdentInv => IdentityHonest
<1> SUFFICES ASSUME IdentInv PROVE IdentityHonest
  OBVIOUS
<1> USE DEF IdentInv, IdentTyped, BrokerOrNone, Processes, Workers, Monitors, Booting
<1>1. IdentTypeOK
  BY SMTT(30) DEF IdentTypeOK, BrokersAgree, MonitorsAgree
<1>2. ServesAuthenticated
  BY SMTT(30) DEF ServesAuthenticated, StageAgrees, MonitorsAgree, NoBroker, Brokers
<1>3. SlotsWithinBoth
  BY SMTT(30) DEF SlotsWithinBoth, StageAgrees, CapAgrees
<1>4. OneBroker
  BY SMTT(30) DEF OneBroker, StageAgrees, BrokersAgree, NoBroker, Brokers
<1>5. ShutdownEarned
  BY SMTT(30) DEF ShutdownEarned, MonitorsAgree
<1> QED
  BY <1>1, <1>2, <1>3, <1>4, <1>5 DEF IdentityHonest

\* It holds when main starts.
LEMMA IdentStart == IdentInit => IdentInv
<1> SUFFICES ASSUME IdentInit PROVE IdentInv
  OBVIOUS
<1>0. /\ stage = "boot" /\ configured \in Nat /\ max_players = configured /\ entitled = 0
      /\ process = [b \in Brokers |-> "none"] /\ worker = [b \in Brokers |-> "none"]
      /\ monitor = [b \in Brokers |-> "none"]
      /\ sidecar = NoBroker /\ token = NoBroker /\ failure_rx = NoBroker
      /\ advertised = 0 /\ http = "closed" /\ license_token = NoBroker /\ why # "broker"
  BY SlotsAssumption DEF IdentInit
<1>1. IdentTyped
  BY SMTT(30), <1>0 DEF IdentTyped, BrokerOrNone, Processes, Workers, Monitors
<1>2. StageAgrees
  BY SMTT(30), <1>0 DEF StageAgrees, Booting, Brokers, NoBroker
<1>3. CapAgrees
  BY SMTT(30), <1>0 DEF CapAgrees
<1>4. BrokersAgree /\ MonitorsAgree
  BY SMTT(30), <1>0 DEF BrokersAgree, MonitorsAgree, Brokers, NoBroker
<1> QED
  BY <1>1, <1>2, <1>3, <1>4 DEF IdentInv

\* A step that leaves alone what a part of the invariant reads keeps that part.
LEMMA IdentFrame ==
    /\ stage' = stage /\ sidecar' = sidecar /\ token' = token /\ failure_rx' = failure_rx
       /\ license_token' = license_token /\ process' = process /\ worker' = worker
       /\ monitor' = monitor /\ configured' = configured /\ max_players' = max_players
       /\ entitled' = entitled /\ IdentTyped => IdentTyped'
    /\ stage' = stage /\ http' = http /\ advertised' = advertised /\ worker' = worker
       /\ sidecar' = sidecar /\ token' = token /\ failure_rx' = failure_rx /\ mode' = mode
       /\ license_token' = license_token /\ StageAgrees => StageAgrees'
    /\ max_players' = max_players /\ configured' = configured /\ mode' = mode /\ stage' = stage
       /\ entitled' = entitled /\ advertised' = advertised /\ CapAgrees => CapAgrees'
    /\ worker' = worker /\ process' = process /\ stage' = stage /\ sidecar' = sidecar
       /\ crashed' = crashed /\ BrokersAgree => BrokersAgree'
    /\ monitor' = monitor /\ worker' = worker /\ crashed' = crashed /\ failure_rx' = failure_rx
       /\ token' = token /\ verdict' = verdict /\ license_token' = license_token /\ why' = why
       /\ MonitorsAgree => MonitorsAgree'
<1>1. stage' = stage /\ sidecar' = sidecar /\ token' = token /\ failure_rx' = failure_rx
      /\ license_token' = license_token /\ process' = process /\ worker' = worker /\ monitor' = monitor
      /\ configured' = configured /\ max_players' = max_players /\ entitled' = entitled /\ IdentTyped => IdentTyped'
  BY DEF IdentTyped
<1>2. stage' = stage /\ http' = http /\ advertised' = advertised /\ worker' = worker
      /\ sidecar' = sidecar /\ token' = token /\ failure_rx' = failure_rx /\ mode' = mode
      /\ license_token' = license_token /\ StageAgrees => StageAgrees'
  BY DEF StageAgrees, Booting
<1>3. max_players' = max_players /\ configured' = configured /\ mode' = mode /\ stage' = stage
      /\ entitled' = entitled /\ advertised' = advertised /\ CapAgrees => CapAgrees'
  BY DEF CapAgrees
<1>4. worker' = worker /\ process' = process /\ stage' = stage /\ sidecar' = sidecar
      /\ crashed' = crashed /\ BrokersAgree => BrokersAgree'
  BY DEF BrokersAgree
<1>5. monitor' = monitor /\ worker' = worker /\ crashed' = crashed /\ failure_rx' = failure_rx
      /\ token' = token /\ verdict' = verdict /\ license_token' = license_token /\ why' = why
      /\ MonitorsAgree => MonitorsAgree'
  BY DEF MonitorsAgree
<1> QED
  BY <1>1, <1>2, <1>3, <1>4, <1>5

\* Every step of main, the workers, the monitors and the brokers preserves it.
LEMMA IdentStep == IdentInv /\ [IdentNext]_identVars => IdentInv'
<1> SUFFICES ASSUME IdentInv, [IdentNext]_identVars PROVE IdentInv'
  OBVIOUS
<1>a. IdentTyped /\ StageAgrees /\ CapAgrees /\ BrokersAgree /\ MonitorsAgree
  BY DEF IdentInv
<1>0. CASE UNCHANGED identVars
  <2>1. UNCHANGED <<mode, listing, configured, stage, max_players, entitled, process, verdict,
                    worker, stopped,
                    sidecar, token, failure_rx, monitor, advertised, http, license_token, why, crashed>>
    BY <1>0 DEF identVars
  <2> QED
    BY <2>1, <1>a, IdentFrame DEF IdentInv
<1>1. CASE Bootstrap
  <2>1. IdentTyped'
    BY SMTT(30), <1>1, <1>a
    DEF Bootstrap, Start, setting, slots, serving, runtime, IdentTyped, BrokerOrNone, Processes,
        Workers, Monitors, Brokers, NoBroker
  <2>2. StageAgrees'
    BY SMTT(30), <1>1, <1>a
    DEF Bootstrap, Start, setting, slots, serving, runtime, StageAgrees, IdentTyped, Booting,
        NoBroker, BrokerOrNone, Processes, Workers, Monitors, Brokers
  <2>3. CapAgrees'
    BY SMTT(30), <1>1, <1>a
    DEF Bootstrap, Start, setting, slots, serving, runtime, CapAgrees
  <2>4. BrokersAgree'
    BY SMTT(30), <1>1, <1>a
    DEF Bootstrap, Start, setting, slots, serving, runtime, BrokersAgree, IdentTyped, StageAgrees,
        Brokers, NoBroker, BrokerOrNone, Processes, Workers, Monitors, Booting
  <2>5. MonitorsAgree'
    BY SMTT(30), <1>1, <1>a
    DEF Bootstrap, Start, setting, slots, serving, runtime, MonitorsAgree, IdentTyped, StageAgrees,
        Brokers, NoBroker, BrokerOrNone, Processes, Workers, Monitors, Booting
  <2> QED
    BY <2>1, <2>2, <2>3, <2>4, <2>5 DEF IdentInv
<1>2. CASE Authenticated
  <2>1. IdentTyped'
    BY SMTT(30), <1>2, <1>a
    DEF Authenticated, boot_decision, setting, slots, serving, runtime, IdentTyped, BrokerOrNone,
        Processes, Workers, Monitors, Brokers, NoBroker
  <2>2. StageAgrees'
    BY SMTT(30), <1>2, <1>a
    DEF Authenticated, boot_decision, setting, slots, serving, runtime, StageAgrees, Booting, NoBroker
  <2>3. CapAgrees'
    BY SMTT(30), <1>2, <1>a
    DEF Authenticated, boot_decision, setting, slots, serving, runtime, CapAgrees
  <2>4. BrokersAgree'
    BY SMTT(30), <1>2, <1>a
    DEF Authenticated, boot_decision, setting, slots, serving, runtime, BrokersAgree, StageAgrees,
        IdentTyped, Brokers, NoBroker, Booting, BrokerOrNone, Processes, Workers, Monitors
  <2>5. MonitorsAgree'
    BY SMTT(30), <1>2, <1>a
    DEF Authenticated, boot_decision, setting, slots, serving, runtime, MonitorsAgree, Brokers, NoBroker
  <2> QED
    BY <2>1, <2>2, <2>3, <2>4, <2>5 DEF IdentInv
<1>3. CASE Denied
  <2>1. IdentTyped'
    BY SMTT(30), <1>3, <1>a
    DEF Denied, setting, slots, serving, runtime, IdentTyped, BrokerOrNone, Processes, Workers,
        Monitors, Brokers, NoBroker
  <2>2. StageAgrees'
    BY SMTT(30), <1>3, <1>a
    DEF Denied, setting, slots, serving, runtime, StageAgrees, Booting, NoBroker
  <2>3. CapAgrees'
    BY SMTT(30), <1>3, <1>a
    DEF Denied, setting, slots, serving, runtime, CapAgrees
  <2>4. BrokersAgree'
    BY SMTT(30), <1>3, <1>a
    DEF Denied, setting, slots, serving, runtime, BrokersAgree, IdentTyped, StageAgrees, Brokers,
        NoBroker, BrokerOrNone, Processes, Workers, Monitors, Booting
  <2>5. MonitorsAgree'
    BY SMTT(30), <1>3, <1>a
    DEF Denied, setting, slots, serving, runtime, MonitorsAgree, IdentTyped, StageAgrees, Brokers,
        NoBroker, BrokerOrNone, Processes, Workers, Monitors, Booting
  <2> QED
    BY <2>1, <2>2, <2>3, <2>4, <2>5 DEF IdentInv
<1>4. CASE OpenListeners
  <2>1. IdentTyped'
    BY SMTT(30), <1>4, <1>a
    DEF OpenListeners, setting, slots, serving, runtime, IdentTyped, BrokerOrNone, Processes,
        Workers, Monitors, Brokers, NoBroker
  <2>2. StageAgrees'
    BY SMTT(30), <1>4, <1>a
    DEF OpenListeners, setting, slots, serving, runtime, StageAgrees, Booting, NoBroker
  <2>3. CapAgrees'
    BY SMTT(30), <1>4, <1>a
    DEF OpenListeners, setting, slots, serving, runtime, CapAgrees
  <2>4. BrokersAgree'
    BY SMTT(30), <1>4, <1>a
    DEF OpenListeners, setting, slots, serving, runtime, BrokersAgree, Brokers, NoBroker
  <2>5. MonitorsAgree'
    BY SMTT(30), <1>4, <1>a
    DEF OpenListeners, setting, slots, serving, runtime, MonitorsAgree, Brokers, NoBroker
  <2> QED
    BY <2>1, <2>2, <2>3, <2>4, <2>5 DEF IdentInv
<1>5. CASE Activate
  <2>1. IdentTyped'
    BY SMTT(30), <1>5, <1>a
    DEF Activate, Start, Exit, public_listing, setting, slots, serving, runtime, IdentTyped,
        BrokerOrNone, Processes, Workers, Monitors, Brokers, NoBroker
  <2>2. StageAgrees'
    BY SMTT(30), <1>5, <1>a
    DEF Activate, Start, Exit, public_listing, setting, slots, serving, runtime, StageAgrees,
        Booting, NoBroker
  <2>3. CapAgrees'
    BY SMTT(30), <1>5, <1>a
    DEF Activate, Start, Exit, public_listing, setting, slots, serving, runtime, CapAgrees
  <2>4. BrokersAgree'
    BY SMTT(30), <1>5, <1>a
    DEF Activate, Start, Exit, public_listing, setting, slots, serving, runtime, BrokersAgree,
        IdentTyped, StageAgrees, Brokers, NoBroker, BrokerOrNone, Processes, Workers, Monitors, Booting
  <2>5. MonitorsAgree'
    BY SMTT(30), <1>5, <1>a
    DEF Activate, Start, Exit, public_listing, setting, slots, serving, runtime, MonitorsAgree,
        IdentTyped, StageAgrees, Brokers, NoBroker, BrokerOrNone, Processes, Workers, Monitors, Booting
  <2> QED
    BY <2>1, <2>2, <2>3, <2>4, <2>5 DEF IdentInv
<1>6. CASE Activated
  <2>1. IdentTyped'
    BY SMTT(30), <1>6, <1>a
    DEF Activated, Swap, boot_decision, setting, slots, serving, runtime, IdentTyped, BrokerOrNone,
        Processes, Workers, Monitors, Brokers, NoBroker
  <2>2. StageAgrees'
    BY SMTT(30), <1>6, <1>a
    DEF Activated, Swap, boot_decision, setting, slots, serving, runtime, StageAgrees, Booting, NoBroker
  <2>3. CapAgrees'
    BY SMTT(30), <1>6, <1>a
    DEF Activated, Swap, boot_decision, setting, slots, serving, runtime, CapAgrees
  <2>4. BrokersAgree'
    BY SMTT(30), <1>6, <1>a
    DEF Activated, Swap, boot_decision, setting, slots, serving, runtime, BrokersAgree, IdentTyped,
        StageAgrees, Brokers, NoBroker, BrokerOrNone, Processes, Workers, Monitors, Booting
  <2>5. MonitorsAgree'
    BY SMTT(30), <1>6, <1>a
    DEF Activated, Swap, boot_decision, setting, slots, serving, runtime, MonitorsAgree,
        IdentTyped, StageAgrees, BrokersAgree, Brokers, NoBroker, BrokerOrNone, Processes, Workers,
        Monitors, Booting
  <2> QED
    BY <2>1, <2>2, <2>3, <2>4, <2>5 DEF IdentInv
<1>7. CASE NotActivated
  <2>1. IdentTyped'
    BY SMTT(30), <1>7, <1>a
    DEF NotActivated, Exit, setting, slots, serving, runtime, IdentTyped, BrokerOrNone, Processes,
        Workers, Monitors, Brokers, NoBroker
  <2>2. StageAgrees'
    BY SMTT(30), <1>7, <1>a
    DEF NotActivated, Exit, setting, slots, serving, runtime, StageAgrees, Booting, NoBroker
  <2>3. CapAgrees'
    BY SMTT(30), <1>7, <1>a
    DEF NotActivated, Exit, setting, slots, serving, runtime, CapAgrees
  <2>4. BrokersAgree'
    BY SMTT(30), <1>7, <1>a
    DEF NotActivated, Exit, setting, slots, serving, runtime, BrokersAgree, Brokers, NoBroker
  <2>5. MonitorsAgree'
    BY SMTT(30), <1>7, <1>a
    DEF NotActivated, Exit, setting, slots, serving, runtime, MonitorsAgree, StageAgrees, Brokers,
        NoBroker, Booting
  <2> QED
    BY <2>1, <2>2, <2>3, <2>4, <2>5 DEF IdentInv
<1>8. CASE BrokerStopped
  <2>1. IdentTyped'
    BY SMTT(30), <1>8, <1>a
    DEF BrokerStopped, Exit, setting, slots, serving, runtime, IdentTyped, BrokerOrNone, Processes,
        Workers, Monitors, Brokers, NoBroker
  <2>2. StageAgrees'
    BY SMTT(30), <1>8, <1>a
    DEF BrokerStopped, Exit, setting, slots, serving, runtime, StageAgrees, Booting, NoBroker
  <2>3. CapAgrees'
    BY SMTT(30), <1>8, <1>a
    DEF BrokerStopped, Exit, setting, slots, serving, runtime, CapAgrees
  <2>4. BrokersAgree'
    BY SMTT(30), <1>8, <1>a
    DEF BrokerStopped, Exit, setting, slots, serving, runtime, BrokersAgree, Brokers, NoBroker
  <2>5. MonitorsAgree'
    BY SMTT(30), <1>8, <1>a
    DEF BrokerStopped, Exit, setting, slots, serving, runtime, MonitorsAgree, IdentTyped, Brokers,
        NoBroker, BrokerOrNone, Processes, Workers, Monitors
  <2> QED
    BY <2>1, <2>2, <2>3, <2>4, <2>5 DEF IdentInv
<1>9. CASE HttpStops
  <2>1. IdentTyped'
    BY SMTT(30), <1>9, <1>a
    DEF HttpStops, Exit, setting, slots, serving, runtime, IdentTyped, BrokerOrNone, Processes,
        Workers, Monitors, Brokers, NoBroker
  <2>2. StageAgrees'
    BY SMTT(30), <1>9, <1>a
    DEF HttpStops, Exit, setting, slots, serving, runtime, StageAgrees, Booting, NoBroker
  <2>3. CapAgrees'
    BY SMTT(30), <1>9, <1>a
    DEF HttpStops, Exit, setting, slots, serving, runtime, CapAgrees
  <2>4. BrokersAgree'
    BY SMTT(30), <1>9, <1>a
    DEF HttpStops, Exit, setting, slots, serving, runtime, BrokersAgree, Brokers, NoBroker
  <2>5. MonitorsAgree'
    BY SMTT(30), <1>9, <1>a
    DEF HttpStops, Exit, setting, slots, serving, runtime, MonitorsAgree, Brokers, NoBroker
  <2> QED
    BY <2>1, <2>2, <2>3, <2>4, <2>5 DEF IdentInv
<1>10. ASSUME NEW policies \in PolicyLists \cup {{}}, Resolve(policies)
      PROVE  IdentInv'
  <2>1. IdentTyped'
    BY SMTT(30), <1>10, <1>a
    DEF Resolve, apply_slot_policy, effective_max_players, entitlements_from_policies,
        BASE_MAX_SLOTS, setting, slots, serving, runtime, IdentTyped, BrokerOrNone, Processes,
        Workers, Monitors, Brokers, NoBroker
  <2>2. StageAgrees'
    BY SMTT(30), <1>10, <1>a
    DEF Resolve, apply_slot_policy, effective_max_players, entitlements_from_policies,
        BASE_MAX_SLOTS, setting, slots, serving, runtime, StageAgrees, Booting, NoBroker
  <2>3. CapAgrees'
    BY SMTT(30), <1>10, <1>a
    DEF Resolve, apply_slot_policy, effective_max_players, entitlements_from_policies,
        BASE_MAX_SLOTS, setting, slots, serving, runtime, CapAgrees, IdentTyped, StageAgrees,
        BrokerOrNone, Processes, Workers, Monitors, Brokers, NoBroker, Booting
  <2>4. BrokersAgree'
    BY SMTT(30), <1>10, <1>a
    DEF Resolve, apply_slot_policy, effective_max_players, entitlements_from_policies,
        BASE_MAX_SLOTS, setting, slots, serving, runtime, BrokersAgree, Brokers, NoBroker
  <2>5. MonitorsAgree'
    BY SMTT(30), <1>10, <1>a
    DEF Resolve, apply_slot_policy, effective_max_players, entitlements_from_policies,
        BASE_MAX_SLOTS, setting, slots, serving, runtime, MonitorsAgree, IdentTyped, StageAgrees,
        BrokersAgree, Brokers, NoBroker, BrokerOrNone, Processes, Workers, Monitors, Booting
  <2> QED
    BY <2>1, <2>2, <2>3, <2>4, <2>5 DEF IdentInv
<1>11. ASSUME NEW b \in Brokers, WorkerFails(b)
      PROVE  IdentInv'
  <2>1. UNCHANGED <<mode, listing, configured, stage, max_players, entitled, verdict, stopped,
                    sidecar, token, failure_rx, monitor, advertised, http, license_token, why, crashed>>
    BY <1>11 DEF WorkerFails, setting, slots, serving, runtime
  <2>2. CapAgrees'
    BY <2>1, <1>a, IdentFrame
  <2>3. IdentTyped'
    BY SMTT(30), <1>11, <1>a
    DEF WorkerFails, setting, slots, serving, runtime, IdentTyped, BrokerOrNone, Processes,
        Workers, Monitors, Brokers, NoBroker
  <2>4. StageAgrees'
    BY SMTT(30), <1>11, <1>a
    DEF WorkerFails, setting, slots, serving, runtime, StageAgrees, Booting, NoBroker
  <2>5. BrokersAgree'
    BY SMTT(30), <1>11, <1>a
    DEF WorkerFails, setting, slots, serving, runtime, BrokersAgree, Brokers, NoBroker
  <2>6. MonitorsAgree'
    BY SMTT(30), <1>11, <1>a
    DEF WorkerFails, setting, slots, serving, runtime, MonitorsAgree, Brokers, NoBroker
  <2> QED
    BY <2>2, <2>3, <2>4, <2>5, <2>6 DEF IdentInv
<1>12. ASSUME NEW b \in Brokers, WorkerReady(b)
      PROVE  IdentInv'
  <2>1. UNCHANGED <<mode, listing, configured, stage, max_players, entitled, process, verdict,
                    stopped, sidecar, token, failure_rx, monitor, advertised, http, license_token,
                    why, crashed>>
    BY <1>12 DEF WorkerReady, setting, slots, serving, runtime
  <2>2. CapAgrees'
    BY <2>1, <1>a, IdentFrame
  <2>3. IdentTyped'
    BY SMTT(30), <1>12, <1>a
    DEF WorkerReady, setting, slots, serving, runtime, IdentTyped, BrokerOrNone, Processes,
        Workers, Monitors, Brokers, NoBroker
  <2>4. StageAgrees'
    BY SMTT(30), <1>12, <1>a
    DEF WorkerReady, setting, slots, serving, runtime, StageAgrees, Booting, NoBroker
  <2>5. BrokersAgree'
    BY SMTT(30), <1>12, <1>a
    DEF WorkerReady, setting, slots, serving, runtime, BrokersAgree, Brokers, NoBroker
  <2>6. MonitorsAgree'
    BY SMTT(30), <1>12, <1>a
    DEF WorkerReady, setting, slots, serving, runtime, MonitorsAgree, Brokers, NoBroker
  <2> QED
    BY <2>2, <2>3, <2>4, <2>5, <2>6 DEF IdentInv
<1>13. ASSUME NEW b \in Brokers, WorkerAnswers(b)
      PROVE  IdentInv'
  <2>1. UNCHANGED <<mode, listing, configured, stage, max_players, entitled, process, verdict,
                    stopped, sidecar, token, failure_rx, monitor, advertised, http, license_token,
                    why, crashed>>
    BY <1>13 DEF WorkerAnswers, setting, slots, serving, runtime
  <2>2. CapAgrees'
    BY <2>1, <1>a, IdentFrame
  <2>3. IdentTyped'
    BY SMTT(30), <1>13, <1>a
    DEF WorkerAnswers, setting, slots, serving, runtime, IdentTyped, BrokerOrNone, Processes,
        Workers, Monitors, Brokers, NoBroker
  <2>4. StageAgrees'
    BY SMTT(30), <1>13, <1>a
    DEF WorkerAnswers, setting, slots, serving, runtime, StageAgrees, Booting, NoBroker
  <2>5. BrokersAgree'
    BY SMTT(30), <1>13, <1>a
    DEF WorkerAnswers, setting, slots, serving, runtime, BrokersAgree, Brokers, NoBroker
  <2>6. MonitorsAgree'
    BY SMTT(30), <1>13, <1>a
    DEF WorkerAnswers, setting, slots, serving, runtime, MonitorsAgree, Brokers, NoBroker
  <2> QED
    BY <2>2, <2>3, <2>4, <2>5, <2>6 DEF IdentInv
<1>14. ASSUME NEW b \in Brokers, ResultDropped(b)
      PROVE  IdentInv'
  <2>1. UNCHANGED <<mode, listing, configured, stage, max_players, entitled, verdict, stopped,
                    sidecar, token, failure_rx, monitor, advertised, http, license_token, why, crashed>>
    BY <1>14 DEF ResultDropped, setting, slots, serving, runtime
  <2>2. CapAgrees'
    BY <2>1, <1>a, IdentFrame
  <2>3. IdentTyped'
    BY SMTT(30), <1>14, <1>a
    DEF ResultDropped, setting, slots, serving, runtime, IdentTyped, BrokerOrNone, Processes,
        Workers, Monitors, Brokers, NoBroker
  <2>4. StageAgrees'
    BY SMTT(30), <1>14, <1>a
    DEF ResultDropped, setting, slots, serving, runtime, StageAgrees, Booting, NoBroker
  <2>5. BrokersAgree'
    BY SMTT(30), <1>14, <1>a
    DEF ResultDropped, setting, slots, serving, runtime, BrokersAgree, IdentTyped, StageAgrees,
        Brokers, NoBroker, BrokerOrNone, Processes, Workers, Monitors, Booting
  <2>6. MonitorsAgree'
    BY SMTT(30), <1>14, <1>a
    DEF ResultDropped, setting, slots, serving, runtime, MonitorsAgree, Brokers, NoBroker
  <2> QED
    BY <2>2, <2>3, <2>4, <2>5, <2>6 DEF IdentInv
<1>15. ASSUME NEW b \in Brokers, MonitorTick(b)
      PROVE  IdentInv'
  <2>1. UNCHANGED <<mode, listing, configured, stage, max_players, entitled, process, verdict,
                    worker, stopped, sidecar, token, failure_rx, advertised, http, license_token,
                    why, crashed>>
    BY <1>15 DEF MonitorTick, setting, slots, serving, runtime
  <2>2. StageAgrees' /\ CapAgrees' /\ BrokersAgree'
    BY <2>1, <1>a, IdentFrame
  <2>3. IdentTyped'
    BY SMTT(30), <1>15, <1>a
    DEF MonitorTick, setting, slots, serving, runtime, IdentTyped, BrokerOrNone, Processes,
        Workers, Monitors, Brokers, NoBroker
  <2>4. MonitorsAgree'
    BY SMTT(30), <1>15, <1>a
    DEF MonitorTick, setting, slots, serving, runtime, MonitorsAgree, IdentTyped, StageAgrees,
        BrokersAgree, Brokers, NoBroker, BrokerOrNone, Processes, Workers, Monitors, Booting
  <2> QED
    BY <2>2, <2>3, <2>4 DEF IdentInv
<1>16. ASSUME NEW b \in Brokers, BrokerDies(b)
      PROVE  IdentInv'
  <2>1. UNCHANGED <<mode, listing, configured, stage, max_players, entitled, verdict, worker,
                    stopped, sidecar, token, failure_rx, monitor, advertised, http, license_token, why>>
    BY <1>16 DEF BrokerDies, setting, slots, serving, runtime
  <2>2. StageAgrees' /\ CapAgrees'
    BY <2>1, <1>a, IdentFrame
  <2>3. IdentTyped'
    BY SMTT(30), <1>16, <1>a
    DEF BrokerDies, setting, slots, serving, runtime, IdentTyped, BrokerOrNone, Processes, Workers,
        Monitors, Brokers, NoBroker
  <2>4. BrokersAgree'
    BY SMTT(30), <1>16, <1>a
    DEF BrokerDies, setting, slots, serving, runtime, BrokersAgree, Brokers, NoBroker
  <2>5. MonitorsAgree'
    BY SMTT(30), <1>16, <1>a
    DEF BrokerDies, setting, slots, serving, runtime, MonitorsAgree, Brokers, NoBroker
  <2> QED
    BY <2>2, <2>3, <2>4, <2>5 DEF IdentInv
<1> QED
  BY <1>0, <1>1, <1>2, <1>3, <1>4, <1>5, <1>6, <1>7, <1>8, <1>9, <1>10, <1>11, <1>12, <1>13, <1>14,
     <1>15, <1>16
     DEF IdentNext, Main, Background

\* IdentityHonest: what main serves is authenticated, its cap is within the
\* configured slots and the grant, one broker runs, and the server stops for a
\* broker only when one died, for any slot counts and policies.
THEOREM IdentityAlwaysHonest == IdentSpec => []IdentityHonest
  BY IdentHonest, IdentStart, IdentStep, PTL DEF IdentSpec

-----------------------------------------------------------------------------
(* The channel to the sidecar. *)

\* Before the launch nothing has been asked and the files may be another run's.
BeforeLaunch ==
    handle = "none" => child = "none" /\ seq = 0 /\ lastId = 0 /\ job = NoJob /\ answer = "none"

\* What a request may be about.
Questions == {"none", "license_status"} \cup Loaders
\* A request file, and the shim's job.
Asked == [id : Nat, op : Questions]
\* What a response may say.
Sayings == {"none", "error", "data", "valid", "invalid"}
\* A response file.
Responses == [id : Nat, op : Questions, whole : BOOLEAN, says : Sayings]
\* Where a caller is.
CallStates == [at : {"new", "polling", "done"}, id : Nat, made : Nat]
\* What a caller may have been told.
Verdicts == [says : {"none", "data", "valid", "invalid"}, op : Questions]

\* The files; the number of no request is 0.
FilesTyped ==
    /\ request_json \in Asked /\ (request_json.id = 0 => request_json.op = "none")
    /\ response_json \in Responses /\ (response_json.id = 0 => response_json.op = "none")

\* The shim.
ShimTyped ==
    /\ lastId \in Nat /\ answer \in Sayings
    /\ job \in Asked /\ (job.id = 0 => job.op = "none")

\* The callers.
CallersTyped ==
    /\ seq \in Nat
    /\ calls \in [Callers -> CallStates]
    /\ last \in [Callers -> Verdicts]

\* The handle, the child and the lock.
HandleTyped ==
    /\ handle \in {"none", "starting", "ok", "dropping", "gone"}
    /\ child \in {"none", "booting", "up", "dead"}
    /\ call_lock \in Callers \cup {NoCaller}

\* Numbers in the files and in the shim have been given out.
GivenOut ==
    /\ handle # "none" => request_json.id <= seq /\ response_json.id <= seq
    /\ lastId <= seq /\ job.id <= seq

\* So have the callers'.
CallsGiven == \A c \in Callers : calls[c].at \in {"new", "polling", "done"} /\ calls[c].id <= seq

\* A caller that polls holds the lock, and the request on file is its own.
PollsOwn ==
    /\ call_lock \in Callers => calls[call_lock].at = "polling"
    /\ \A c \in Callers : calls[c].at = "polling" =>
            /\ handle = "ok" /\ call_lock = c /\ calls[c].id = seq
            /\ request_json.id = seq /\ request_json.op = OpOf(c)

\* The same number, the same question: from the request to the shim's job and
\* to the answer.
SameQuestion ==
    /\ job.id = request_json.id => job.op = request_json.op
    /\ handle # "none" /\ response_json.id = request_json.id => response_json.op = request_json.op
    /\ response_json.id = job.id /\ handle # "none" => response_json.op = job.op

\* Whatever says that the key is valid was said after the component accepted it.
SaidValid ==
    /\ answer = "valid" => validated
    /\ handle # "none" /\ response_json.says = "valid" => validated

\* The inductive invariant of the sidecar channel.
SideInv ==
    /\ HandleTyped /\ GivenOut /\ CallsGiven
    /\ FilesTyped /\ ShimTyped /\ CallersTyped
    /\ AnswersOwn /\ VerdictEarned /\ NothingLeft
    /\ BeforeLaunch /\ PollsOwn /\ SameQuestion /\ SaidValid

\* Each part of it is kept by a step that leaves alone what it reads.
LEMMA SideFrame ==
    /\ handle' = handle /\ child' = child /\ call_lock' = call_lock /\ HandleTyped => HandleTyped'
    /\ handle' = handle /\ request_json' = request_json /\ response_json' = response_json
       /\ seq' = seq /\ lastId' = lastId /\ job' = job /\ GivenOut => GivenOut'
    /\ calls' = calls /\ seq' = seq /\ CallsGiven => CallsGiven'
    /\ request_json' = request_json /\ response_json' = response_json /\ FilesTyped => FilesTyped'
    /\ lastId' = lastId /\ answer' = answer /\ job' = job /\ ShimTyped => ShimTyped'
    /\ seq' = seq /\ calls' = calls /\ last' = last /\ CallersTyped => CallersTyped'
    /\ last' = last /\ AnswersOwn => AnswersOwn'
    /\ last' = last /\ validated' = validated /\ VerdictEarned => VerdictEarned'
    /\ handle' = handle /\ child' = child /\ ready' = ready /\ request_json' = request_json
       /\ response_json' = response_json /\ NothingLeft => NothingLeft'
    /\ handle' = handle /\ child' = child /\ seq' = seq /\ lastId' = lastId /\ job' = job
       /\ answer' = answer /\ BeforeLaunch => BeforeLaunch'
    /\ handle' = handle /\ call_lock' = call_lock /\ calls' = calls /\ seq' = seq
       /\ request_json' = request_json /\ PollsOwn => PollsOwn'
    /\ handle' = handle /\ job' = job /\ request_json' = request_json
       /\ response_json' = response_json /\ SameQuestion => SameQuestion'
    /\ handle' = handle /\ answer' = answer /\ validated' = validated
       /\ response_json' = response_json /\ SaidValid => SaidValid'
<1>1. handle' = handle /\ child' = child /\ call_lock' = call_lock /\ HandleTyped => HandleTyped'
  BY DEF HandleTyped
<1>2. handle' = handle /\ request_json' = request_json /\ response_json' = response_json
      /\ seq' = seq /\ lastId' = lastId /\ job' = job /\ GivenOut => GivenOut'
  BY DEF GivenOut
<1>3. calls' = calls /\ seq' = seq /\ CallsGiven => CallsGiven'
  BY DEF CallsGiven
<1>4. request_json' = request_json /\ response_json' = response_json /\ FilesTyped => FilesTyped'
  BY DEF FilesTyped
<1>5. lastId' = lastId /\ answer' = answer /\ job' = job /\ ShimTyped => ShimTyped'
  BY DEF ShimTyped
<1>6. seq' = seq /\ calls' = calls /\ last' = last /\ CallersTyped => CallersTyped'
  BY DEF CallersTyped
<1>7. last' = last /\ AnswersOwn => AnswersOwn'
  BY DEF AnswersOwn
<1>8. last' = last /\ validated' = validated /\ VerdictEarned => VerdictEarned'
  BY SMTT(30) DEF VerdictEarned
<1>9. handle' = handle /\ child' = child /\ ready' = ready /\ request_json' = request_json
      /\ response_json' = response_json /\ NothingLeft => NothingLeft'
  BY SMTT(30) DEF NothingLeft
<1>10. handle' = handle /\ child' = child /\ seq' = seq /\ lastId' = lastId /\ job' = job
       /\ answer' = answer /\ BeforeLaunch => BeforeLaunch'
  BY DEF BeforeLaunch
<1>11. handle' = handle /\ call_lock' = call_lock /\ calls' = calls /\ seq' = seq
       /\ request_json' = request_json /\ PollsOwn => PollsOwn'
  BY DEF PollsOwn
<1>12. handle' = handle /\ job' = job /\ request_json' = request_json
       /\ response_json' = response_json /\ SameQuestion => SameQuestion'
  BY DEF SameQuestion
<1>13. handle' = handle /\ answer' = answer /\ validated' = validated
       /\ response_json' = response_json /\ SaidValid => SaidValid'
  BY SMTT(30) DEF SaidValid
<1> QED
  BY <1>1, <1>2, <1>3, <1>4, <1>5, <1>6, <1>7, <1>8, <1>9, <1>10, <1>11, <1>12, <1>13

\* The numbers of the files and of the job.
LEMMA SideNumbers ==
    FilesTyped /\ ShimTyped => request_json.id \in Nat /\ response_json.id \in Nat /\ job.id \in Nat
  BY DEF FilesTyped, ShimTyped, Asked, Responses

\* The files that are absent.
LEMMA Absent ==
    /\ NoJob \in Asked /\ NoJob.id = 0 /\ NoJob.op = "none"
    /\ NoFile \in Responses /\ NoFile.id = 0 /\ NoFile.op = "none" /\ NoFile.says = "none"
<1>1. NoJob \in Asked /\ NoJob.id = 0 /\ NoJob.op = "none"
  BY SMTT(30) DEF NoJob, Asked, Questions
<1>2. NoFile \in Responses
  BY SMTT(30) DEF NoFile, Responses, Sayings, Questions
<1>3. NoFile.id = 0 /\ NoFile.op = "none" /\ NoFile.says = "none"
  BY SMTT(30) DEF NoFile
<1> QED
  BY <1>1, <1>2, <1>3

\* The response file an earlier gateway may have left.
LEMMA LeftBehind ==
    ASSUME NEW r, r = [id |-> 1, op |-> "license_status", whole |-> TRUE, says |-> "valid"]
    PROVE  r \in Responses /\ r.id = 1
  BY SMTT(30) DEF Responses, Sayings, Questions

\* The response file the shim truncates to, and the one it fills.
LEMMA Truncated ==
    ASSUME NEW j \in Asked, NEW a \in Sayings, NEW r,
           r = [id |-> j.id, op |-> j.op, whole |-> FALSE, says |-> a]
    PROVE  r \in Responses /\ r.id = j.id /\ r.op = j.op /\ r.says = a
  BY SMTT(30) DEF Responses, Asked

\* Filling it changes neither its number nor what it says.
LEMMA Filled ==
    ASSUME NEW r \in Responses, NEW s, s = [r EXCEPT !.whole = TRUE]
    PROVE  s \in Responses /\ s.id = r.id /\ s.op = r.op /\ s.says = r.says
<1>1. s \in Responses
  BY DEF Responses
<1>2. s.id = r.id /\ s.op = r.op /\ s.says = r.says
  BY SMTT(30) DEF Responses
<1> QED
  BY <1>1, <1>2

\* The invariant holds of the initial states, with the files of an earlier run
\* or without.
LEMMA SideStart == SideInit => SideInv
<1> SUFFICES ASSUME SideInit PROVE SideInv
  OBVIOUS
<1>0. /\ handle = "none" /\ child = "none" /\ lastId = 0 /\ job = NoJob /\ answer = "none"
      /\ seq = 0 /\ call_lock = NoCaller
      /\ calls = [c \in Callers |-> [at |-> "new", id |-> 0, made |-> 0]]
      /\ last = [c \in Callers |-> Silent]
  BY DEF SideInit
<1>1. \/ request_json = NoJob /\ response_json = NoFile
      \/ /\ request_json = [id |-> 1, op |-> "license_status"]
         /\ response_json = [id |-> 1, op |-> "license_status", whole |-> TRUE, says |-> "valid"]
  BY DEF SideInit
<1>2. FilesTyped
  <2>1. CASE request_json = NoJob /\ response_json = NoFile
    BY <2>1, Absent DEF FilesTyped
  <2>2. CASE /\ request_json = [id |-> 1, op |-> "license_status"]
             /\ response_json = [id |-> 1, op |-> "license_status", whole |-> TRUE, says |-> "valid"]
    <3>1. request_json \in Asked /\ request_json.id # 0
      BY SMTT(30), <2>2 DEF Asked, Questions
    <3>2. response_json \in Responses /\ response_json.id = 1
      BY <2>2, LeftBehind
    <3> QED
      BY SMTT(30), <3>1, <3>2 DEF FilesTyped
  <2> QED
    BY <1>1, <2>1, <2>2
<1>3. ShimTyped
  <2>1. lastId \in Nat /\ answer \in Sayings
    BY SMTT(30), <1>0 DEF Sayings
  <2> QED
    BY <2>1, <1>0, Absent DEF ShimTyped
<1>4. [at |-> "new", id |-> 0, made |-> 0] \in CallStates /\ Silent \in Verdicts
  BY SMTT(30) DEF CallStates, Verdicts, Silent, Questions
<1>5. CallersTyped
  <2>1. seq \in Nat
    BY SMTT(30), <1>0
  <2> QED
    BY <2>1, <1>0, <1>4 DEF CallersTyped
<1>6. \A c \in Callers : calls[c].at = "new" /\ calls[c].id = 0 /\ last[c] = Silent
  <2>1. \A c \in Callers : calls[c] = [at |-> "new", id |-> 0, made |-> 0] /\ last[c] = Silent
    BY <1>0
  <2> QED
    BY SMTT(30), <2>1
<1>7. HandleTyped /\ NothingLeft /\ BeforeLaunch
  BY <1>0 DEF HandleTyped, NothingLeft, BeforeLaunch
<1>8. GivenOut
  <2>1. lastId <= seq /\ job.id <= seq
    BY SMTT(30), <1>0, Absent
  <2> QED
    BY <2>1, <1>0 DEF GivenOut
<1>9. CallsGiven
  BY SMTT(30), <1>0, <1>6 DEF CallsGiven
<1>10. AnswersOwn
  BY <1>6 DEF AnswersOwn
<1>11. VerdictEarned
  <2>1. Silent.says = "none"
    BY SMTT(30) DEF Silent
  <2> QED
    BY <2>1, <1>6 DEF VerdictEarned, Callers
<1>12. PollsOwn
  BY <1>0, <1>6, SidecarAssumption DEF PollsOwn, Callers
<1>13. SameQuestion
  <2>1. job.id = 0 /\ job.op = "none"
    BY <1>0, Absent
  <2> QED
    BY <2>1, <1>0, <1>2 DEF SameQuestion, FilesTyped
<1>14. SaidValid
  BY <1>0 DEF SaidValid
<1> QED
  BY <1>2, <1>3, <1>5, <1>7, <1>8, <1>9, <1>10, <1>11, <1>12, <1>13, <1>14 DEF SideInv

\* The callers after c has changed where it is.
MovedTo(f, c, a) == [f EXCEPT ![c].at = a]

\* From f to g, c has changed where it is, kept its number and left the others alone.
Moved(f, g, c, a) ==
    /\ g \in [Callers -> CallStates]
    /\ \A d \in Callers : g[d].at \in {"new", "polling", "done"} /\ g[d].id = f[d].id
    /\ \A d \in Callers : d # c => g[d] = f[d]
    /\ g[c].at = a

\* That is what the update does.
LEMMA MovesAlone ==
    ASSUME NEW f \in [Callers -> CallStates], NEW c \in Callers, NEW a \in {"new", "done"}
    PROVE  Moved(f, MovedTo(f, c, a), c, a)
<1>0. PICK g : g = MovedTo(f, c, a)
  OBVIOUS
<1>1. f[c] \in CallStates
  OBVIOUS
<1>2. PICK r : r = [f[c] EXCEPT !.at = a]
  OBVIOUS
<1>3. r \in CallStates /\ r.at = a /\ r.id = f[c].id
  <2>1. r \in CallStates
    BY SMTT(30), <1>1, <1>2 DEF CallStates
  <2>2. r.at = a /\ r.id = f[c].id
    BY SMTT(30), <1>1, <1>2 DEF CallStates
  <2> QED
    BY <2>1, <2>2
<1>4. g = [f EXCEPT ![c] = r]
  BY <1>0, <1>2 DEF MovedTo
<1>5. g \in [Callers -> CallStates] /\ g[c] = r /\ \A d \in Callers : d # c => g[d] = f[d]
  BY <1>3, <1>4
<1>6. \A d \in Callers : g[d].at \in {"new", "polling", "done"}
  BY <1>5 DEF CallStates
<1>7. Moved(f, g, c, a)
  BY <1>3, <1>5, <1>6 DEF Moved
<1> QED
  BY <1>0, <1>7

\* Every step of the child, of the handle and of a caller keeps the invariant.
LEMMA SideStep == SideInv /\ [SideNext]_sideVars => SideInv'
<1> SUFFICES ASSUME SideInv, [SideNext]_sideVars PROVE SideInv'
  OBVIOUS
<1>a. /\ HandleTyped /\ GivenOut /\ CallsGiven
      /\ FilesTyped /\ ShimTyped /\ CallersTyped
      /\ AnswersOwn /\ VerdictEarned /\ NothingLeft
      /\ BeforeLaunch /\ PollsOwn /\ SameQuestion /\ SaidValid
  BY DEF SideInv
<1>b. request_json.id \in Nat /\ response_json.id \in Nat /\ job.id \in Nat
  BY <1>a, SideNumbers
<1>0. CASE UNCHANGED sideVars
  <2>1. UNCHANGED <<handle, child, validated, ready, request_json, response_json, lastId, job, answer,
                    seq, call_lock, calls, last, cancelled>>
    BY <1>0 DEF sideVars, processVars, shim
  <2> QED
    BY <2>1, <1>a, SideFrame DEF SideInv
<1>1. CASE Ready
  <2>1. /\ child = "booting" /\ child' = "up"
        /\ UNCHANGED <<handle, validated, request_json, response_json, lastId, job, answer, seq,
                       call_lock, calls, last, cancelled>>
    BY <1>1 DEF Ready, processVars, shim
  <2>2. GivenOut' /\ CallsGiven' /\ FilesTyped' /\ ShimTyped' /\ CallersTyped' /\ AnswersOwn'
        /\ VerdictEarned' /\ PollsOwn' /\ SameQuestion' /\ SaidValid'
    BY <2>1, <1>a, SideFrame
  <2>3. HandleTyped' /\ BeforeLaunch' /\ NothingLeft'
    BY <2>1, <1>a DEF HandleTyped, BeforeLaunch, NothingLeft
  <2> QED
    BY <2>2, <2>3 DEF SideInv
<1>2. CASE Validate
  <2>1. /\ validated' = TRUE
        /\ UNCHANGED <<handle, child, ready, request_json, response_json, lastId, job, answer, seq,
                       call_lock, calls, last, cancelled>>
    BY <1>2 DEF Validate, processVars, shim
  <2>2. HandleTyped' /\ GivenOut' /\ CallsGiven' /\ FilesTyped' /\ ShimTyped' /\ CallersTyped'
        /\ AnswersOwn' /\ NothingLeft' /\ BeforeLaunch' /\ PollsOwn' /\ SameQuestion'
    BY <2>1, <1>a, SideFrame
  <2>3. VerdictEarned' /\ SaidValid'
    BY <2>1 DEF VerdictEarned, SaidValid
  <2> QED
    BY <2>2, <2>3 DEF SideInv
<1>3. CASE ChildDies
  <2>1. /\ child \in {"booting", "up"} /\ child' = "dead"
        /\ UNCHANGED <<handle, validated, ready, request_json, response_json, lastId, job, answer,
                       seq, call_lock, calls, last, cancelled>>
    BY <1>3 DEF ChildDies, processVars, shim
  <2>2. GivenOut' /\ CallsGiven' /\ FilesTyped' /\ ShimTyped' /\ CallersTyped' /\ AnswersOwn'
        /\ VerdictEarned' /\ PollsOwn' /\ SameQuestion' /\ SaidValid'
    BY <2>1, <1>a, SideFrame
  <2>3. HandleTyped' /\ BeforeLaunch'
    BY <2>1, <1>a DEF HandleTyped, BeforeLaunch
  <2>4. NothingLeft'
    BY <2>1, <1>a DEF NothingLeft
  <2> QED
    BY <2>2, <2>3, <2>4 DEF SideInv
<1>4. CASE ShimReads
  <2>1. /\ child = "up" /\ job' = request_json
        /\ UNCHANGED <<handle, child, validated, ready, request_json, response_json, lastId,
                       answer, seq, call_lock, calls, last, cancelled>>
    BY <1>4 DEF ShimReads, processVars, shim
  <2>2. HandleTyped' /\ CallsGiven' /\ FilesTyped' /\ CallersTyped' /\ AnswersOwn'
        /\ VerdictEarned' /\ NothingLeft' /\ PollsOwn' /\ SaidValid'
    BY <2>1, <1>a, SideFrame
  <2>3. handle # "none"
    BY <2>1, <1>a DEF BeforeLaunch
  <2>4. ShimTyped' /\ GivenOut'
    BY <2>1, <2>3, <1>a DEF ShimTyped, FilesTyped, GivenOut
  <2>5. SameQuestion' /\ BeforeLaunch'
    BY <2>1, <2>3, <1>a DEF SameQuestion, BeforeLaunch
  <2> QED
    BY <2>2, <2>3, <2>4, <2>5 DEF SideInv
<1>5. CASE ShimHandles
  <2>1. /\ child = "up" /\ answer' \in {"error", "data", "valid", "invalid"}
        /\ answer' = "valid" => validated
        /\ UNCHANGED <<handle, child, validated, ready, request_json, response_json, lastId, job,
                       seq, call_lock, calls, last, cancelled>>
    BY <1>5 DEF ShimHandles, processVars, shim
  <2>2. HandleTyped' /\ GivenOut' /\ CallsGiven' /\ FilesTyped' /\ CallersTyped' /\ AnswersOwn'
        /\ VerdictEarned' /\ NothingLeft' /\ PollsOwn' /\ SameQuestion'
    BY <2>1, <1>a, SideFrame
  <2>3. ShimTyped'
    BY <2>1, <1>a DEF ShimTyped, Sayings
  <2>4. SaidValid' /\ BeforeLaunch'
    <3>1. SaidValid'
      BY SMTT(30), <2>1, <1>a DEF SaidValid
    <3>2. BeforeLaunch'
      BY <2>1, <1>a DEF BeforeLaunch
    <3> QED
      BY <3>1, <3>2
  <2> QED
    BY <2>2, <2>3, <2>4 DEF SideInv
<1>6. CASE ShimTruncates
  <2>1. /\ child = "up" /\ response_json' = [id |-> job.id, op |-> job.op, whole |-> FALSE, says |-> answer]
        /\ UNCHANGED <<handle, child, validated, ready, request_json, lastId, job, answer, seq,
                       call_lock, calls, last, cancelled>>
    BY <1>6 DEF ShimTruncates, processVars, shim
  <2>2. HandleTyped' /\ CallsGiven' /\ ShimTyped' /\ CallersTyped' /\ AnswersOwn'
        /\ VerdictEarned' /\ BeforeLaunch' /\ PollsOwn'
    BY <2>1, <1>a, SideFrame
  <2>3. handle # "none" /\ handle # "gone"
    BY <2>1, <1>a DEF BeforeLaunch, NothingLeft
  <2>4. /\ response_json' \in Responses /\ response_json'.id = job.id /\ response_json'.op = job.op
        /\ response_json'.says = answer
    BY <2>1, <1>a, Truncated DEF ShimTyped
  <2>5. FilesTyped' /\ GivenOut'
    BY <2>1, <2>4, <1>a DEF FilesTyped, GivenOut, ShimTyped
  <2>6. SameQuestion' /\ NothingLeft'
    BY <2>1, <2>3, <2>4, <1>a DEF SameQuestion, NothingLeft
  <2>7. SaidValid'
    BY SMTT(30), <2>1, <2>4, <1>a DEF SaidValid
  <2> QED
    BY <2>2, <2>3, <2>4, <2>5, <2>6, <2>7 DEF SideInv
<1>7. CASE ShimFills
  <2>1. /\ child = "up" /\ response_json.id = job.id
        /\ response_json' = [response_json EXCEPT !.whole = TRUE]
        /\ lastId' = job.id /\ job' = NoJob /\ answer' = "none"
        /\ UNCHANGED <<handle, child, validated, ready, request_json, seq, call_lock, calls, last,
                       cancelled>>
    BY <1>7 DEF ShimFills, processVars, shim
  <2>2. HandleTyped' /\ CallsGiven' /\ CallersTyped' /\ AnswersOwn' /\ VerdictEarned' /\ PollsOwn'
    BY <2>1, <1>a, SideFrame
  <2>3. handle # "none" /\ handle # "gone"
    BY <2>1, <1>a DEF BeforeLaunch, NothingLeft
  <2>4. /\ response_json' \in Responses /\ response_json'.id = response_json.id
        /\ response_json'.op = response_json.op /\ response_json'.says = response_json.says
    BY <2>1, <1>a, Filled DEF FilesTyped
  <2>5. job'.id = 0 /\ job'.op = "none" /\ job' \in Asked
    BY <2>1, Absent
  <2>6. FilesTyped'
    BY <2>1, <2>4, <1>a DEF FilesTyped
  <2>7. ShimTyped'
    BY <2>1, <2>5, <1>b DEF ShimTyped, Sayings
  <2>8. GivenOut'
    <3>1. job'.id <= seq'
      BY SMTT(30), <2>1, <2>5, <1>a DEF CallersTyped
    <3> QED
      BY <3>1, <2>1, <2>4, <1>a DEF GivenOut
  <2>9. SameQuestion'
    BY <2>1, <2>3, <2>4, <2>5, <1>a DEF SameQuestion, FilesTyped
  <2>10. NothingLeft' /\ BeforeLaunch'
    BY <2>1, <2>3 DEF NothingLeft, BeforeLaunch
  <2>11. SaidValid'
    BY SMTT(30), <2>1, <2>4, <1>a DEF SaidValid
  <2> QED
    BY <2>2, <2>3, <2>4, <2>5, <2>6, <2>7, <2>8, <2>9, <2>10, <2>11 DEF SideInv
<1>8. CASE launch
  <2>1. /\ handle = "none"
        /\ \/ handle' = "starting" /\ child' = "booting"
           \/ handle' = "gone" /\ child' = "dead"
        /\ ready' = FALSE /\ request_json' = NoJob /\ response_json' = NoFile
        /\ UNCHANGED <<validated, lastId, job, answer, seq, call_lock, calls, last, cancelled>>
    BY <1>8 DEF launch, processVars, shim
  <2>2. CallsGiven' /\ ShimTyped' /\ CallersTyped' /\ AnswersOwn' /\ VerdictEarned'
    BY <2>1, <1>a, SideFrame
  <2>3. /\ request_json'.id = 0 /\ request_json'.op = "none" /\ request_json' \in Asked
        /\ response_json'.id = 0 /\ response_json'.op = "none" /\ response_json'.says = "none"
        /\ response_json' \in Responses
    BY <2>1, Absent
  <2>4. FilesTyped'
    BY <2>3 DEF FilesTyped
  <2>5. GivenOut'
    <3>1. 0 <= seq
      BY SMTT(30), <1>a DEF CallersTyped
    <3> QED
      BY <3>1, <2>1, <2>3, <1>a DEF GivenOut
  <2>6. SameQuestion'
    BY <2>1, <2>3, <1>a DEF SameQuestion, ShimTyped
  <2>7. SaidValid'
    BY SMTT(30), <2>1, <2>3, <1>a DEF SaidValid
  <2>8. PollsOwn'
    BY <2>1, <1>a DEF PollsOwn
  <2>9. HandleTyped' /\ BeforeLaunch'
    BY <2>1, <1>a DEF HandleTyped, BeforeLaunch
  <2>10. NothingLeft'
    BY SMTT(30), <2>1 DEF NothingLeft
  <2> QED
    BY <2>2, <2>3, <2>4, <2>5, <2>6, <2>7, <2>8, <2>9, <2>10 DEF SideInv
<1>9. CASE await_ready
  <2>1. /\ handle = "starting" /\ handle' \in {"ok", "dropping"}
        /\ UNCHANGED <<child, validated, ready, request_json, response_json, lastId, job, answer,
                       seq, call_lock, calls, last, cancelled>>
    BY <1>9 DEF await_ready, processVars, shim
  <2>2. CallsGiven' /\ FilesTyped' /\ ShimTyped' /\ CallersTyped' /\ AnswersOwn' /\ VerdictEarned'
    BY <2>1, <1>a, SideFrame
  <2>3. HandleTyped' /\ BeforeLaunch' /\ NothingLeft'
    BY <2>1, <1>a DEF HandleTyped, BeforeLaunch, NothingLeft
  <2>4. GivenOut' /\ SameQuestion'
    BY <2>1, <1>a DEF GivenOut, SameQuestion
  <2>5. SaidValid'
    BY SMTT(30), <2>1, <1>a DEF SaidValid
  <2>6. PollsOwn'
    BY <2>1, <1>a DEF PollsOwn
  <2> QED
    BY <2>2, <2>3, <2>4, <2>5, <2>6 DEF SideInv
<1>10. CASE Kill
  <2>1. /\ handle = "dropping" /\ child' = "dead"
        /\ UNCHANGED <<handle, validated, ready, request_json, response_json, lastId, job, answer,
                       seq, call_lock, calls, last, cancelled>>
    BY <1>10 DEF Kill, processVars, shim
  <2>2. GivenOut' /\ CallsGiven' /\ FilesTyped' /\ ShimTyped' /\ CallersTyped' /\ AnswersOwn'
        /\ VerdictEarned' /\ PollsOwn' /\ SameQuestion' /\ SaidValid'
    BY <2>1, <1>a, SideFrame
  <2>3. HandleTyped' /\ BeforeLaunch' /\ NothingLeft'
    BY <2>1, <1>a DEF HandleTyped, BeforeLaunch, NothingLeft
  <2> QED
    BY <2>2, <2>3 DEF SideInv
<1>11. CASE reset_ipc
  <2>1. /\ handle = "dropping" /\ child = "dead" /\ handle' = "gone"
        /\ ready' = FALSE /\ request_json' = NoJob /\ response_json' = NoFile
        /\ UNCHANGED <<child, validated, lastId, job, answer, seq, call_lock, calls, last, cancelled>>
    BY <1>11 DEF reset_ipc, processVars, shim
  <2>2. CallsGiven' /\ ShimTyped' /\ CallersTyped' /\ AnswersOwn' /\ VerdictEarned'
    BY <2>1, <1>a, SideFrame
  <2>3. /\ request_json'.id = 0 /\ request_json'.op = "none" /\ request_json' \in Asked
        /\ response_json'.id = 0 /\ response_json'.op = "none" /\ response_json'.says = "none"
        /\ response_json' \in Responses
    BY <2>1, Absent
  <2>4. FilesTyped'
    BY <2>3 DEF FilesTyped
  <2>5. GivenOut'
    <3>1. 0 <= seq
      BY SMTT(30), <1>a DEF CallersTyped
    <3> QED
      BY <3>1, <2>1, <2>3, <1>a DEF GivenOut
  <2>6. SameQuestion'
    BY <2>1, <2>3, <1>a DEF SameQuestion, ShimTyped
  <2>7. SaidValid'
    BY SMTT(30), <2>1, <2>3, <1>a DEF SaidValid
  <2>8. PollsOwn'
    BY <2>1, <1>a DEF PollsOwn
  <2>9. HandleTyped' /\ BeforeLaunch'
    BY <2>1, <1>a DEF HandleTyped, BeforeLaunch
  <2>10. NothingLeft'
    BY SMTT(30), <2>1 DEF NothingLeft
  <2> QED
    BY <2>2, <2>3, <2>4, <2>5, <2>6, <2>7, <2>8, <2>9, <2>10 DEF SideInv
<1>12. CASE DropHandle
  <2>1. /\ handle = "ok" /\ handle' = "dropping" /\ \A c \in Callers : calls[c].at = "done"
        /\ UNCHANGED <<child, validated, ready, request_json, response_json, lastId, job, answer,
                       seq, call_lock, calls, last, cancelled>>
    BY <1>12 DEF DropHandle, processVars, shim
  <2>2. CallsGiven' /\ FilesTyped' /\ ShimTyped' /\ CallersTyped' /\ AnswersOwn' /\ VerdictEarned'
    BY <2>1, <1>a, SideFrame
  <2>3. HandleTyped' /\ BeforeLaunch' /\ NothingLeft'
    BY <2>1, <1>a DEF HandleTyped, BeforeLaunch, NothingLeft
  <2>4. GivenOut' /\ SameQuestion'
    BY <2>1, <1>a DEF GivenOut, SameQuestion
  <2>5. SaidValid'
    BY SMTT(30), <2>1, <1>a DEF SaidValid
  <2>6. PollsOwn'
    BY <2>1, <1>a DEF PollsOwn
  <2> QED
    BY <2>2, <2>3, <2>4, <2>5, <2>6 DEF SideInv
<1>13. CASE CancelAll
  <2>1. UNCHANGED <<handle, child, validated, ready, request_json, response_json, lastId, job, answer,
                    seq, call_lock, calls, last>>
    BY <1>13 DEF CancelAll, processVars, shim
  <2> QED
    BY <2>1, <1>a, SideFrame DEF SideInv
<1>14. ASSUME NEW c \in Callers, request(c)
      PROVE  SideInv'
  <2>1. /\ handle = "ok" /\ call_lock = NoCaller /\ seq' = seq + 1 /\ call_lock' = c
        /\ request_json' = [id |-> seq + 1, op |-> OpOf(c)]
        /\ calls' = [calls EXCEPT ![c] = [at |-> "polling", id |-> seq + 1, made |-> calls[c].made + 1]]
        /\ UNCHANGED <<handle, child, validated, ready, response_json, lastId, job, answer, last,
                       cancelled>>
    BY <1>14 DEF request, processVars, shim
  <2>2. ShimTyped' /\ AnswersOwn' /\ VerdictEarned' /\ SaidValid'
    BY <2>1, <1>a, SideFrame
  <2>3. /\ seq \in Nat /\ seq' \in Nat /\ seq + 1 \in Nat /\ seq + 1 # 0
        /\ \A n \in Nat : n <= seq => n <= seq' /\ n # seq'
    BY SMTT(30), <2>1, <1>a DEF CallersTyped
  <2>4. /\ request_json' \in Asked /\ request_json'.id = seq' /\ request_json'.op = OpOf(c)
    <3>1. OpOf(c) \in Questions
      BY DEF OpOf, Callers, Questions
    <3> QED
      BY SMTT(30), <2>1, <2>3, <3>1 DEF Asked
  <2>5. [at |-> "polling", id |-> seq + 1, made |-> calls[c].made + 1] \in CallStates
    <3>1. calls[c].made \in Nat
      BY <1>a DEF CallersTyped, CallStates
    <3> QED
      BY SMTT(30), <3>1, <2>3 DEF CallStates
  <2>6. /\ calls' \in [Callers -> CallStates]
        /\ calls'[c] = [at |-> "polling", id |-> seq + 1, made |-> calls[c].made + 1]
        /\ \A d \in Callers \ {c} : calls'[d] = calls[d]
    BY <2>1, <2>5, <1>a DEF CallersTyped
  <2>7. /\ calls'[c].at = "polling" /\ calls'[c].id = seq'
        /\ \A d \in Callers : calls[d].at # "polling"
    <3>1. calls'[c].at = "polling" /\ calls'[c].id = seq'
      BY SMTT(30), <2>1, <2>6
    <3>2. \A d \in Callers : calls[d].at # "polling"
      BY <2>1, <1>a, SidecarAssumption DEF PollsOwn, Callers
    <3> QED
      BY <3>1, <3>2
  <2>8. HandleTyped' /\ BeforeLaunch' /\ NothingLeft'
    BY <2>1, <1>a DEF HandleTyped, BeforeLaunch, NothingLeft
  <2>9. GivenOut'
    <3>1. response_json.id <= seq /\ lastId <= seq /\ job.id <= seq /\ lastId \in Nat
      BY <2>1, <1>a DEF GivenOut, ShimTyped
    <3>2. seq' <= seq'
      BY SMTT(30), <2>3
    <3> QED
      BY <3>1, <3>2, <2>1, <2>3, <2>4, <1>b DEF GivenOut
  <2>10. CallsGiven'
    <3>1. \A d \in Callers : calls[d].id \in Nat
      BY <1>a DEF CallersTyped, CallStates
    <3>2. seq' <= seq'
      BY SMTT(30), <2>3
    <3>3. ASSUME NEW d \in Callers
          PROVE  calls'[d].at \in {"new", "polling", "done"} /\ calls'[d].id <= seq'
      <4>1. CASE d = c
        BY <4>1, <3>2, <2>7
      <4>2. CASE d # c
        BY <4>2, <3>1, <2>3, <2>6, <1>a DEF CallsGiven
      <4> QED
        BY <4>1, <4>2
    <3> QED
      BY <3>3 DEF CallsGiven
  <2>11. FilesTyped' /\ CallersTyped'
    BY <2>1, <2>3, <2>4, <2>6, <1>a DEF FilesTyped, CallersTyped
  <2>12. PollsOwn'
    BY <2>1, <2>4, <2>6, <2>7 DEF PollsOwn
  <2>13. SameQuestion'
    <3>1. job.id # seq' /\ response_json.id # seq'
      BY <2>1, <2>3, <1>a, <1>b DEF GivenOut
    <3> QED
      BY <3>1, <2>1, <2>4, <1>a DEF SameQuestion
  <2> QED
    BY <2>2, <2>3, <2>4, <2>5, <2>6, <2>7, <2>8, <2>9, <2>10, <2>11, <2>12, <2>13 DEF SideInv
<1>15. ASSUME NEW c \in Callers, QueryCancelled(c)
      PROVE  SideInv'
  <2>1. /\ calls[c].at = "new" /\ calls' = [calls EXCEPT ![c].at = "done"]
        /\ UNCHANGED <<handle, child, validated, ready, request_json, response_json, lastId, job,
                       answer, seq, call_lock, last, cancelled>>
    BY <1>15 DEF QueryCancelled, processVars, shim
  <2>2. HandleTyped' /\ GivenOut' /\ FilesTyped' /\ ShimTyped' /\ AnswersOwn' /\ VerdictEarned'
        /\ NothingLeft' /\ BeforeLaunch' /\ SameQuestion' /\ SaidValid'
    BY <2>1, <1>a, SideFrame
  <2>3. /\ calls' \in [Callers -> CallStates]
        /\ \A d \in Callers : calls'[d].at \in {"new", "polling", "done"} /\ calls'[d].id = calls[d].id
        /\ \A d \in Callers : d # c => calls'[d] = calls[d]
        /\ calls'[c].at = "done"
    <3>1. PICK a \in {"new", "done"} : a = "done"
      BY DEF After
    <3>2. calls \in [Callers -> CallStates]
      BY <1>a DEF CallersTyped
    <3>3. calls' = MovedTo(calls, c, a)
      BY <2>1, <3>1 DEF MovedTo
    <3>4. Moved(calls, calls', c, a)
      BY <3>2, <3>3, MovesAlone
    <3> QED
      BY <3>1, <3>4 DEF Moved
  <2>4. CallsGiven' /\ CallersTyped'
    BY <2>1, <2>3, <1>a DEF CallsGiven, CallersTyped
  <2>5. PollsOwn'
    BY <2>1, <2>3, <1>a DEF PollsOwn
  <2> QED
    BY <2>2, <2>3, <2>4, <2>5 DEF SideInv
<1>16. ASSUME NEW c \in Callers, Accept(c)
      PROVE  SideInv'
  <2>1. /\ calls[c].at = "polling" /\ response_json.id = calls[c].id
        /\ \/ response_json.says = "error" /\ last' = last
           \/ /\ response_json.says # "error"
              /\ last' = [last EXCEPT ![c] = [says |-> response_json.says, op |-> response_json.op]]
        /\ response_json' = NoFile /\ call_lock' = NoCaller
        /\ calls' = [calls EXCEPT ![c].at = After(c, response_json.says)]
        /\ UNCHANGED <<handle, child, validated, ready, request_json, lastId, job, answer, seq, cancelled>>
    BY <1>16 DEF Accept, Returned, Matches, parse_status, processVars, shim
  <2>2. ShimTyped' /\ BeforeLaunch'
    BY <2>1, <1>a, SideFrame
  <2>3. /\ calls' \in [Callers -> CallStates]
        /\ \A d \in Callers : calls'[d].at \in {"new", "polling", "done"} /\ calls'[d].id = calls[d].id
        /\ \A d \in Callers : d # c => calls'[d] = calls[d]
        /\ calls'[c].at = After(c, response_json.says)
    <3>1. PICK a \in {"new", "done"} : a = After(c, response_json.says)
      BY DEF After
    <3>2. calls \in [Callers -> CallStates]
      BY <1>a DEF CallersTyped
    <3>3. calls' = MovedTo(calls, c, a)
      BY <2>1, <3>1 DEF MovedTo
    <3>4. Moved(calls, calls', c, a)
      BY <3>2, <3>3, MovesAlone
    <3> QED
      BY <3>1, <3>4 DEF Moved
  <2>4. \A d \in Callers : calls'[d].at # "polling"
    <3>1. \A d \in Callers : d # c => calls[d].at # "polling"
      BY <2>1, <1>a DEF PollsOwn
    <3> QED
      BY <3>1, <2>3 DEF After
  <2>5. handle = "ok" /\ response_json.op = OpOf(c)
    BY <2>1, <1>a DEF PollsOwn, SameQuestion
  <2>6. /\ response_json' \in Responses /\ response_json'.id = 0 /\ response_json'.op = "none"
        /\ response_json'.says = "none"
    BY <2>1, Absent
  <2>7. response_json.says # "error" => [says |-> response_json.says, op |-> response_json.op] \in Verdicts
    <3>1. response_json.says \in Sayings /\ response_json.op \in Questions
      BY <1>a DEF FilesTyped, Responses
    <3> QED
      BY SMTT(30), <3>1 DEF Verdicts, Sayings
  <2>8. last' \in [Callers -> Verdicts]
    BY <2>1, <2>7, <1>a DEF CallersTyped
  <2>9. /\ \A d \in Callers : d # c => last'[d] = last[d]
        /\ \/ last'[c] = last[c]
           \/ last'[c].says = response_json.says /\ last'[c].op = response_json.op
    <3>1. CASE last' = last
      BY <3>1
    <3>2. CASE last' = [last EXCEPT ![c] = [says |-> response_json.says, op |-> response_json.op]]
      <4>1. /\ last'[c] = [says |-> response_json.says, op |-> response_json.op]
            /\ \A d \in Callers : d # c => last'[d] = last[d]
        BY <3>2, <1>a DEF CallersTyped
      <4>2. last'[c].says = response_json.says /\ last'[c].op = response_json.op
        BY SMTT(30), <4>1
      <4> QED
        BY <4>1, <4>2
    <3> QED
      BY <2>1, <3>1, <3>2
  <2>10. HandleTyped' /\ BeforeLaunch' /\ NothingLeft'
    BY <2>1, <1>a, <2>5 DEF HandleTyped, BeforeLaunch, NothingLeft
  <2>11. GivenOut'
    <3>1. 0 <= seq
      BY SMTT(30), <1>a DEF CallersTyped
    <3> QED
      BY <3>1, <2>1, <2>6, <1>a DEF GivenOut
  <2>12. CallsGiven' /\ CallersTyped' /\ FilesTyped'
    BY <2>1, <2>3, <2>6, <2>8, <1>a DEF CallsGiven, CallersTyped, FilesTyped
  <2>13. AnswersOwn'
    BY <2>5, <2>9, <1>a DEF AnswersOwn
  <2>14. VerdictEarned'
    <3>1. response_json.says = "valid" => validated
      BY <2>5, <1>a DEF SaidValid
    <3>2. \A d \in Oracles : last'[d].says = "valid" => validated
      BY <3>1, <2>9, <1>a DEF VerdictEarned, Callers
    <3> QED
      BY SMTT(30), <3>2, <2>1 DEF VerdictEarned
  <2>15. PollsOwn'
    BY <2>1, <2>4, SidecarAssumption DEF PollsOwn, Callers
  <2>16. SameQuestion'
    BY <2>1, <2>6, <1>a DEF SameQuestion, FilesTyped, ShimTyped
  <2>17. SaidValid'
    BY SMTT(30), <2>1, <2>6, <1>a DEF SaidValid
  <2> QED
    BY <2>2, <2>3, <2>4, <2>5, <2>6, <2>7, <2>8, <2>9, <2>10, <2>11, <2>12, <2>13, <2>14, <2>15,
       <2>16, <2>17 DEF SideInv
<1>17. ASSUME NEW c \in Callers, Abandon(c)
      PROVE  SideInv'
  <2>1. /\ calls[c].at = "polling" /\ call_lock' = NoCaller
        /\ calls' = [calls EXCEPT ![c].at = After(c, "error")]
        /\ UNCHANGED <<handle, child, validated, ready, request_json, response_json, lastId, job,
                       answer, seq, last, cancelled>>
    BY <1>17 DEF Abandon, Returned, processVars, shim
  <2>2. GivenOut' /\ FilesTyped' /\ ShimTyped' /\ AnswersOwn' /\ VerdictEarned' /\ NothingLeft'
        /\ BeforeLaunch' /\ SameQuestion' /\ SaidValid'
    BY <2>1, <1>a, SideFrame
  <2>3. /\ calls' \in [Callers -> CallStates]
        /\ \A d \in Callers : calls'[d].at \in {"new", "polling", "done"} /\ calls'[d].id = calls[d].id
        /\ \A d \in Callers : d # c => calls'[d] = calls[d]
        /\ calls'[c].at = After(c, "error")
    <3>1. PICK a \in {"new", "done"} : a = After(c, "error")
      BY DEF After
    <3>2. calls \in [Callers -> CallStates]
      BY <1>a DEF CallersTyped
    <3>3. calls' = MovedTo(calls, c, a)
      BY <2>1, <3>1 DEF MovedTo
    <3>4. Moved(calls, calls', c, a)
      BY <3>2, <3>3, MovesAlone
    <3> QED
      BY <3>1, <3>4 DEF Moved
  <2>4. \A d \in Callers : calls'[d].at # "polling"
    <3>1. \A d \in Callers : d # c => calls[d].at # "polling"
      BY <2>1, <1>a DEF PollsOwn
    <3> QED
      BY <3>1, <2>3 DEF After
  <2>5. HandleTyped' /\ CallsGiven' /\ CallersTyped'
    BY <2>1, <2>3, <1>a DEF HandleTyped, CallsGiven, CallersTyped
  <2>6. PollsOwn'
    BY <2>1, <2>4, SidecarAssumption DEF PollsOwn, Callers
  <2> QED
    BY <2>2, <2>3, <2>4, <2>5, <2>6 DEF SideInv
<1> QED
  BY <1>0, <1>1, <1>2, <1>3, <1>4, <1>5, <1>6, <1>7, <1>8, <1>9, <1>10, <1>11, <1>12, <1>13, <1>14,
     <1>15, <1>16, <1>17
     DEF SideNext, ShimNext

\* SidecarHonest, for any callers: a caller takes only the answer to its own
\* request, an oracle holds a valid verdict only if the component accepted the
\* key, and nothing is left for a later run (Sidecar::request, reset_ipc).
THEOREM SidecarAlwaysHonest == SideSpec => []SidecarHonest
<1>1. SideInv => SidecarHonest
  BY DEF SideInv, SidecarHonest, SideTypeOK, HandleTyped, GivenOut, CallsGiven
<1> QED
  BY <1>1, SideStart, SideStep, PTL DEF SideSpec

-----------------------------------------------------------------------------
(* Entitlement tickets. *)

\* A login, and the keys it handles.
Places == Refusals \cup {"new", "key", "fetch", "verify", "verified", "admitted"}
\* A public key, and when it was fetched.
Keys == [key : Nat, fetched_at : Nat]
\* The states of a login.
LoginStates == [at : Places, ticket : Offers \cup {NoTicket}, now : Nat, force : BOOLEAN, got : Keys, reply : Nat]

\* l waits in q.
InQueue(l, q) == \E i \in 1..Len(q) : q[i] = l
\* Nobody waits twice.
OnceEach(q) == \A i, j \in 1..Len(q) : q[i] = q[j] => i = j

\* x is the pair of a and b.
IsPair(x, a, b) == x = <<a, b>>
\* The parts of a pair.
LEMMA Pairs == \A x, a, b : IsPair(x, a, b) => x[1] = a /\ x[2] = b
BY SMTT(30) DEF IsPair
\* The least numbers and lengths.
LEMMA Counting == 0 \in Nat /\ Len(<<>>) = 0 /\ \A n \in Nat : n + 1 # 0
BY SMTT(30)

\* A key that is not too old at the clock was not too old before.
LEMMA NotTooOld ==
    ASSUME NEW at \in Nat, NEW time \in Nat, NEW now \in Nat, now <= time,
           ~(time - at > PUBKEY_MAX_AGE)
    PROVE  now <= at + PUBKEY_MAX_AGE
BY SMTT(30) DEF PUBKEY_MAX_AGE

\* A login that joins the mutex's queue, and one that leaves it.
LEMMA Joins ==
    ASSUME NEW S, NEW q \in Seq(S), NEW x \in S, ~InQueue(x, q), OnceEach(q)
    PROVE  /\ Append(q, x) \in Seq(S) /\ OnceEach(Append(q, x)) /\ Append(q, x) # <<>>
           /\ \A l : InQueue(l, Append(q, x)) <=> InQueue(l, q) \/ l = x
           /\ q # <<>> => Head(Append(q, x)) = Head(q)
<1>0. Append(q, x) \in Seq(S) /\ Len(Append(q, x)) = Len(q) + 1 /\ Len(q) \in Nat
  BY SMTT(30)
<1>9. Len(<<>>) = 0 /\ \A n \in Nat : n + 1 # 0
  BY Counting
<1>1. Append(q, x) \in Seq(S) /\ Append(q, x) # <<>> /\ Len(Append(q, x)) = Len(q) + 1
  BY <1>0, <1>9
<1>a. \A i \in 1..Len(q) : Append(q, x)[i] = q[i]
  BY SMTT(30)
<1>b. Append(q, x)[Len(q) + 1] = x
  BY SMTT(30)
<1> DEFINE r == Append(q, x)
           n == Len(q)
<1>c. n \in Nat /\ Len(r) = n + 1 /\ r[n + 1] = x /\ \A i \in 1..n : r[i] = q[i]
  BY <1>0, <1>a, <1>b
<1>d. \A i \in 1..n : q[i] # x
  BY DEF InQueue
<1>e. OnceEach(r) <=> \A i, j \in 1..(n + 1) : r[i] = r[j] => i = j
  BY <1>c DEF OnceEach
<1>f. \A i, j \in 1..n : q[i] = q[j] => i = j
  BY DEF OnceEach
<1>g. \A l : InQueue(l, r) <=> \E i \in 1..(n + 1) : r[i] = l
  BY <1>c DEF InQueue
<1>h. \A l : InQueue(l, q) <=> \E i \in 1..n : q[i] = l
  BY DEF InQueue
<1> HIDE DEF r, n
<1>2. OnceEach(r)
  BY SMTT(30), <1>c, <1>d, <1>e, <1>f
<1>3. \A l : InQueue(l, r) <=> InQueue(l, q) \/ l = x
  BY SMTT(30), <1>c, <1>g, <1>h
<1>4. q # <<>> => Head(Append(q, x)) = Head(q)
  BY SMTT(30), <1>1
<1> QED
  BY <1>1, <1>2, <1>3, <1>4 DEF r

\* A login leaves the head of the queue.
LEMMA Leaves ==
    ASSUME NEW S, NEW q \in Seq(S), q # <<>>, OnceEach(q)
    PROVE  /\ Tail(q) \in Seq(S) /\ OnceEach(Tail(q))
           /\ \A l : InQueue(l, Tail(q)) <=> InQueue(l, q) /\ l # Head(q)
<1>1. Tail(q) \in Seq(S) /\ Len(Tail(q)) = Len(q) - 1 /\ Len(q) \in Nat /\ Len(q) > 0
  BY SMTT(30)
<1>2. \A i \in 1..Len(Tail(q)) : Tail(q)[i] = q[i + 1]
  BY SMTT(30)
<1>3. OnceEach(Tail(q))
  BY SMTT(30), <1>1, <1>2 DEF OnceEach
<1>4. \A l : InQueue(l, Tail(q)) <=> InQueue(l, q) /\ l # Head(q)
  <2>1. ASSUME NEW l, InQueue(l, Tail(q)) PROVE InQueue(l, q) /\ l # Head(q)
    <3>1. PICK i \in 1..Len(Tail(q)) : Tail(q)[i] = l
      BY <2>1 DEF InQueue
    <3>2. i + 1 \in 1..Len(q) /\ q[i + 1] = l /\ i + 1 # 1 /\ 1 \in 1..Len(q)
      BY SMTT(30), <1>1, <1>2, <3>1
    <3>3. Head(q) = q[1]
      BY SMTT(30), <1>1
    <3> QED
      BY <3>2, <3>3 DEF OnceEach, InQueue
  <2>2. ASSUME NEW l, InQueue(l, q), l # Head(q) PROVE InQueue(l, Tail(q))
    <3>1. PICK i \in 1..Len(q) : q[i] = l
      BY <2>2 DEF InQueue
    <3>2. i # 1
      BY SMTT(30), <1>1, <3>1, <2>2
    <3>3. i - 1 \in 1..Len(Tail(q)) /\ Tail(q)[i - 1] = l
      BY SMTT(30), <1>1, <1>2, <3>1, <3>2
    <3> QED
      BY <3>3 DEF InQueue
  <2> QED
    BY <2>1, <2>2
<1> QED
  BY <1>1, <1>3, <1>4

----------------------------------------------------------------------------
\* The values of the variables.
Ids == {<<t.guid, t.expiry>> : t \in Offers}
\* The values of the variables.
AuthTyped ==
    /\ clock \in 0..MaxClock /\ endpoint \in 1..MaxKey /\ rotated_at \in Nat /\ sweep \in Nat /\ next_gc \in Nat
    /\ pubkey \in Keys /\ keyLock \in Seq(Logins) /\ login \in [Logins -> LoginStates]
    /\ admitted \in Seq(Ids \X Nat)
    /\ \A l \in Logins : login[l].at # "new" => login[l].ticket \in Offers

\* The queue of the mutex is the logins inside get_pubkey, each of them once.
QueueAgrees ==
    /\ OnceEach(keyLock)
    /\ \A l \in Logins : login[l].at \in {"key", "fetch"} <=> InQueue(l, keyLock)
    /\ \A l \in Logins : login[l].at = "fetch" => Holds(l)

\* A key fetched after the last rotation is the one now published.
Recent(k) == k.fetched_at <= clock /\ (k.fetched_at > rotated_at => k.key = endpoint)
\* The keys a login holds are keys that were current.
KeysOf(r) ==
    /\ Recent(r.got) /\ r.now <= clock
    /\ r.at = "fetch" =>
          /\ pubkey.key <= r.reply /\ r.reply <= endpoint
          /\ r.reply = endpoint \/ rotated_at = clock
\* Every key in hand or in the cache was current when it was fetched.
KeysAgree ==
    /\ rotated_at <= clock /\ pubkey.key <= endpoint /\ Recent(pubkey)
    /\ \A l \in Logins : KeysOf(login[l])

\* A login that was given a fresher key was given one of its own time, and a
\* refusal for the signature comes after that.
FreshEnough ==
    \A l \in Logins :
        /\ login[l].force /\ login[l].at \in {"verify", "InvalidSignature"} =>
              login[l].now <= login[l].got.fetched_at + PUBKEY_MAX_AGE
        /\ login[l].at = "InvalidSignature" => login[l].force /\ login[l].ticket.key # login[l].got.key

\* What was admitted since the last sweep is remembered.
SeenAgrees ==
    /\ AdmittedOnce
    /\ \A i \in 1..Len(admitted) :
          admitted[i][2] <= sweep /\ (admitted[i][2] = sweep => admitted[i][1] \in seen)

\* The inductive invariant of the ticket checks.
AuthInv == AuthTyped /\ QueueAgrees /\ KeysAgree /\ FreshEnough /\ SeenAgrees

\* The inductive invariant implies the property.
LEMMA AuthHonest == AuthInv => TicketsHonest
<1> SUFFICES ASSUME AuthInv PROVE TicketsHonest
  OBVIOUS
<1> USE DEF AuthInv
<1>1. AuthTypeOK
  <2>1. pubkey.key \in 0..endpoint
    BY SMTT(30) DEF AuthTyped, KeysAgree, Keys
  <2>2. \A l \in Logins : login[l].at \in Places
    BY DEF AuthTyped, LoginStates
  <2> QED
    BY <2>1, <2>2 DEF AuthTyped, QueueAgrees, InQueue, Places, AuthTypeOK
<1>2. RotationHeals
  <2> SUFFICES ASSUME NEW l \in Logins, login[l].at = "InvalidSignature", login[l].ticket.key = endpoint
               PROVE  login[l].now <= rotated_at + PUBKEY_MAX_AGE
    BY DEF RotationHeals
  <2>1. login[l].got.key # endpoint /\ login[l].now <= login[l].got.fetched_at + PUBKEY_MAX_AGE
    BY DEF FreshEnough
  <2>2. ~(login[l].got.fetched_at > rotated_at)
    BY <2>1 DEF KeysAgree, KeysOf, Recent
  <2>3. login[l].got.fetched_at \in Nat /\ login[l].now \in Nat /\ rotated_at \in Nat
    BY SMTT(30) DEF AuthTyped, LoginStates, Keys
  <2> QED
    BY SMTT(30), <2>1, <2>2, <2>3 DEF PUBKEY_MAX_AGE
<1> QED
  BY <1>1, <1>2 DEF TicketsHonest, SeenAgrees

\* It holds initially.
LEMMA AuthStart == AuthInit => AuthInv
<1> SUFFICES ASSUME AuthInit PROVE AuthInv
  OBVIOUS
<1>0. NoKey \in Keys /\ NoKey.key = 0 /\ NoKey.fetched_at = 0
  BY SMTT(30) DEF NoKey, Keys
<1> DEFINE fresh == [at |-> "new", ticket |-> NoTicket, now |-> 0, force |-> FALSE, got |-> NoKey, reply |-> 0]
<1>1. /\ fresh \in LoginStates /\ fresh.at = "new" /\ fresh.now = 0 /\ fresh.force = FALSE /\ fresh.got = NoKey
  <2>1. fresh.at = "new" /\ fresh.now = 0 /\ fresh.force = FALSE /\ fresh.got = NoKey
    OBVIOUS
  <2>2. "new" \in Places /\ NoTicket \in Offers \cup {NoTicket} /\ 0 \in Nat /\ FALSE \in BOOLEAN
    BY SMTT(30) DEF Places
  <2>3. fresh \in LoginStates
    BY <2>2, <1>0 DEF LoginStates
  <2> QED
    BY <2>1, <2>3
<1>2. /\ login = [l \in Logins |-> fresh]
      /\ clock = 0 /\ endpoint = 1 /\ pubkey = NoKey /\ keyLock = <<>> /\ seen = {} /\ next_gc = GcInterval
      /\ rotated_at = 0 /\ sweep = 0 /\ admitted = <<>>
  BY DEF AuthInit
<1> HIDE DEF fresh
<1>3. login \in [Logins -> LoginStates] /\ \A l \in Logins : login[l] = fresh
  BY <1>1, <1>2
<1>4. AuthTyped
  <2>1. clock \in 0..MaxClock /\ endpoint \in 1..MaxKey /\ rotated_at \in Nat /\ sweep \in Nat /\ next_gc \in Nat
    BY SMTT(30), <1>2, TicketsAssumption DEF GcInterval
  <2>2. keyLock \in Seq(Logins) /\ admitted \in Seq(Ids \X Nat)
    BY SMTT(30), <1>2
  <2> QED
    BY <2>1, <2>2, <1>0, <1>1, <1>2, <1>3 DEF AuthTyped
<1>5. QueueAgrees
  <2>1. OnceEach(keyLock) /\ \A l \in Logins : ~InQueue(l, keyLock)
    <3>1. 1..Len(keyLock) = {}
      BY SMTT(30), <1>2
    <3> QED
      BY <3>1 DEF OnceEach, InQueue
  <2> QED
    BY <2>1, <1>1, <1>3 DEF QueueAgrees
<1>6. KeysAgree
  <2>1. 0 <= 0 /\ ~(0 > 0) /\ 0 <= 1
    BY SMTT(30)
  <2>2. Recent(NoKey) /\ rotated_at <= clock /\ NoKey.key <= endpoint
    BY <2>1, <1>0, <1>2 DEF Recent
  <2>3. ASSUME NEW l \in Logins PROVE KeysOf(login[l])
    BY <2>1, <2>2, <1>1, <1>2, <1>3 DEF KeysOf
  <2> QED
    BY <2>2, <2>3, <1>2 DEF KeysAgree
<1>7. FreshEnough
  BY <1>1, <1>3 DEF FreshEnough
<1>8. SeenAgrees
  BY SMTT(30), <1>2 DEF SeenAgrees, AdmittedOnce
<1> QED
  BY <1>4, <1>5, <1>6, <1>7, <1>8 DEF AuthInv

----------------------------------------------------------------------------
\* What the steps of one login have in common: the others' states stay, and the
\* tables about the tickets seen.
LEMMA OthersStay ==
    ASSUME NEW f \in [Logins -> LoginStates], NEW l \in Logins, NEW r \in LoginStates,
           NEW g, g = [f EXCEPT ![l] = r]
    PROVE  g \in [Logins -> LoginStates] /\ g[l] = r /\ \A m \in Logins \ {l} : g[m] = f[m]
  OBVIOUS

\* The platform and the clock.
LEMMA PlatformStep == AuthInv /\ (Tick \/ Rotate \/ UNCHANGED authVars) => AuthInv'
<1> SUFFICES ASSUME AuthInv, Tick \/ Rotate \/ UNCHANGED authVars PROVE AuthInv'
  OBVIOUS
<1>1. UNCHANGED <<pubkey, keyLock, seen, login, sweep, admitted, next_gc>>
  BY DEF Tick, Rotate, authVars
<1>2. /\ clock \in Nat /\ endpoint \in Nat /\ rotated_at \in Nat /\ pubkey.key \in Nat /\ pubkey.fetched_at \in Nat
      /\ \A l \in Logins : /\ login[l].got.key \in Nat /\ login[l].got.fetched_at \in Nat
                           /\ login[l].now \in Nat /\ login[l].reply \in Nat
  <2>1. clock \in Nat /\ endpoint \in Nat /\ rotated_at \in Nat
    BY SMTT(30), TicketsAssumption DEF AuthInv, AuthTyped
  <2>2. pubkey.key \in Nat /\ pubkey.fetched_at \in Nat
    BY SMTT(30) DEF AuthInv, AuthTyped, Keys
  <2>3. \A l \in Logins : login[l].got \in Keys /\ login[l].now \in Nat /\ login[l].reply \in Nat
    BY DEF AuthInv, AuthTyped, LoginStates
  <2>4. \A l \in Logins : login[l].got.key \in Nat /\ login[l].got.fetched_at \in Nat
    BY <2>3 DEF Keys
  <2> QED
    BY <2>1, <2>2, <2>3, <2>4
<1>3. AuthTyped'
  <2>1. clock' \in 0..MaxClock /\ endpoint' \in 1..MaxKey /\ rotated_at' \in Nat
    <3>0. clock \in 0..MaxClock /\ endpoint \in 1..MaxKey
      BY DEF AuthInv, AuthTyped
    <3>1. CASE Tick
      <4>1. clock < MaxClock /\ clock' = clock + 1 /\ endpoint' = endpoint /\ rotated_at' = rotated_at
        BY <3>1 DEF Tick
      <4> QED
        BY SMTT(30), <3>0, <4>1, <1>2, TicketsAssumption DEF TicketsAssumption
    <3>2. CASE Rotate
      <4>1. endpoint < MaxKey /\ endpoint' = endpoint + 1 /\ rotated_at' = clock /\ clock' = clock
        BY <3>2 DEF Rotate
      <4> QED
        BY SMTT(30), <3>0, <4>1, <1>2, TicketsAssumption DEF TicketsAssumption
    <3>3. CASE UNCHANGED authVars
      BY <3>0, <3>3, <1>2 DEF authVars
    <3> QED
      BY <3>1, <3>2, <3>3
  <2> QED
    BY <2>1, <1>1 DEF AuthInv, AuthTyped
<1>4. QueueAgrees'
  BY <1>1 DEF AuthInv, QueueAgrees, Holds
<1>5. KeysAgree'
  <2>1. CASE Tick
    <3>1. /\ clock' = clock + 1 /\ \A l \in Logins : login[l].at # "fetch"
          /\ UNCHANGED <<endpoint, rotated_at>>
      BY <2>1 DEF Tick
    <3>2. \A n \in Nat : n <= clock => n <= clock'
      BY SMTT(30), <1>2, <3>1
    <3> QED
      BY <1>1, <1>2, <3>1, <3>2 DEF AuthInv, KeysAgree, KeysOf, Recent
  <2>2. CASE Rotate
    <3>1. endpoint' = endpoint + 1 /\ rotated_at' = clock /\ clock' = clock
      BY <2>2 DEF Rotate
    <3>2. \A k \in Keys : Recent(k) => Recent(k)'
      BY SMTT(30), <1>2, <3>1 DEF Recent, Keys
    <3>3. pubkey \in Keys /\ \A l \in Logins : login[l].got \in Keys
      BY DEF AuthInv, AuthTyped, LoginStates
    <3>4. Recent(pubkey)' /\ \A l \in Logins : Recent(login[l].got)'
      BY <1>1, <3>2, <3>3 DEF AuthInv, KeysAgree, KeysOf, Recent
    <3>5. rotated_at' <= clock' /\ pubkey'.key <= endpoint'
      <4>1. pubkey.key <= endpoint
        BY DEF AuthInv, KeysAgree
      <4> QED
        BY SMTT(30), <4>1, <1>1, <1>2, <3>1
    <3>6. \A l \in Logins : login[l].at = "fetch" => login[l].reply <= endpoint'
      <4>1. \A l \in Logins : login[l].at = "fetch" => login[l].reply <= endpoint
        BY DEF AuthInv, KeysAgree, KeysOf
      <4> QED
        BY SMTT(30), <4>1, <1>2, <3>1
    <3> QED
      BY <1>1, <3>1, <3>4, <3>5, <3>6 DEF AuthInv, KeysAgree, KeysOf
  <2>3. CASE UNCHANGED authVars
    BY <2>3 DEF AuthInv, KeysAgree, KeysOf, Recent, authVars
  <2> QED
    BY <2>1, <2>2, <2>3
<1>6. FreshEnough'
  BY <1>1 DEF AuthInv, FreshEnough
<1>7. SeenAgrees'
  BY <1>1 DEF AuthInv, SeenAgrees, AdmittedOnce
<1> QED
  BY <1>3, <1>4, <1>5, <1>6, <1>7 DEF AuthInv

\* A login takes its ticket and joins the queue.
LEMMA ValidateStep ==
    ASSUME AuthInv, NEW l \in Logins, validate_ticket(l)
    PROVE  AuthInv'
<1>0. clock \in Nat
  BY SMTT(30), TicketsAssumption DEF AuthInv, AuthTyped
<1>1. PICK t \in Offers : login' = [login EXCEPT ![l].at = "key", ![l].now = clock, ![l].ticket = t]
  BY DEF validate_ticket
<1>2. /\ login[l].at = "new" /\ keyLock' = Append(keyLock, l)
      /\ UNCHANGED <<clock, endpoint, seen, next_gc, rotated_at, sweep, admitted, pubkey>>
  BY DEF validate_ticket, LockQueue, shared
<1>u. PICK u : u = [[[login[l] EXCEPT !.at = "key"] EXCEPT !.now = clock] EXCEPT !.ticket = t]
  OBVIOUS
<1>5. login' = [login EXCEPT ![l] = u]
  BY <1>1, <1>u
<1>3. login[l] \in LoginStates /\ "key" \in Places
  BY DEF AuthInv, AuthTyped, Places
<1>4. /\ u \in LoginStates /\ u.at = "key" /\ u.now = clock /\ u.ticket = t
      /\ u.force = login[l].force /\ u.got = login[l].got /\ u.reply = login[l].reply
  BY <1>u, <1>0, <1>3 DEF LoginStates
<1>6. login' \in [Logins -> LoginStates] /\ login'[l] = u /\ \A m \in Logins \ {l} : login'[m] = login[m]
  BY <1>4, <1>5, OthersStay DEF AuthInv, AuthTyped
<1>7. ~InQueue(l, keyLock) /\ OnceEach(keyLock) /\ keyLock \in Seq(Logins)
  BY <1>2 DEF AuthInv, QueueAgrees, AuthTyped
<1>8. /\ keyLock' \in Seq(Logins) /\ OnceEach(keyLock') /\ keyLock' # <<>>
      /\ \A m : InQueue(m, keyLock') <=> InQueue(m, keyLock) \/ m = l
      /\ keyLock # <<>> => Head(keyLock') = Head(keyLock)
  BY <1>2, <1>7, Joins
<1>9. AuthTyped'
  BY <1>2, <1>4, <1>6, <1>8 DEF AuthInv, AuthTyped
<1>10. QueueAgrees'
  BY <1>4, <1>6, <1>8 DEF AuthInv, QueueAgrees, Holds
<1>11. KeysAgree'
  <2>1. clock <= clock
    BY SMTT(30), <1>0
  <2>2. \A r : KeysOf(r) => KeysOf(r)'
    BY <1>2 DEF KeysOf, Recent
  <2>3. KeysOf(u)'
    BY <1>2, <1>4, <2>1 DEF AuthInv, KeysAgree, KeysOf, Recent
  <2> QED
    BY <1>2, <1>6, <2>2, <2>3 DEF AuthInv, KeysAgree, Recent
<1>12. FreshEnough'
  BY <1>4, <1>6 DEF AuthInv, FreshEnough
<1>13. SeenAgrees'
  BY <1>2 DEF AuthInv, SeenAgrees, AdmittedOnce
<1> QED
  BY <1>9, <1>10, <1>11, <1>12, <1>13 DEF AuthInv

\* The holder of the mutex takes the cached key.
LEMMA CachedStep ==
    ASSUME AuthInv, NEW l \in Logins, CachedKey(l)
    PROVE  AuthInv'
<1>1. /\ login[l].at = "key" /\ Holds(l) /\ Usable(l) /\ keyLock' = Tail(keyLock)
      /\ login' = [login EXCEPT ![l].at = "verify", ![l].got = pubkey]
      /\ UNCHANGED <<clock, endpoint, seen, next_gc, rotated_at, sweep, admitted, pubkey>>
  BY DEF CachedKey, Unlock, shared
<1>u. PICK u : u = [[login[l] EXCEPT !.at = "verify"] EXCEPT !.got = pubkey]
  OBVIOUS
<1>4. login' = [login EXCEPT ![l] = u]
  BY <1>1, <1>u
<1>2. login[l] \in LoginStates /\ "verify" \in Places /\ pubkey \in Keys
  BY DEF AuthInv, AuthTyped, Places
<1>3. /\ u \in LoginStates /\ u.at = "verify" /\ u.got = pubkey /\ u.now = login[l].now
      /\ u.ticket = login[l].ticket /\ u.force = login[l].force /\ u.reply = login[l].reply
  BY <1>u, <1>2 DEF LoginStates
<1>5. login' \in [Logins -> LoginStates] /\ login'[l] = u /\ \A m \in Logins \ {l} : login'[m] = login[m]
  BY <1>3, <1>4, OthersStay DEF AuthInv, AuthTyped
<1>6. keyLock # <<>> /\ Head(keyLock) = l /\ OnceEach(keyLock) /\ keyLock \in Seq(Logins)
  BY <1>1 DEF AuthInv, QueueAgrees, AuthTyped, Holds
<1>7. /\ keyLock' \in Seq(Logins) /\ OnceEach(keyLock')
      /\ \A m : InQueue(m, keyLock') <=> InQueue(m, keyLock) /\ m # l
  BY <1>1, <1>6, Leaves
<1>8. \A m \in Logins : login[m].at # "fetch"
  BY <1>1, <1>6 DEF AuthInv, QueueAgrees, Holds
<1>9. AuthTyped'
  BY <1>1, <1>3, <1>5, <1>7 DEF AuthInv, AuthTyped
<1>10. QueueAgrees'
  BY <1>3, <1>5, <1>7, <1>8 DEF AuthInv, QueueAgrees
<1>11. KeysAgree'
  <2>1. \A r : KeysOf(r) => KeysOf(r)'
    BY <1>1 DEF KeysOf, Recent
  <2>2. KeysOf(u)'
    BY <1>1, <1>3 DEF AuthInv, KeysAgree, KeysOf, Recent
  <2> QED
    BY <1>1, <1>5, <2>1, <2>2 DEF AuthInv, KeysAgree, Recent
<1>12. login[l].force => login[l].now <= pubkey.fetched_at + PUBKEY_MAX_AGE
  <2>1. /\ clock \in Nat /\ pubkey.fetched_at \in Nat /\ login[l].now \in Nat
        /\ login[l].now <= clock
    <3>1. clock \in Nat /\ pubkey.fetched_at \in Nat
      BY SMTT(30), TicketsAssumption DEF AuthInv, AuthTyped, Keys
    <3>2. login[l].now \in Nat
      BY DEF AuthInv, AuthTyped, LoginStates
    <3> QED
      BY <3>1, <3>2 DEF AuthInv, KeysAgree, KeysOf
  <2>2. login[l].force => ~(clock - pubkey.fetched_at > PUBKEY_MAX_AGE)
    BY <1>1 DEF Usable
  <2> QED
    BY <2>1, <2>2, NotTooOld
<1>13. FreshEnough'
  BY <1>3, <1>5, <1>12 DEF AuthInv, FreshEnough
<1>14. SeenAgrees'
  BY <1>1 DEF AuthInv, SeenAgrees, AdmittedOnce
<1> QED
  BY <1>9, <1>10, <1>11, <1>13, <1>14 DEF AuthInv

\* The holder asks the endpoint.
LEMMA FetchStep ==
    ASSUME AuthInv, NEW l \in Logins, fetch_pubkey(l)
    PROVE  AuthInv'
<1>1. /\ login[l].at = "key" /\ Holds(l) /\ login' = [login EXCEPT ![l].at = "fetch", ![l].reply = endpoint]
      /\ UNCHANGED <<clock, endpoint, seen, next_gc, rotated_at, sweep, admitted, pubkey, keyLock>>
  BY DEF fetch_pubkey, shared
<1>0. endpoint \in Nat
  BY SMTT(30), TicketsAssumption DEF AuthInv, AuthTyped
<1>u. PICK u : u = [[login[l] EXCEPT !.at = "fetch"] EXCEPT !.reply = endpoint]
  OBVIOUS
<1>4. login' = [login EXCEPT ![l] = u]
  BY <1>1, <1>u
<1>2. login[l] \in LoginStates /\ "fetch" \in Places
  BY DEF AuthInv, AuthTyped, Places
<1>3. /\ u \in LoginStates /\ u.at = "fetch" /\ u.reply = endpoint /\ u.now = login[l].now
      /\ u.ticket = login[l].ticket /\ u.force = login[l].force /\ u.got = login[l].got
  BY <1>u, <1>0, <1>2 DEF LoginStates
<1>5. login' \in [Logins -> LoginStates] /\ login'[l] = u /\ \A m \in Logins \ {l} : login'[m] = login[m]
  BY <1>3, <1>4, OthersStay DEF AuthInv, AuthTyped
<1>6. AuthTyped'
  BY <1>1, <1>3, <1>5 DEF AuthInv, AuthTyped
<1>7. QueueAgrees'
  BY <1>1, <1>3, <1>5 DEF AuthInv, QueueAgrees, Holds
<1>8. KeysAgree'
  <2>1. endpoint <= endpoint
    BY SMTT(30), <1>0
  <2>2. \A r : KeysOf(r) => KeysOf(r)'
    BY <1>1 DEF KeysOf, Recent
  <2>3. KeysOf(u)'
    BY <1>1, <1>3, <2>1 DEF AuthInv, KeysAgree, KeysOf, Recent
  <2> QED
    BY <1>1, <1>5, <2>2, <2>3 DEF AuthInv, KeysAgree, Recent
<1>9. FreshEnough'
  BY <1>3, <1>5 DEF AuthInv, FreshEnough
<1>10. SeenAgrees'
  BY <1>1 DEF AuthInv, SeenAgrees, AdmittedOnce
<1> QED
  BY <1>6, <1>7, <1>8, <1>9, <1>10 DEF AuthInv

\* The answer of the endpoint is stored.
LEMMA StoreStep ==
    ASSUME AuthInv, NEW l \in Logins, StoreKey(l)
    PROVE  AuthInv'
<1>k. PICK k : k = [key |-> login[l].reply, fetched_at |-> clock]
  OBVIOUS
<1>1. /\ login[l].at = "fetch" /\ keyLock' = Tail(keyLock) /\ pubkey' = k
      /\ login' = [login EXCEPT ![l].at = "verify", ![l].got = k]
      /\ UNCHANGED <<clock, endpoint, seen, next_gc, rotated_at, sweep, admitted>>
  BY <1>k DEF StoreKey, Unlock, shared
<1>0. /\ clock \in Nat /\ endpoint \in Nat /\ rotated_at \in Nat /\ login[l].reply \in Nat /\ login[l].now \in Nat
      /\ login[l].now <= clock
  <2>1. clock \in Nat /\ endpoint \in Nat /\ rotated_at \in Nat
    BY SMTT(30), TicketsAssumption DEF AuthInv, AuthTyped
  <2>2. login[l].reply \in Nat /\ login[l].now \in Nat
    BY DEF AuthInv, AuthTyped, LoginStates
  <2> QED
    BY <2>1, <2>2 DEF AuthInv, KeysAgree, KeysOf
<1>2. k \in Keys /\ k.key = login[l].reply /\ k.fetched_at = clock
  BY SMTT(30), <1>0, <1>k DEF Keys
<1>u. PICK u : u = [[login[l] EXCEPT !.at = "verify"] EXCEPT !.got = k]
  OBVIOUS
<1>3. login' = [login EXCEPT ![l] = u]
  BY <1>1, <1>u
<1>4. login[l] \in LoginStates /\ "verify" \in Places
  BY DEF AuthInv, AuthTyped, Places
<1>5. /\ u \in LoginStates /\ u.at = "verify" /\ u.got = k /\ u.now = login[l].now
      /\ u.ticket = login[l].ticket /\ u.force = login[l].force /\ u.reply = login[l].reply
  BY <1>u, <1>2, <1>4 DEF LoginStates
<1>6. login' \in [Logins -> LoginStates] /\ login'[l] = u /\ \A m \in Logins \ {l} : login'[m] = login[m]
  BY <1>3, <1>5, OthersStay DEF AuthInv, AuthTyped
<1>7. keyLock # <<>> /\ Head(keyLock) = l /\ OnceEach(keyLock) /\ keyLock \in Seq(Logins)
  BY <1>1 DEF AuthInv, QueueAgrees, AuthTyped, Holds
<1>8. /\ keyLock' \in Seq(Logins) /\ OnceEach(keyLock')
      /\ \A m : InQueue(m, keyLock') <=> InQueue(m, keyLock) /\ m # l
  BY <1>1, <1>7, Leaves
<1>9. \A m \in Logins \ {l} : login[m].at # "fetch"
  BY <1>7 DEF AuthInv, QueueAgrees, Holds
<1>10. AuthTyped'
  BY <1>1, <1>2, <1>5, <1>6, <1>8 DEF AuthInv, AuthTyped
<1>11. QueueAgrees'
  BY <1>1, <1>5, <1>6, <1>8, <1>9 DEF AuthInv, QueueAgrees
<1>12. KeysAgree'
  <2>1. Recent(k)
    BY SMTT(30), <1>0, <1>1, <1>2 DEF AuthInv, KeysAgree, KeysOf, Recent
  <2>2. \A r : Recent(r) => Recent(r)'
    BY <1>1 DEF Recent
  <2>3. KeysOf(u)'
    BY <1>0, <1>1, <1>5, <2>1, <2>2 DEF KeysOf
  <2>4. \A m \in Logins \ {l} : KeysOf(login[m])'
    BY <1>1, <1>6, <1>9, <2>2 DEF AuthInv, KeysAgree, KeysOf, Recent
  <2> QED
    BY <1>1, <1>2, <1>6, <2>1, <2>2, <2>3, <2>4 DEF AuthInv, KeysAgree, KeysOf, Recent
<1>13. login[l].now <= k.fetched_at + PUBKEY_MAX_AGE
  BY SMTT(30), <1>0, <1>2 DEF PUBKEY_MAX_AGE
<1>14. FreshEnough'
  BY <1>5, <1>6, <1>13 DEF AuthInv, FreshEnough
<1>15. SeenAgrees'
  BY <1>1 DEF AuthInv, SeenAgrees, AdmittedOnce
<1> QED
  BY <1>10, <1>11, <1>12, <1>14, <1>15 DEF AuthInv

\* The fetch fails: the mutex is released and the cached key stays.
LEMMA FetchFailsStep ==
    ASSUME AuthInv, NEW l \in Logins, FetchFails(l)
    PROVE  AuthInv'
<1>1. /\ login[l].at = "fetch" /\ keyLock' = Tail(keyLock)
      /\ login' = [login EXCEPT ![l].at = "PubkeyFetch"]
      /\ UNCHANGED <<clock, endpoint, seen, next_gc, rotated_at, sweep, admitted, pubkey>>
  BY DEF FetchFails, Unlock, shared
<1>u. PICK u : u = [login[l] EXCEPT !.at = "PubkeyFetch"]
  OBVIOUS
<1>2. login' = [login EXCEPT ![l] = u]
  BY <1>1, <1>u
<1>3. login[l] \in LoginStates /\ "PubkeyFetch" \in Places
  BY DEF AuthInv, AuthTyped, Places, Refusals
<1>4. /\ u \in LoginStates /\ u.at = "PubkeyFetch" /\ u.got = login[l].got /\ u.now = login[l].now
      /\ u.ticket = login[l].ticket /\ u.force = login[l].force /\ u.reply = login[l].reply
  BY <1>u, <1>3 DEF LoginStates
<1>5. login' \in [Logins -> LoginStates] /\ login'[l] = u /\ \A m \in Logins \ {l} : login'[m] = login[m]
  BY <1>2, <1>4, OthersStay DEF AuthInv, AuthTyped
<1>6. keyLock # <<>> /\ Head(keyLock) = l /\ OnceEach(keyLock) /\ keyLock \in Seq(Logins)
  BY <1>1 DEF AuthInv, QueueAgrees, AuthTyped, Holds
<1>7. /\ keyLock' \in Seq(Logins) /\ OnceEach(keyLock')
      /\ \A m : InQueue(m, keyLock') <=> InQueue(m, keyLock) /\ m # l
  BY <1>1, <1>6, Leaves
<1>8. \A m \in Logins \ {l} : login[m].at # "fetch"
  BY <1>6 DEF AuthInv, QueueAgrees, Holds
<1>9. AuthTyped'
  BY <1>1, <1>4, <1>5, <1>7 DEF AuthInv, AuthTyped
<1>10. QueueAgrees'
  BY <1>1, <1>4, <1>5, <1>7, <1>8 DEF AuthInv, QueueAgrees
<1>11. KeysAgree'
  <2>1. \A r : KeysOf(r) => KeysOf(r)'
    BY <1>1 DEF KeysOf, Recent
  <2>2. KeysOf(u)
    BY <1>4 DEF AuthInv, KeysAgree, KeysOf
  <2> QED
    BY <1>1, <1>5, <2>1, <2>2 DEF AuthInv, KeysAgree, Recent
<1>12. FreshEnough'
  BY <1>4, <1>5 DEF AuthInv, FreshEnough
<1>13. SeenAgrees'
  BY <1>1 DEF AuthInv, SeenAgrees, AdmittedOnce
<1> QED
  BY <1>9, <1>10, <1>11, <1>12, <1>13 DEF AuthInv

\* The checks of a ticket: their end, or the queue again with a refresh asked.
LEMMA VerifyStep ==
    ASSUME AuthInv, NEW l \in Logins, verify_with_key_refresh(l)
    PROVE  AuthInv'
<1>o. PICK result : result = parse_and_verify(l)
  OBVIOUS
<1>f. PICK again \in BOOLEAN : again = (result = "InvalidSignature" /\ ~login[l].force)
  OBVIOUS
<1>1. /\ login[l].at = "verify" /\ keyLock' = IF again THEN Append(keyLock, l) ELSE keyLock
      /\ login' = [login EXCEPT ![l].at = IF again THEN "key" ELSE result, ![l].force = @ \/ again]
      /\ UNCHANGED <<clock, endpoint, seen, next_gc, rotated_at, sweep, admitted, pubkey>>
  BY <1>o, <1>f DEF verify_with_key_refresh, LockQueue, shared
<1>2. /\ result \in {"MalformedTicket", "TicketExpired", "GuidMismatch", "InvalidSignature", "verified"}
      /\ result = "InvalidSignature" => login[l].ticket.key # login[l].got.key
  BY SMTT(30), <1>o DEF parse_and_verify
<1>p. PICK p : p = IF again THEN "key" ELSE result
  OBVIOUS
<1>u. PICK u : u = [[login[l] EXCEPT !.at = p] EXCEPT !.force = login[l].force \/ again]
  OBVIOUS
<1>3. login' = [login EXCEPT ![l] = u]
  BY <1>1, <1>u, <1>p
<1>4. login[l] \in LoginStates /\ p \in Places /\ (login[l].force \/ again) \in BOOLEAN
  BY <1>2, <1>p DEF AuthInv, AuthTyped, Places, Refusals
<1>5. /\ u \in LoginStates /\ u.at = p /\ u.got = login[l].got /\ u.now = login[l].now
      /\ u.ticket = login[l].ticket /\ u.force = (login[l].force \/ again) /\ u.reply = login[l].reply
  BY <1>u, <1>4 DEF LoginStates
<1>6. login' \in [Logins -> LoginStates] /\ login'[l] = u /\ \A m \in Logins \ {l} : login'[m] = login[m]
  BY <1>3, <1>5, OthersStay DEF AuthInv, AuthTyped
<1>7. ~InQueue(l, keyLock) /\ OnceEach(keyLock) /\ keyLock \in Seq(Logins)
  BY <1>1 DEF AuthInv, QueueAgrees, AuthTyped
<1>8. /\ keyLock' \in Seq(Logins) /\ OnceEach(keyLock')
      /\ \A m : InQueue(m, keyLock') <=> InQueue(m, keyLock) \/ (again /\ m = l)
      /\ keyLock # <<>> => keyLock' # <<>> /\ Head(keyLock') = Head(keyLock)
  <2>1. CASE again
    BY <2>1, <1>1, <1>7, Joins
  <2>2. CASE ~again
    BY <2>2, <1>1, <1>7
  <2> QED
    BY <2>1, <2>2
<1>9. AuthTyped'
  BY <1>1, <1>5, <1>6, <1>8 DEF AuthInv, AuthTyped
<1>10. QueueAgrees'
  <2>1. p \in {"key", "fetch"} <=> again
    BY <1>2, <1>p
  <2>2. p # "fetch"
    BY <1>2, <1>p
  <2> QED
    BY <2>1, <2>2, <1>5, <1>6, <1>7, <1>8 DEF AuthInv, QueueAgrees, Holds
<1>11. KeysAgree'
  <2>1. \A r : KeysOf(r) => KeysOf(r)'
    BY <1>1 DEF KeysOf, Recent
  <2>2. KeysOf(u)
    BY <1>2, <1>p, <1>5 DEF AuthInv, KeysAgree, KeysOf
  <2> QED
    BY <1>1, <1>6, <2>1, <2>2 DEF AuthInv, KeysAgree, Recent
<1>12. FreshEnough'
  <2>1. p \in {"verify", "InvalidSignature"} => ~again /\ result = "InvalidSignature"
    BY <1>2, <1>p
  <2>2. p \in {"verify", "InvalidSignature"} => login[l].force /\ login[l].ticket.key # login[l].got.key
    BY <1>2, <1>f, <2>1
  <2>3. login[l].force => login[l].now <= login[l].got.fetched_at + PUBKEY_MAX_AGE
    BY <1>1 DEF AuthInv, FreshEnough
  <2> QED
    BY <2>2, <2>3, <1>5, <1>6 DEF AuthInv, FreshEnough
<1>13. SeenAgrees'
  BY <1>1 DEF AuthInv, SeenAgrees, AdmittedOnce
<1> QED
  BY <1>9, <1>10, <1>11, <1>12, <1>13 DEF AuthInv

\* The sweep when it is due, and the ticket remembered.
LEMMA ReuseStep ==
    ASSUME AuthInv, NEW l \in Logins, check_reuse(l)
    PROVE  AuthInv'
<1>i. PICK id : id = <<login[l].ticket.guid, login[l].ticket.expiry>>
  OBVIOUS
<1>f. PICK fresh \in BOOLEAN : fresh = (id \notin Swept)
  OBVIOUS
<1>p. PICK p : p = IF fresh THEN "admitted" ELSE "TicketReused"
  OBVIOUS
<1>1. /\ login[l].at = "verified" /\ seen' = Swept \cup {id}
      /\ next_gc' = IF Due THEN clock + GcInterval ELSE next_gc
      /\ sweep' = IF Due THEN sweep + 1 ELSE sweep
      /\ login' = [login EXCEPT ![l].at = p]
      /\ admitted' = IF fresh THEN Append(admitted, <<id, sweep'>>) ELSE admitted
      /\ UNCHANGED <<clock, endpoint, pubkey, keyLock, rotated_at>>
  BY <1>i, <1>f, <1>p DEF check_reuse, Remember
<1>u. PICK u : u = [login[l] EXCEPT !.at = p]
  OBVIOUS
<1>2. login' = [login EXCEPT ![l] = u]
  BY <1>1, <1>u
<1>3. login[l] \in LoginStates /\ p \in Places
  BY <1>p DEF AuthInv, AuthTyped, Places, Refusals
<1>4. /\ u \in LoginStates /\ u.at = p /\ u.got = login[l].got /\ u.now = login[l].now
      /\ u.ticket = login[l].ticket /\ u.force = login[l].force /\ u.reply = login[l].reply
  BY <1>u, <1>3 DEF LoginStates
<1>5. login' \in [Logins -> LoginStates] /\ login'[l] = u /\ \A m \in Logins \ {l} : login'[m] = login[m]
  BY <1>2, <1>4, OthersStay DEF AuthInv, AuthTyped
<1>6. p \notin {"new", "key", "fetch", "verify", "InvalidSignature"}
  BY <1>p
<1>7. /\ admitted \in Seq(Ids \X Nat) /\ sweep \in Nat /\ clock \in Nat /\ next_gc \in Nat
  <2>1. clock \in Nat
    BY SMTT(30), TicketsAssumption DEF AuthInv, AuthTyped
  <2> QED
    BY <2>1 DEF AuthInv, AuthTyped
<1>8. sweep' \in Nat /\ next_gc' \in Nat /\ sweep <= sweep' /\ (Due => sweep < sweep') /\ (~Due => sweep' = sweep)
  BY SMTT(30), <1>1, <1>7 DEF GcInterval
<1>9. login[l].ticket \in Offers
  BY <1>1 DEF AuthInv, AuthTyped
<1>10. <<id, sweep'>> \in Ids \X Nat
  BY <1>i, <1>8, <1>9 DEF Ids
<1>11. AuthTyped'
  <2>1. admitted' \in Seq(Ids \X Nat)
    <3>1. Append(admitted, <<id, sweep'>>) \in Seq(Ids \X Nat)
      BY SMTT(30), <1>7, <1>10
    <3> QED
      BY <3>1, <1>1, <1>7
  <2> QED
    BY <2>1, <1>1, <1>4, <1>5, <1>6, <1>8, <1>9 DEF AuthInv, AuthTyped
<1>12. QueueAgrees'
  BY <1>1, <1>4, <1>5, <1>6 DEF AuthInv, QueueAgrees, Holds
<1>13. KeysAgree'
  <2>1. \A r : KeysOf(r) => KeysOf(r)'
    BY <1>1 DEF KeysOf, Recent
  <2>2. KeysOf(u)
    BY <1>4, <1>6 DEF AuthInv, KeysAgree, KeysOf
  <2> QED
    BY <1>1, <1>5, <2>1, <2>2 DEF AuthInv, KeysAgree, Recent
<1>14. FreshEnough'
  BY <1>4, <1>5, <1>6 DEF AuthInv, FreshEnough
<1>15. SeenAgrees'
  <2> DEFINE n == Len(admitted)
  <2>1. /\ n \in Nat /\ Len(Append(admitted, <<id, sweep'>>)) = n + 1
        /\ Append(admitted, <<id, sweep'>>)[n + 1] = <<id, sweep'>>
        /\ \A i \in 1..n : Append(admitted, <<id, sweep'>>)[i] = admitted[i]
    BY SMTT(30), <1>7
  <2>2. \A i \in 1..n : admitted[i][2] \in Nat
    <3>1. \A i \in 1..n : admitted[i] \in Ids \X Nat
      BY SMTT(30), <1>7
    <3> QED
      BY <3>1
  <2>3. \A i \in 1..n : /\ admitted[i][2] <= sweep'
                        /\ admitted[i][2] = sweep' => ~Due /\ admitted[i][1] \in seen
    BY SMTT(30), <1>7, <1>8, <2>2 DEF AuthInv, SeenAgrees
  <2>4. \A i \in 1..n : admitted[i][2] = sweep' => admitted[i][1] \in Swept
    BY <2>3 DEF Swept
  <2>5. CASE ~fresh
    <3>1. admitted' = admitted
      BY <1>1, <2>5
    <3> QED
      BY <3>1, <1>1, <2>3, <2>4 DEF AuthInv, SeenAgrees, AdmittedOnce
  <2>6. CASE fresh
    <3>1. admitted' = Append(admitted, <<id, sweep'>>) /\ id \notin Swept
      BY <1>1, <1>f, <2>6
    <3>2. \A i \in 1..n : admitted[i] # <<id, sweep'>>
      <4> SUFFICES ASSUME NEW i \in 1..n, admitted[i] = <<id, sweep'>> PROVE FALSE
        OBVIOUS
      <4>0. IsPair(admitted[i], id, sweep')
        BY DEF IsPair
      <4>1. admitted[i][2] = sweep' /\ admitted[i][1] = id
        BY <4>0, Pairs
      <4> QED
        BY <4>1, <2>4, <3>1
    <3>3. AdmittedOnce'
      BY SMTT(30), <3>1, <3>2, <2>1 DEF AuthInv, SeenAgrees, AdmittedOnce
    <3>4. ASSUME NEW i \in 1..Len(admitted')
          PROVE  admitted'[i][2] <= sweep' /\ (admitted'[i][2] = sweep' => admitted'[i][1] \in seen')
      <4>1. CASE i \in 1..n
        BY <4>1, <3>1, <1>1, <2>1, <2>3, <2>4
      <4>2. CASE i = n + 1
        <5>1. admitted'[i] = <<id, sweep'>>
          BY <4>2, <3>1, <2>1
        <5>2. admitted'[i][2] = sweep' /\ admitted'[i][1] = id
          BY SMTT(30), <5>1
        <5>3. sweep' <= sweep'
          BY SMTT(30), <1>8
        <5> QED
          BY <5>2, <5>3, <1>1
      <4>3. i \in 1..n \/ i = n + 1
        BY SMTT(30), <3>4, <3>1, <2>1
      <4> QED
        BY <4>1, <4>2, <4>3
    <3> QED
      BY <3>3, <3>4 DEF SeenAgrees
  <2> QED
    BY <2>5, <2>6
<1> QED
  BY <1>11, <1>12, <1>13, <1>14, <1>15 DEF AuthInv

\* Every step of a login keeps the invariant, and so do the platform's.
LEMMA AuthStep == AuthInv /\ [AuthNext]_authVars => AuthInv'
  BY PlatformStep, ValidateStep, CachedStep, FetchStep, StoreStep, FetchFailsStep, VerifyStep, ReuseStep
     DEF AuthNext, Step

\* TicketsHonest, for any number of logins and any tickets: the mutex is held
\* by exactly one of the logins inside get_pubkey, a ticket is accepted once
\* between two sweeps, and a rotation is healed within the life of a key.
THEOREM TicketsAlwaysHonest == AuthSpec => []TicketsHonest
  BY AuthHonest, AuthStart, AuthStep, PTL DEF AuthSpec

\* KeyMonotone, for any number of logins: a key in the cache is never replaced
\* by one published before it, whatever answers were under way.
THEOREM KeysAlwaysMonotone == AuthSpec => KeyMonotone
<1>1. ASSUME AuthInv, [AuthNext]_authVars PROVE [pubkey'.key >= pubkey.key]_authVars
  <2>0. pubkey.key \in Nat /\ pubkey.key >= pubkey.key
    BY SMTT(30), <1>1 DEF AuthInv, AuthTyped, Keys
  <2>1. CASE UNCHANGED pubkey
    BY <2>0, <2>1
  <2>2. ASSUME NEW l \in Logins, StoreKey(l) PROVE pubkey'.key >= pubkey.key
    <3>1. login[l].at = "fetch" /\ pubkey' = [key |-> login[l].reply, fetched_at |-> clock]
      BY <2>2 DEF StoreKey
    <3>2. pubkey'.key = login[l].reply
      BY <3>1
    <3>3. pubkey.key <= login[l].reply /\ login[l].reply \in Nat
      BY <1>1, <3>1 DEF AuthInv, AuthTyped, LoginStates, KeysAgree, KeysOf
    <3> QED
      BY SMTT(30), <2>0, <3>2, <3>3
  <2>3. UNCHANGED pubkey \/ \E l \in Logins : StoreKey(l)
    BY <1>1 DEF AuthNext, authVars, Step, Tick, Rotate, validate_ticket, CachedKey, fetch_pubkey, FetchFails,
                verify_with_key_refresh, check_reuse
  <2> QED
    BY <2>1, <2>2, <2>3
<1> QED
  BY <1>1, AuthStart, AuthStep, PTL DEF AuthSpec, KeyMonotone

-----------------------------------------------------------------------------
(* Sessions. *)

\* The values of what a connect request works on.
ConTyped ==
    /\ conAt \in [Sources -> {"new", "firing", "resolving", "waiting", "accepted", "refused", "aborted"}]
    /\ entry \in [Sources -> [there : BOOLEAN, tx : BOOLEAN, deferred : BOOLEAN]]
    /\ outcome \in [Sources -> {"none", "ok", "reason"}]

\* The values of the peer tables.
PeersTyped ==
    /\ enet \in [Peers -> {"free", "up", "closing"}]
    /\ peer_sources \in [Peers -> Sources \cup {NoSource}]
    /\ source_peers \in [Sources -> Peers \cup {NoPeer}]

\* The values of the hosting arbiter.
HostingTyped ==
    /\ session_host \in Sources \cup {NoSource} /\ grant \in Sources \cup {NoSource}
    /\ told \in [Sources -> {"none", "wait", "go", "free", "conflict"}]

\* The values of what is kept per player.
PlayersTyped ==
    /\ directory \subseteq Sources /\ tokens \subseteq Sources /\ subs \subseteq Sources
    /\ knows \in [Sources -> SUBSET Sources]
    /\ fired \in [Sources -> Nat] /\ bucket \in [Sources -> {0, 1}]

\* The control queue is within its capacity.
QueueTyped == ctlQueue \in Seq(Sources) /\ Len(ctlQueue) <= ControlCapacity

\* An entry that can still send has sent nothing, and a request that has not come
\* in has none.
OutcomesAgree ==
    \A s \in Sources : /\ entry[s].tx \/ conAt[s] = "new" => outcome[s] = "none"
                       /\ conAt[s] = "new" => ~entry[s].there

\* A player in the directory has a token, and its connect request was accepted.
DirectoryHeld == directory = tokens /\ \A s \in directory : conAt[s] = "accepted"

\* A client that waits is on the list and has a peer.
WaitersHeld == WaitersQueued /\ \A s \in Sources : told[s] = "wait" => Connected(s)

\* Only scripts take a player out of the first bucket.
BucketsHeld == \A s \in Sources : bucket[s] = 0 \/ s \in moved

\* No script moved a player, and nothing disturbed the peer tables.
Calm == moved = {} /\ rebound \cup removed = {}

\* While nothing was disturbed a client without a peer knows nobody.
StrangersHeld == Calm => \A s \in Sources : ~Connected(s) => knows[s] = {}

\* The inductive invariant.
SessInv ==
    /\ ConTyped /\ PeersTyped /\ HostingTyped /\ PlayersTyped /\ QueueTyped
    /\ OutcomesAgree /\ DirectoryHeld /\ TablesAgree /\ DroppedOnce
    /\ WaitersHeld /\ BucketsHeld /\ MutualKnowledge /\ StrangersHeld

\* The inductive invariant implies the property.
LEMMA SessHonest == SessInv => SessionsAgree
  BY DEF SessInv, SessionsAgree, SessTypeOK, ConTyped, PeersTyped, HostingTyped, PlayersTyped,
         QueueTyped, WaitersHeld

\* It holds when the server starts.
LEMMA SessStart == SessInit => SessInv
<1> SUFFICES ASSUME SessInit PROVE SessInv
  OBVIOUS
<1> USE DEF SessInit
<1>0. Early \subseteq Sources /\ NoSource \notin Sources /\ NoPeer \notin Peers /\ ControlCapacity \in Nat
  BY SessionAssumption
<1>1. ConTyped
  <2>1. NoEntry \in [there : BOOLEAN, tx : BOOLEAN, deferred : BOOLEAN]
    BY SMTT(30) DEF NoEntry
  <2> QED
    BY <2>1 DEF ConTyped
<1>2. PeersTyped /\ HostingTyped
  BY DEF PeersTyped, HostingTyped
<1>3. PlayersTyped
  <2>1. 0 \in Nat
    BY Counting
  <2> QED
    BY <1>0, <2>1 DEF PlayersTyped
<1>4. QueueTyped
  BY <1>0, SMTT(30) DEF QueueTyped
<1>5. OutcomesAgree
  <2>1. NoEntry.tx = FALSE /\ NoEntry.there = FALSE
    BY SMTT(30) DEF NoEntry
  <2>2. \A s \in Sources : ~entry[s].tx /\ ~entry[s].there
    BY <2>1
  <2> QED
    BY <2>2 DEF OutcomesAgree
<1>6. DirectoryHeld
  BY <1>0 DEF DirectoryHeld
<1>7. TablesAgree
  BY <1>0 DEF TablesAgree, Connected
<1>8. DroppedOnce
  BY DEF DroppedOnce
<1>9. WaitersHeld /\ BucketsHeld
  BY DEF WaitersHeld, WaitersQueued, BucketsHeld
<1>10. MutualKnowledge /\ StrangersHeld
  BY DEF MutualKnowledge, StrangersHeld, Connected
<1> QED
  BY <1>1, <1>2, <1>3, <1>4, <1>5, <1>6, <1>7, <1>8, <1>9, <1>10 DEF SessInv

\* What stays while the variables it is about do.
LEMMA TablesKept ==
  ASSUME TablesAgree, UNCHANGED <<peer_sources, source_peers, directory, tokens, rebound, removed>>
  PROVE  TablesAgree'
  BY DEF TablesAgree, Undisturbed, Connected

\* What stays while the variables it is about do.
LEMMA WaitersKept ==
  ASSUME WaitersHeld, UNCHANGED <<told, waiters, grant, source_peers>>
  PROVE  WaitersHeld'
  BY DEF WaitersHeld, WaitersQueued, Connected

\* What stays while the variables it is about do.
LEMMA KnowledgeKept ==
  ASSUME MutualKnowledge, StrangersHeld, UNCHANGED <<knows, source_peers, rebound, removed, moved>>
  PROVE  MutualKnowledge' /\ StrangersHeld'
  BY DEF MutualKnowledge, StrangersHeld, Connected, Calm

\* What stays while the variables it is about do.
LEMMA TypesKept ==
  ASSUME SessInv
  PROVE  /\ UNCHANGED <<conAt, entry, outcome>> => ConTyped' /\ OutcomesAgree'
         /\ UNCHANGED <<enet, peer_sources, source_peers>> => PeersTyped'
         /\ UNCHANGED <<session_host, grant, told>> => HostingTyped'
         /\ UNCHANGED <<directory, tokens, subs, knows, fired, bucket>> => PlayersTyped'
         /\ UNCHANGED ctlQueue => QueueTyped'
         /\ UNCHANGED <<bucket, moved>> => BucketsHeld'
         /\ UNCHANGED <<conAt, directory, tokens>> => DirectoryHeld'
         /\ UNCHANGED <<conAt, fired, directory, rebound, removed>> => DroppedOnce'
<1>1. UNCHANGED <<conAt, entry, outcome>> => ConTyped' /\ OutcomesAgree'
  BY DEF SessInv, ConTyped, OutcomesAgree
<1>2. UNCHANGED <<enet, peer_sources, source_peers>> => PeersTyped'
  BY DEF SessInv, PeersTyped
<1>3. UNCHANGED <<session_host, grant, told>> => HostingTyped'
  BY DEF SessInv, HostingTyped
<1>4. UNCHANGED <<directory, tokens, subs, knows, fired, bucket>> => PlayersTyped'
  BY DEF SessInv, PlayersTyped
<1>5. UNCHANGED ctlQueue => QueueTyped'
  BY DEF SessInv, QueueTyped
<1>6. UNCHANGED <<bucket, moved>> => BucketsHeld'
  BY DEF SessInv, BucketsHeld
<1>7. UNCHANGED <<conAt, directory, tokens>> => DirectoryHeld'
  BY DEF SessInv, DirectoryHeld
<1>8. UNCHANGED <<conAt, fired, directory, rebound, removed>> => DroppedOnce'
  BY DEF SessInv, DroppedOnce, Undisturbed
<1> QED
  BY <1>1, <1>2, <1>3, <1>4, <1>5, <1>6, <1>7, <1>8

\* A connect request goes on without being accepted.
LEMMA ConStep ==
  ASSUME SessInv, ConTyped', OutcomesAgree', UNCHANGED udpVars,
         \A s \in Sources : conAt'[s] = "accepted" <=> conAt[s] = "accepted"
  PROVE  SessInv'
<1>1. UNCHANGED <<directory, tokens, enet, peer_sources, source_peers, session_host, grant, waiters,
                  told, subs, ctlQueue, bucket, knows, fired, rebound, removed, moved>>
  BY DEF udpVars, tableVars, hostVars, ghostVars
<1>2. PeersTyped' /\ HostingTyped' /\ PlayersTyped' /\ QueueTyped' /\ BucketsHeld'
  BY <1>1, TypesKept
<1>3. TablesAgree' /\ WaitersHeld' /\ MutualKnowledge' /\ StrangersHeld'
  BY <1>1, TablesKept, WaitersKept, KnowledgeKept DEF SessInv
<1>4. DirectoryHeld'
  BY <1>1 DEF SessInv, DirectoryHeld, PlayersTyped
<1>5. DroppedOnce'
  BY <1>1 DEF SessInv, DroppedOnce, Undisturbed
<1> QED
  BY <1>2, <1>3, <1>4, <1>5 DEF SessInv

\* The values of an entry.
Entries == [there : BOOLEAN, tx : BOOLEAN, deferred : BOOLEAN]

\* An entry is changed.
LEMMA EntryOf ==
  ASSUME NEW e \in Entries
  PROVE  /\ [e EXCEPT !.tx = FALSE] \in Entries /\ ~[e EXCEPT !.tx = FALSE].tx
         /\ [e EXCEPT !.tx = FALSE].there = e.there
         /\ [e EXCEPT !.deferred = TRUE] \in Entries /\ [e EXCEPT !.deferred = TRUE].tx = e.tx
         /\ [e EXCEPT !.deferred = TRUE].there = e.there
         /\ NoEntry \in Entries /\ ~NoEntry.tx /\ ~NoEntry.there
         /\ NewEntry \in Entries
<1>1. [e EXCEPT !.tx = FALSE] \in Entries /\ [e EXCEPT !.tx = FALSE].tx = FALSE
      /\ [e EXCEPT !.tx = FALSE].there = e.there
  BY DEF Entries
<1>2. [e EXCEPT !.deferred = TRUE] \in Entries /\ [e EXCEPT !.deferred = TRUE].tx = e.tx
      /\ [e EXCEPT !.deferred = TRUE].there = e.there
  BY DEF Entries
<1>3. NoEntry \in Entries /\ NoEntry.tx = FALSE /\ NoEntry.there = FALSE /\ NewEntry \in Entries
  BY SMTT(30) DEF NoEntry, NewEntry, Entries
<1> QED
  BY <1>1, <1>2, <1>3

\* The request of s has come in; only its own place changes, if any.
Asks(s) ==
    /\ conAt[s] # "new" /\ conAt'[s] # "new" /\ \A x \in Sources : x # s => conAt'[x] = conAt[x]
    /\ conAt' \in [Sources -> {"new", "firing", "resolving", "waiting", "accepted", "refused", "aborted"}]

\* Only the first done() sends, and what was sent stands.
LEMMA SendStep ==
  ASSUME ConTyped, OutcomesAgree, NEW s \in Sources, NEW result \in {"ok", "reason"},
         SendOutcome(s, result), Asks(s)
  PROVE  /\ ConTyped' /\ OutcomesAgree'
         /\ \A x \in Sources : outcome[x] # "none" => outcome'[x] = outcome[x]
<1> USE DEF ConTyped
<1>1. PICK e : e = [entry[s] EXCEPT !.tx = FALSE]
  OBVIOUS
<1>2. entry[s] \in Entries /\ entry \in [Sources -> Entries]
  BY DEF Entries
<1>3. e \in Entries /\ ~e.tx /\ e.there = entry[s].there
  BY <1>1, <1>2, EntryOf
<1>4. entry' = [entry EXCEPT ![s] = e]
  BY <1>1 DEF SendOutcome
<1>5. entry' \in [Sources -> Entries] /\ entry'[s] = e
      /\ \A x \in Sources : x # s => entry'[x] = entry[x]
  BY <1>2, <1>3, <1>4
<1>6. /\ outcome' \in [Sources -> {"none", "ok", "reason"}]
      /\ \A x \in Sources : x # s => outcome'[x] = outcome[x]
  BY DEF SendOutcome
<1>7. conAt' \in [Sources -> {"new", "firing", "resolving", "waiting", "accepted", "refused", "aborted"}]
      /\ conAt'[s] # "new" /\ \A x \in Sources : x # s => conAt'[x] = conAt[x]
  BY DEF Asks
<1>8. OutcomesAgree'
  BY <1>3, <1>5, <1>6, <1>7 DEF OutcomesAgree
<1>9. outcome[s] # "none" => outcome' = outcome
  BY DEF SendOutcome, OutcomesAgree
<1> QED
  BY <1>5, <1>6, <1>7, <1>8, <1>9 DEF Entries

\* A step of a connect request, up to its answer.
LEMMA ConnectStep ==
  ASSUME SessInv, NEW s \in Sources,
         InitConnect(s) \/ Defer(s) \/ Done(s) \/ HandlersRan(s) \/ ResolveIfNotDeferred(s)
           \/ ConnectAborted(s)
  PROVE  SessInv' /\ \A x \in Sources : outcome[x] # "none" => outcome'[x] = outcome[x]
<1>0. ConTyped /\ OutcomesAgree /\ entry \in [Sources -> Entries] /\ entry[s] \in Entries
  BY DEF SessInv, ConTyped, Entries
<1>1. CASE InitConnect(s)
  <2>1. /\ UNCHANGED <<outcome, udpVars>> /\ conAt[s] = "new"
        /\ conAt' \in [Sources -> {"new", "firing", "resolving", "waiting", "accepted", "refused", "aborted"}]
        /\ conAt'[s] \notin {"new", "accepted"} /\ \A x \in Sources : x # s => conAt'[x] = conAt[x]
    BY <1>0, <1>1 DEF InitConnect, ConTyped
  <2>2. entry' \in [Sources -> Entries] /\ \A x \in Sources : x # s => entry'[x] = entry[x]
    BY <1>0, <1>1, EntryOf DEF InitConnect
  <2>3. ConTyped'
    BY <1>0, <2>1, <2>2 DEF Entries, ConTyped
  <2>4. OutcomesAgree'
    BY <1>0, <2>1, <2>2 DEF OutcomesAgree
  <2> QED
    BY <2>1, <2>3, <2>4, ConStep
<1>2. CASE Defer(s)
  <2>1. PICK e : e = [entry[s] EXCEPT !.deferred = TRUE]
    OBVIOUS
  <2>2. e \in Entries /\ e.tx = entry[s].tx /\ e.there = entry[s].there
    BY <1>0, <2>1, EntryOf
  <2>3. entry' = [entry EXCEPT ![s] = e] /\ UNCHANGED <<conAt, outcome, udpVars>>
    BY <1>2, <2>1 DEF Defer
  <2>4. entry' \in [Sources -> Entries] /\ entry'[s] = e /\ \A x \in Sources : x # s => entry'[x] = entry[x]
    BY <1>0, <2>2, <2>3
  <2>5. ConTyped' /\ OutcomesAgree'
    BY <1>0, <2>2, <2>3, <2>4 DEF Entries, OutcomesAgree, ConTyped
  <2> QED
    BY <2>3, <2>5, ConStep
<1>3. CASE Done(s)
  <2>1. PICK result \in {"ok", "reason"} : SendOutcome(s, result)
    BY <1>3 DEF Done
  <2>2. UNCHANGED <<conAt, udpVars>> /\ conAt[s] # "new"
    BY <1>0, <1>3 DEF Done, OutcomesAgree
  <2>3. Asks(s)
    BY <1>0, <2>2 DEF Asks, ConTyped
  <2>4. ConTyped' /\ OutcomesAgree' /\ \A x \in Sources : outcome[x] # "none" => outcome'[x] = outcome[x]
    BY <1>0, <2>1, <2>3, SendStep
  <2> QED
    BY <2>2, <2>4, ConStep
<1>4. CASE HandlersRan(s)
  <2>1. UNCHANGED <<entry, outcome, udpVars>> /\ conAt[s] = "firing"
    BY <1>4 DEF HandlersRan
  <2>2. PICK at \in {"resolving", "waiting"} : conAt' = [conAt EXCEPT ![s] = at]
    BY <1>4 DEF HandlersRan
  <2>3. /\ conAt' \in [Sources -> {"new", "firing", "resolving", "waiting", "accepted", "refused", "aborted"}]
        /\ conAt'[s] \notin {"new", "accepted"} /\ \A x \in Sources : x # s => conAt'[x] = conAt[x]
    BY <1>0, <2>2 DEF ConTyped
  <2>4. ConTyped' /\ OutcomesAgree'
    BY <1>0, <2>1, <2>3 DEF OutcomesAgree, ConTyped
  <2> QED
    BY <2>1, <2>3, <2>4, ConStep
<1>5. CASE ResolveIfNotDeferred(s)
  <2>1. UNCHANGED udpVars /\ conAt[s] = "resolving" /\ conAt' = [conAt EXCEPT ![s] = "waiting"]
        /\ SendOutcome(s, "ok")
    BY <1>5 DEF ResolveIfNotDeferred
  <2>2. ConTyped' /\ OutcomesAgree' /\ \A x \in Sources : outcome[x] # "none" => outcome'[x] = outcome[x]
    <3>1. Asks(s)
      BY <1>0, <2>1 DEF Asks, ConTyped
    <3> QED
      BY <1>0, <2>1, <3>1, SendStep
  <2>3. \A x \in Sources : conAt'[x] = "accepted" <=> conAt[x] = "accepted"
    BY <1>0, <2>1 DEF ConTyped
  <2> QED
    BY <2>1, <2>2, <2>3, ConStep
<1>6. CASE ConnectAborted(s)
  <2>1. UNCHANGED <<entry, outcome, udpVars>> /\ conAt[s] \in {"firing", "waiting"}
        /\ conAt' = [conAt EXCEPT ![s] = "aborted"]
    BY <1>6 DEF ConnectAborted
  <2>2. /\ conAt' \in [Sources -> {"new", "firing", "resolving", "waiting", "accepted", "refused", "aborted"}]
        /\ conAt'[s] = "aborted" /\ \A x \in Sources : x # s => conAt'[x] = conAt[x]
    BY <1>0, <2>1 DEF ConTyped
  <2>3. ConTyped' /\ OutcomesAgree'
    BY <1>0, <2>1, <2>2 DEF OutcomesAgree, ConTyped
  <2> QED
    BY <2>1, <2>2, <2>3, ConStep
<1> QED
  BY <1>1, <1>2, <1>3, <1>4, <1>5, <1>6

\* The connect request is answered.
LEMMA EndsStep == ASSUME SessInv, NEW s \in Sources, ConnectEnds(s) PROVE SessInv' /\ UNCHANGED outcome
<1>0. ConTyped /\ OutcomesAgree /\ entry \in [Sources -> Entries] /\ entry[s] \in Entries
      /\ DirectoryHeld /\ PlayersTyped /\ TablesAgree /\ DroppedOnce
  BY DEF SessInv, ConTyped, Entries
<1>1. /\ conAt[s] = "waiting" /\ entry' = [entry EXCEPT ![s] = NoEntry]
      /\ UNCHANGED <<outcome, enet, peer_sources, source_peers, session_host, grant, waiters, told,
                     subs, ctlQueue, bucket, knows, fired, rebound, removed, moved>>
  BY DEF ConnectEnds, tableVars, hostVars, ghostVars
<1>2. /\ conAt' \in [Sources -> {"new", "firing", "resolving", "waiting", "accepted", "refused", "aborted"}]
      /\ conAt'[s] \in {"accepted", "refused"} /\ \A x \in Sources : x # s => conAt'[x] = conAt[x]
  BY <1>0 DEF ConnectEnds, ConTyped
<1>3. /\ conAt'[s] = "accepted" => directory' = directory \cup {s} /\ tokens' = tokens \cup {s}
      /\ conAt'[s] = "refused" => directory' = directory /\ tokens' = tokens
  BY <1>0 DEF ConnectEnds, ConTyped
<1>4. /\ entry' \in [Sources -> Entries] /\ ~entry'[s].tx /\ ~entry'[s].there
      /\ \A x \in Sources : x # s => entry'[x] = entry[x]
  BY <1>0, <1>1, EntryOf
<1>5. ConTyped'
  BY <1>0, <1>1, <1>2, <1>4 DEF ConTyped, Entries
<1>6. OutcomesAgree'
  BY <1>0, <1>1, <1>2, <1>4 DEF OutcomesAgree
<1>7. PeersTyped' /\ HostingTyped' /\ QueueTyped' /\ BucketsHeld'
  BY <1>1, TypesKept
<1>8. PlayersTyped'
  BY <1>0, <1>1, <1>2, <1>3 DEF PlayersTyped
<1>9. s \notin directory
  BY <1>0, <1>1 DEF DirectoryHeld
<1>10. DirectoryHeld'
  BY <1>0, <1>2, <1>3, <1>9 DEF DirectoryHeld, PlayersTyped
<1>11. TablesAgree'
  <2>1. directory \subseteq directory' /\ directory' = tokens'
    BY <1>2, <1>3, <1>10 DEF DirectoryHeld
  <2> SUFFICES ASSUME NEW x \in Sources, Undisturbed(x)'
               PROVE /\ \A p \in Peers : peer_sources'[p] = x <=> source_peers'[x] = p
                     /\ source_peers'[x] # NoPeer => x \in directory'
    BY <2>1 DEF TablesAgree, Connected
  <2>2. Undisturbed(x)
    BY <1>1 DEF Undisturbed
  <2> QED
    BY <1>0, <1>1, <2>1, <2>2 DEF TablesAgree, Connected
<1>12. DroppedOnce'
  <2> SUFFICES ASSUME NEW x \in Sources, Undisturbed(x)'
               PROVE fired'[x] = IF conAt'[x] = "accepted" /\ x \notin directory' THEN 1 ELSE 0
    BY DEF DroppedOnce
  <2>1. Undisturbed(x)
    BY <1>1 DEF Undisturbed
  <2>2. fired'[x] = IF conAt[x] = "accepted" /\ x \notin directory THEN 1 ELSE 0
    BY <1>0, <1>1, <2>1 DEF DroppedOnce
  <2>3. (conAt[x] = "accepted" /\ x \notin directory) <=> (conAt'[x] = "accepted" /\ x \notin directory')
    BY <1>1, <1>2, <1>3
  <2> QED
    BY <2>2, <2>3
<1>13. WaitersHeld' /\ MutualKnowledge' /\ StrangersHeld'
  BY <1>1, WaitersKept, KnowledgeKept DEF SessInv
<1> QED
  BY <1>1, <1>5, <1>6, <1>7, <1>8, <1>10, <1>11, <1>12, <1>13 DEF SessInv

\* What the steps of the UDP task and of operators that bind and drop nobody change.
LEMMA AsideStep ==
  ASSUME SessInv, UNCHANGED <<conVars, directory, tokens, peer_sources, source_peers, fired, bucket,
                              knows, rebound, removed, moved>>,
         enet' \in [Peers -> {"free", "up", "closing"}], subs' \subseteq Sources,
         HostingTyped', WaitersHeld', QueueTyped'
  PROVE  SessInv' /\ UNCHANGED outcome
<1>1. UNCHANGED <<conAt, entry, outcome>>
  BY DEF conVars
<1>2. ConTyped' /\ OutcomesAgree' /\ BucketsHeld' /\ DirectoryHeld' /\ DroppedOnce'
  BY <1>1, TypesKept
<1>3. PeersTyped' /\ PlayersTyped'
  BY DEF SessInv, PeersTyped, PlayersTyped
<1>4. TablesAgree' /\ MutualKnowledge' /\ StrangersHeld'
  BY TablesKept, KnowledgeKept DEF SessInv
<1> QED
  BY <1>1, <1>2, <1>3, <1>4 DEF SessInv

\* A peer comes, or is sent away.
LEMMA EnetStep ==
  ASSUME SessInv, NEW p \in Peers, PeerConnects(p) \/ \E s \in Sources : HandshakeRefused(p, s)
  PROVE  SessInv' /\ UNCHANGED outcome
<1>1. /\ UNCHANGED <<conVars, directory, tokens, peer_sources, source_peers, session_host, grant,
                     waiters, told, subs, ctlQueue, bucket, knows, fired, rebound, removed, moved>>
      /\ enet' \in {[enet EXCEPT ![p] = "up"], [enet EXCEPT ![p] = "closing"]}
  BY DEF PeerConnects, HandshakeRefused, hostVars, ghostVars
<1>2. enet' \in [Peers -> {"free", "up", "closing"}]
  BY <1>1 DEF SessInv, PeersTyped
<1>3. HostingTyped' /\ QueueTyped' /\ WaitersHeld' /\ subs' \subseteq Sources
  BY <1>1, TypesKept, WaitersKept DEF SessInv, PlayersTyped
<1> QED
  BY <1>1, <1>2, <1>3, AsideStep

\* A command to drop a player is handled.
LEMMA DropStep == ASSUME SessInv, DropSource PROVE SessInv' /\ UNCHANGED outcome
<1>1. /\ UNCHANGED <<conVars, directory, tokens, peer_sources, source_peers, session_host, grant,
                     waiters, told, subs, bucket, knows, fired, rebound, removed, moved>>
      /\ ctlQueue # <<>> /\ ctlQueue' = Tail(ctlQueue)
  BY DEF DropSource, hostVars, ghostVars
<1>2. enet' \in [Peers -> {"free", "up", "closing"}]
  <2>1. PICK p : p = source_peers[Head(ctlQueue)]
    OBVIOUS
  <2>2. enet' = Closing(p)
    BY <2>1 DEF DropSource
  <2>3. p \in Peers \cup {NoPeer}
    <3>1. Head(ctlQueue) \in Sources
      BY <1>1, SMTT(30) DEF SessInv, QueueTyped
    <3> QED
      BY <2>1, <3>1 DEF SessInv, PeersTyped
  <2> QED
    BY <2>2, <2>3 DEF SessInv, PeersTyped, Closing
<1>3. QueueTyped'
  <2>1. ctlQueue \in Seq(Sources) /\ Len(ctlQueue) <= ControlCapacity /\ ControlCapacity \in Nat
    BY SessionAssumption DEF SessInv, QueueTyped
  <2> QED
    BY <1>1, <2>1, SMTT(30) DEF QueueTyped
<1>4. HostingTyped' /\ WaitersHeld' /\ subs' \subseteq Sources
  BY <1>1, TypesKept, WaitersKept DEF SessInv, PlayersTyped
<1> QED
  BY <1>1, <1>2, <1>3, <1>4, AsideStep

\* An operator kicks a player.
LEMMA KickStep == ASSUME SessInv, NEW s \in Sources, KickPlayer(s) PROVE SessInv' /\ UNCHANGED outcome
<1>1. UNCHANGED <<conVars, directory, tokens, enet, peer_sources, source_peers, session_host, grant,
                  waiters, told, subs, bucket, knows, fired, rebound, removed, moved>>
  BY DEF KickPlayer, hostVars, tableVars
<1>2. QueueTyped'
  <2>1. ctlQueue \in Seq(Sources) /\ Len(ctlQueue) <= ControlCapacity /\ ControlCapacity \in Nat
    BY SessionAssumption DEF SessInv, QueueTyped
  <2>2. CASE ctlQueue' = Append(ctlQueue, s) /\ Len(ctlQueue) < ControlCapacity
    BY <2>1, <2>2, SMTT(30) DEF QueueTyped
  <2>3. CASE ctlQueue' = ctlQueue
    BY <2>1, <2>3 DEF QueueTyped
  <2> QED
    BY <2>2, <2>3 DEF KickPlayer, CtlRoom
<1>3. HostingTyped' /\ WaitersHeld' /\ subs' \subseteq Sources /\ enet' \in [Peers -> {"free", "up", "closing"}]
  BY <1>1, TypesKept, WaitersKept DEF SessInv, PlayersTyped, PeersTyped
<1> QED
  BY <1>1, <1>2, <1>3, AsideStep

\* The overlay's subscribers change.
LEMMA OverlayStep ==
  ASSUME SessInv, DebugTick \/ \E p \in Peers, s \in Sources : OnDebugInfoToggle(p, s)
  PROVE  SessInv' /\ UNCHANGED outcome
<1>1. UNCHANGED <<conVars, directory, tokens, enet, peer_sources, source_peers, session_host, grant,
                  waiters, told, ctlQueue, bucket, knows, fired, rebound, removed, moved>>
  BY DEF DebugTick, OnDebugInfoToggle, restVars, hostVars, tableVars, ghostVars
<1>2. subs' \subseteq Sources
  BY DEF DebugTick, OnDebugInfoToggle, SessInv, PlayersTyped
<1>3. HostingTyped' /\ WaitersHeld' /\ QueueTyped' /\ enet' \in [Peers -> {"free", "up", "closing"}]
  BY <1>1, TypesKept, WaitersKept DEF SessInv, PeersTyped
<1> QED
  BY <1>1, <1>2, <1>3, AsideStep

\* The grant is released: everybody that waits is told.
LEMMA ReleaseStep == ASSUME SessInv, ReleaseHostingGrant PROVE SessInv' /\ UNCHANGED outcome
<1>1. /\ UNCHANGED <<conVars, directory, tokens, enet, peer_sources, source_peers, subs, session_host,
                     ctlQueue, bucket, knows, fired, rebound, removed, moved>>
      /\ grant' = NoSource
      /\ told' = [s \in Sources |-> IF s \in waiters /\ source_peers'[s] # NoPeer THEN "free" ELSE told[s]]
  BY DEF ReleaseHostingGrant, Released, restVars, tableVars, ghostVars
<1>2. HostingTyped'
  BY <1>1 DEF SessInv, HostingTyped
<1>3. \A s \in Sources : told'[s] # "wait"
  BY <1>1 DEF SessInv, WaitersHeld, WaitersQueued, Connected
<1>4. WaitersHeld'
  BY <1>3 DEF WaitersHeld, WaitersQueued
<1>5. QueueTyped' /\ subs' \subseteq Sources /\ enet' \in [Peers -> {"free", "up", "closing"}]
  BY <1>1, TypesKept DEF SessInv, PlayersTyped, PeersTyped
<1> QED
  BY <1>1, <1>2, <1>4, <1>5, AsideStep

\* A client claims to be the host, or asks for the grant.
LEMMA HostingStep ==
  ASSUME SessInv, NEW p \in Peers, NEW s \in Sources, OnIHost(p, s) \/ OnHostingSession(p, s)
  PROVE  SessInv' /\ UNCHANGED outcome
<1>1. UNCHANGED <<conVars, directory, tokens, enet, peer_sources, source_peers, subs,
                  ctlQueue, bucket, knows, fired, rebound, removed, moved>>
  BY DEF OnIHost, OnHostingSession, restVars, tableVars, ghostVars
<1>2. QueueTyped' /\ subs' \subseteq Sources /\ enet' \in [Peers -> {"free", "up", "closing"}]
  BY <1>1, TypesKept DEF SessInv, PlayersTyped, PeersTyped
<1>3. CASE OnIHost(p, s)
  <2>1. session_host' = s /\ UNCHANGED <<grant, waiters, told>>
    BY <1>3 DEF OnIHost
  <2>2. HostingTyped' /\ WaitersHeld'
    BY <1>1, <2>1, WaitersKept DEF SessInv, HostingTyped
  <2> QED
    BY <1>1, <1>2, <2>2, AsideStep
<1>4. CASE OnHostingSession(p, s)
  <2>1. PICK r \in {"conflict", "go", "wait"} :
          /\ told' = Send(told, s, r) /\ session_host' = session_host
          /\ grant' = grant \/ (grant = NoSource /\ grant' = s)
          /\ waiters \subseteq waiters'
          /\ r = "wait" => s \in waiters' /\ grant' # NoSource
    BY <1>4 DEF OnHostingSession
  <2>2. /\ told' \in [Sources -> {"none", "wait", "go", "free", "conflict"}]
        /\ \A x \in Sources : x # s => told'[x] = told[x]
        /\ told'[s] = told[s] \/ (told'[s] = r /\ Connected(s))
    BY <2>1 DEF Send, Connected, SessInv, HostingTyped
  <2>3. HostingTyped'
    BY <2>1, <2>2 DEF SessInv, HostingTyped
  <2>4. grant # NoSource => grant' # NoSource
    BY <2>1
  <2>5. WaitersHeld'
    <3> SUFFICES ASSUME NEW x \in Sources, told'[x] = "wait"
                 PROVE x \in waiters' /\ grant' # NoSource /\ Connected(x)
      BY <1>1 DEF WaitersHeld, WaitersQueued, Connected
    <3>1. CASE told[x] = "wait"
      BY <2>1, <2>4, <3>1 DEF SessInv, WaitersHeld, WaitersQueued
    <3>2. CASE told[x] # "wait"
      <4>1. x = s /\ r = "wait" /\ Connected(s)
        BY <2>2, <3>2
      <4> QED
        BY <2>1, <4>1
    <3> QED
      BY <3>1, <3>2
  <2> QED
    BY <1>1, <1>2, <2>3, <2>5, AsideStep
<1> QED
  BY <1>3, <1>4

\* The directory forgets a player ENet is not told about.
LEMMA RemoveStep == ASSUME SessInv, NEW s \in Sources, AdminDropPlayer(s) PROVE SessInv' /\ UNCHANGED outcome
<1>1. /\ UNCHANGED <<conAt, entry, outcome, enet, peer_sources, source_peers, session_host, grant,
                     waiters, told, subs, ctlQueue, bucket, knows, rebound, moved>>
      /\ directory' = directory \ {s} /\ tokens' = tokens \ {s} /\ removed' = removed \cup {s}
      /\ fired' = [fired EXCEPT ![s] = fired[s] + 1]
  BY DEF AdminDropPlayer, conVars, tableVars, hostVars
<1>2. ConTyped' /\ OutcomesAgree' /\ PeersTyped' /\ HostingTyped' /\ QueueTyped' /\ BucketsHeld'
  BY <1>1, TypesKept
<1>3. WaitersHeld'
  BY <1>1, WaitersKept DEF SessInv
<1>4. fired \in [Sources -> Nat] /\ DirectoryHeld /\ TablesAgree /\ DroppedOnce /\ PlayersTyped
  BY DEF SessInv, PlayersTyped
<1>5. fired' \in [Sources -> Nat] /\ \A x \in Sources : x # s => fired'[x] = fired[x]
  BY <1>1, <1>4, SMTT(30)
<1>6. PlayersTyped'
  BY <1>1, <1>4, <1>5 DEF PlayersTyped
<1>7. DirectoryHeld'
  BY <1>1, <1>4 DEF DirectoryHeld
<1>8. ASSUME NEW x \in Sources, Undisturbed(x)'
      PROVE  Undisturbed(x) /\ x # s /\ (x \in directory' <=> x \in directory) /\ (x \in tokens' <=> x \in tokens)
  BY <1>1, <1>8 DEF Undisturbed
<1>9. TablesAgree'
  BY <1>1, <1>4, <1>8 DEF TablesAgree, Connected
<1>10. DroppedOnce'
  BY <1>1, <1>4, <1>5, <1>8 DEF DroppedOnce
<1>11. ~Calm'
  BY <1>1 DEF Calm
<1>12. MutualKnowledge' /\ StrangersHeld'
  BY <1>11 DEF MutualKnowledge, StrangersHeld, Calm
<1> QED
  BY <1>1, <1>2, <1>3, <1>6, <1>7, <1>9, <1>10, <1>12 DEF SessInv

\* A script moves a player to another bucket.
LEMMA MovesStep == ASSUME SessInv, NEW s \in Sources, MovePlayer(s) PROVE SessInv' /\ UNCHANGED outcome
<1>1. /\ UNCHANGED <<conAt, entry, outcome, directory, tokens, enet, peer_sources, source_peers,
                     session_host, grant, waiters, told, subs, ctlQueue, knows, fired, rebound, removed>>
      /\ bucket' = [bucket EXCEPT ![s] = 1 - bucket[s]] /\ moved' = moved \cup {s}
  BY DEF MovePlayer, conVars, tableVars, hostVars
<1>2. /\ ConTyped' /\ OutcomesAgree' /\ PeersTyped' /\ HostingTyped' /\ QueueTyped' /\ DirectoryHeld'
      /\ DroppedOnce'
  BY <1>1, TypesKept
<1>3. WaitersHeld' /\ TablesAgree'
  BY <1>1, WaitersKept, TablesKept DEF SessInv
<1>4. bucket \in [Sources -> {0, 1}]
  BY DEF SessInv, PlayersTyped
<1>5. bucket' \in [Sources -> {0, 1}] /\ \A x \in Sources : x # s => bucket'[x] = bucket[x]
  BY <1>1, <1>4, SMTT(30)
<1>6. PlayersTyped' /\ BucketsHeld'
  BY <1>1, <1>5 DEF SessInv, PlayersTyped, BucketsHeld
<1>7. ~Calm'
  BY <1>1 DEF Calm
<1>8. MutualKnowledge' /\ StrangersHeld'
  BY <1>7 DEF MutualKnowledge, StrangersHeld, Calm
<1> QED
  BY <1>1, <1>2, <1>3, <1>6, <1>8 DEF SessInv

\* The players a table binds.
Bound(tab) == {x \in Sources : \E q \in Peers : tab[q] = x}

\* Players of one bucket are among those a table binds, and all of them while
\* nobody was moved.
LEMMA SharedBucket ==
  ASSUME BucketsHeld, NEW tab, tab \in [Peers -> Sources \cup {NoSource}], NEW s \in Sources
  PROVE  SameBucket(tab, s) \subseteq Bound(tab) /\ (moved = {} => SameBucket(tab, s) = Bound(tab))
<1>1. ASSUME NEW x \in SameBucket(tab, s) PROVE x \in Bound(tab)
  BY <1>1 DEF SameBucket, Bound
<1>2. ASSUME moved = {}, NEW x \in Bound(tab) PROVE x \in SameBucket(tab, s)
  <2>1. PICK q \in Peers : tab[q] = x /\ x \in Sources
    BY <1>2 DEF Bound
  <2>2. tab[q] # NoSource /\ bucket[tab[q]] = bucket[s]
    BY <1>2, <2>1, SessionAssumption DEF BucketsHeld
  <2> QED
    BY <2>1, <2>2 DEF SameBucket
<1> QED
  BY <1>1, <1>2

\* The two tables are inverse to each other.
BindsBack(tab, back) ==
    /\ back \in [Sources -> Peers \cup {NoPeer}]
    /\ \A x \in Sources : \A q \in Peers : tab[q] = x <=> back[x] = q

\* The players bound to a peer are the connected ones when the tables agree.
LEMMA BoundConnected ==
  ASSUME NEW tab, NEW back, BindsBack(tab, back)
  PROVE  Bound(tab) = {x \in Sources : back[x] # NoPeer}
<1>1. ASSUME NEW x \in Sources PROVE (\E q \in Peers : tab[q] = x) <=> back[x] # NoPeer
  <2>1. back[x] \in Peers \cup {NoPeer} /\ NoPeer \notin Peers
    BY SessionAssumption DEF BindsBack
  <2> QED
    BY <2>1 DEF BindsBack
<1> QED
  BY <1>1 DEF Bound

\* A peer presents the token of s.
LEMMA HandshakeStep ==
  ASSUME SessInv, NEW p \in Peers, NEW s \in Sources, Handshake(p, s)
  PROVE  SessInv' /\ UNCHANGED outcome
<1>0. /\ PeersTyped /\ PlayersTyped /\ TablesAgree /\ DirectoryHeld /\ DroppedOnce /\ WaitersHeld
      /\ BucketsHeld /\ MutualKnowledge /\ StrangersHeld
  BY DEF SessInv
<1>1. /\ UNCHANGED <<conAt, entry, outcome, directory, tokens, enet, session_host, grant, waiters, told,
                     subs, ctlQueue, bucket, fired, removed, moved>>
      /\ s \in tokens /\ peer_sources' = [peer_sources EXCEPT ![p] = s]
      /\ source_peers' = [source_peers EXCEPT ![s] = p]
  BY DEF Handshake, conVars, hostVars
<1>2. /\ peer_sources' \in [Peers -> Sources \cup {NoSource}] /\ peer_sources'[p] = s
      /\ \A q \in Peers : q # p => peer_sources'[q] = peer_sources[q]
      /\ source_peers' \in [Sources -> Peers \cup {NoPeer}] /\ source_peers'[s] = p
      /\ \A x \in Sources : x # s => source_peers'[x] = source_peers[x]
  BY <1>0, <1>1 DEF PeersTyped
<1>3. /\ rebound \subseteq rebound'
      /\ s \notin rebound' => ~Connected(s)
      /\ \A x \in Sources : x # s /\ peer_sources[p] = x => x \in rebound'
      /\ s \notin rebound' => peer_sources[p] \in {NoSource, s}
  BY SessionAssumption DEF Handshake
<1>4. ASSUME NEW x, Undisturbed(x)' PROVE Undisturbed(x)
  BY <1>1, <1>3, <1>4 DEF Undisturbed
<1>5. TablesAgree'
  <2> SUFFICES ASSUME NEW x \in Sources, Undisturbed(x)'
               PROVE /\ \A q \in Peers : peer_sources'[q] = x <=> source_peers'[x] = q
                     /\ source_peers'[x] # NoPeer => x \in directory
    BY <1>0, <1>1 DEF TablesAgree, Connected, DirectoryHeld
  <2>1. /\ \A q \in Peers : peer_sources[q] = x <=> source_peers[x] = q
        /\ Connected(x) => x \in directory
    BY <1>0, <1>4 DEF TablesAgree
  <2>2. x \notin rebound'
    BY DEF Undisturbed
  <2>3. CASE x = s
    <3>1. source_peers[s] = NoPeer /\ NoPeer \notin Peers
      BY <1>3, <2>2, <2>3, SessionAssumption DEF Connected
    <3>2. s \in directory
      BY <1>0, <1>1 DEF DirectoryHeld
    <3> QED
      BY <1>2, <2>1, <2>3, <3>1, <3>2
  <2>4. CASE x # s
    <3>1. peer_sources[p] # x
      BY <1>3, <2>2, <2>4
    <3> QED
      BY <1>2, <2>1, <2>4, <3>1 DEF Connected
  <2> QED
    BY <2>3, <2>4
<1>6. DroppedOnce'
  BY <1>0, <1>1, <1>4 DEF DroppedOnce
<1>7. WaitersHeld'
  <2>1. ASSUME NEW x \in Sources, Connected(x) PROVE Connected(x)'
    BY <1>2, <2>1, SessionAssumption DEF Connected
  <2> QED
    BY <1>0, <1>1, <2>1 DEF WaitersHeld, WaitersQueued
<1>8. PICK others : others = SameBucket(peer_sources', s)
  OBVIOUS
<1>9. others \subseteq Sources
  BY <1>0, <1>2, <1>8, SharedBucket DEF Bound
<1>10. /\ s \in BastonClients => knows' = knows
       /\ s \notin BastonClients =>
            knows' = [c \in Sources |-> CASE c = s -> knows[c] \cup others
                         [] c # s /\ c \in others \ BastonClients /\ source_peers'[c] # NoPeer
                              -> knows[c] \cup {s}
                         [] OTHER -> knows[c]]
  BY <1>8 DEF Handshake, Introduced
<1>11. s \notin BastonClients =>
         /\ knows' = [c \in Sources |-> knows'[c]]
         /\ knows'[s] = knows[s] \cup others
         /\ \A c \in Sources : c # s /\ c \in others \ BastonClients /\ source_peers'[c] # NoPeer =>
              knows'[c] = knows[c] \cup {s}
         /\ \A c \in Sources : c # s /\ ~(c \in others \ BastonClients /\ source_peers'[c] # NoPeer) =>
              knows'[c] = knows[c]
  BY <1>10, SMTT(30)
<1>12. knows' \in [Sources -> SUBSET Sources]
  <2>1. knows \in [Sources -> SUBSET Sources]
    BY <1>0 DEF PlayersTyped
  <2>2. CASE s \in BastonClients
    BY <1>10, <2>1, <2>2
  <2>3. CASE s \notin BastonClients
    <3>1. \A c \in Sources : knows'[c] \in {knows[c], knows[c] \cup others, knows[c] \cup {s}}
      BY <1>11, <2>3
    <3>2. \A c \in Sources : knows'[c] \in SUBSET Sources
      BY <1>9, <2>1, <3>1
    <3> QED
      BY <1>11, <2>3, <3>2
  <2> QED
    BY <2>2, <2>3
<1>13. PeersTyped' /\ PlayersTyped'
  BY <1>0, <1>1, <1>2, <1>12 DEF PeersTyped, PlayersTyped
<1>14. ASSUME Calm'
       PROVE  /\ others = {x \in Sources : Connected(x)'} /\ ~Connected(s) /\ Calm
              /\ \A x \in Sources : x # s => (Connected(x)' <=> Connected(x))
              /\ Connected(s)'
  <2>1. Calm /\ s \notin rebound' /\ (rebound \cup removed = {})' /\ moved = {}
    BY <1>1, <1>3, <1>14 DEF Calm
  <2>2. Bound(peer_sources') = {x \in Sources : Connected(x)'}
    <3>1. \A x \in Sources : \A q \in Peers : peer_sources'[q] = x <=> source_peers'[x] = q
      BY <1>5, <2>1 DEF TablesAgree, Undisturbed
    <3>2. Bound(peer_sources') = {x \in Sources : source_peers'[x] # NoPeer}
      <4>1. BindsBack(peer_sources', source_peers')
        BY <1>2, <3>1 DEF BindsBack
      <4> QED
        BY <4>1, BoundConnected
    <3> QED
      BY <3>2 DEF Connected
  <2>3. others = Bound(peer_sources')
    BY <1>0, <1>2, <1>8, <2>1, SharedBucket
  <2> QED
    BY <1>2, <1>3, <2>1, <2>2, <2>3, SessionAssumption DEF Connected
<1>15. StrangersHeld'
  <2> SUFFICES ASSUME Calm', NEW x \in Sources, ~Connected(x)' PROVE knows'[x] = {}
    BY DEF StrangersHeld
  <2>1. x # s /\ ~Connected(x) /\ Calm /\ x \notin others
    BY <1>14
  <2> QED
    BY <1>0, <1>10, <1>11, <2>1 DEF StrangersHeld
<1>16. MutualKnowledge'
  <2> SUFFICES ASSUME Calm', NEW x \in Sources \ BastonClients, Connected(x)'
               PROVE /\ \A c \in Sources \ BastonClients : Connected(c)' => c \in knows'[x]
                     /\ \A c \in knows'[x] : c \in Sources /\ Connected(c)'
    BY DEF MutualKnowledge, Calm
  <2>1. /\ others = {y \in Sources : Connected(y)'} /\ ~Connected(s) /\ Calm
        /\ \A y \in Sources : y # s => (Connected(y)' <=> Connected(y))
        /\ Connected(s)'
    BY <1>14
  <2>2. CASE x = s
    <3>1. knows[s] = {} /\ knows'[s] = others
      BY <1>0, <1>11, <2>1, <2>2 DEF StrangersHeld
    <3> QED
      BY <2>1, <2>2, <3>1
  <2>3. CASE x # s
    <3>1. /\ \A c \in Sources \ BastonClients : Connected(c) => c \in knows[x]
          /\ \A c \in knows[x] : c \in Sources /\ Connected(c)
      BY <1>0, <2>1, <2>3 DEF MutualKnowledge, Calm
    <3>2. CASE s \in BastonClients
      BY <1>10, <2>1, <3>1, <3>2
    <3>3. CASE s \notin BastonClients
      <4>1. knows'[x] = knows[x] \cup {s}
        BY <1>11, <2>1, <2>3, <3>3 DEF Connected
      <4> QED
        BY <2>1, <3>1, <4>1
    <3> QED
      BY <3>2, <3>3
  <2> QED
    BY <2>2, <2>3
<1>17. ConTyped' /\ OutcomesAgree' /\ HostingTyped' /\ QueueTyped' /\ BucketsHeld' /\ DirectoryHeld'
  BY <1>1, TypesKept
<1> QED
  BY <1>1, <1>5, <1>6, <1>7, <1>13, <1>15, <1>16, <1>17 DEF SessInv

\* A player without a peer is nobody's business.
LEMMA NobodyLeaves ==
  ASSUME SessInv, UNCHANGED <<conVars, directory, tokens, peer_sources, source_peers, hostVars, subs,
                              bucket, knows, fired, ctlQueue, ghostVars>>,
         enet' \in [Peers -> {"free", "up", "closing"}]
  PROVE  SessInv' /\ UNCHANGED outcome
<1>1. UNCHANGED <<session_host, grant, waiters, told, rebound, removed, moved>>
  BY DEF hostVars, ghostVars
<1>2. HostingTyped' /\ WaitersHeld' /\ QueueTyped' /\ subs' \subseteq Sources
  BY <1>1, TypesKept, WaitersKept DEF SessInv, PlayersTyped
<1> QED
  BY <1>1, <1>2, AsideStep

\* A player leaves: every table forgets it, and the clients of its bucket hear of it.
LEMMA LeavesStep ==
  ASSUME SessInv, NEW p \in Peers, OnDisconnect(p), UNCHANGED <<conVars, ctlQueue, ghostVars>>,
         enet' \in [Peers -> {"free", "up", "closing"}]
  PROVE  SessInv' /\ UNCHANGED outcome
<1>0. /\ PeersTyped /\ PlayersTyped /\ TablesAgree /\ DirectoryHeld /\ DroppedOnce /\ WaitersHeld
      /\ BucketsHeld /\ MutualKnowledge /\ StrangersHeld /\ HostingTyped
  BY DEF SessInv
<1>s. PICK s : s = peer_sources[p]
  OBVIOUS
<1>n. CASE s = NoSource
  BY <1>n, <1>s, NobodyLeaves DEF OnDisconnect
<1>l. CASE s # NoSource
  <2>0. s \in Sources
    BY <1>0, <1>s, <1>l DEF PeersTyped
  <2>1. /\ UNCHANGED <<conAt, entry, outcome, ctlQueue, rebound, removed, moved>>
        /\ peer_sources' = [peer_sources EXCEPT ![p] = NoSource]
        /\ source_peers' = [source_peers EXCEPT ![s] = NoPeer]
        /\ subs' = subs \ {s} /\ session_host' = (IF session_host = s THEN NoSource ELSE session_host)
        /\ directory' = directory \ {s} /\ tokens' = tokens \ {s}
        /\ fired' = [fired EXCEPT ![s] = fired[s] + 1] /\ bucket' = [bucket EXCEPT ![s] = 0]
    BY <1>s, <1>l DEF OnDisconnect, Unbound, Fired, conVars, ghostVars
  <2>2. /\ knows' = [c \in Sources |->
                        IF c = s THEN {}
                        ELSE IF c \in SameBucket(peer_sources', s) /\ source_peers[c] # NoPeer
                             THEN knows[c] \ {s} ELSE knows[c]]
        /\ IF grant = s
           THEN grant' = NoSource /\ waiters' = {} /\ told' = [Released(waiters \ {s}) EXCEPT ![s] = "none"]
           ELSE waiters' = waiters \ {s} /\ told' = [told EXCEPT ![s] = "none"] /\ grant' = grant
    BY <1>s, <1>l DEF OnDisconnect
  <2>3. /\ peer_sources' \in [Peers -> Sources \cup {NoSource}] /\ peer_sources'[p] = NoSource
        /\ \A q \in Peers : q # p => peer_sources'[q] = peer_sources[q]
        /\ source_peers' \in [Sources -> Peers \cup {NoPeer}] /\ source_peers'[s] = NoPeer
        /\ \A x \in Sources : x # s => source_peers'[x] = source_peers[x]
    BY <1>0, <2>0, <2>1 DEF PeersTyped
  <2>4. /\ fired' \in [Sources -> Nat] /\ fired'[s] = fired[s] + 1
        /\ \A x \in Sources : x # s => fired'[x] = fired[x]
    <3>1. fired \in [Sources -> Nat]
      BY <1>0 DEF PlayersTyped
    <3> QED
      BY <2>0, <2>1, <3>1, SMTT(30)
  <2>5. knows' \in [Sources -> SUBSET Sources]
    <3>1. \A c \in Sources : knows'[c] \in {{}, knows[c] \ {s}, knows[c]}
      BY <2>2
    <3>2. \A c \in Sources : knows'[c] \in SUBSET Sources
      BY <1>0, <3>1 DEF PlayersTyped
    <3> QED
      BY <2>2, <3>2
  <2>6. PeersTyped' /\ PlayersTyped'
    BY <1>0, <2>0, <2>1, <2>3, <2>4, <2>5 DEF PeersTyped, PlayersTyped
  <2>7. ConTyped' /\ OutcomesAgree' /\ QueueTyped'
    BY <2>1, TypesKept
  <2>8. BucketsHeld' /\ DirectoryHeld'
    BY <1>0, <2>0, <2>1 DEF BucketsHeld, DirectoryHeld, PlayersTyped
  <2>9. TablesAgree'
    <3> SUFFICES ASSUME NEW x \in Sources, Undisturbed(x)
                 PROVE /\ \A q \in Peers : peer_sources'[q] = x <=> source_peers'[x] = q
                       /\ source_peers'[x] # NoPeer => x \in directory'
      BY <2>1, <2>8 DEF TablesAgree, Connected, DirectoryHeld, Undisturbed
    <3>1. /\ \A q \in Peers : peer_sources[q] = x <=> source_peers[x] = q
          /\ Connected(x) => x \in directory
      BY <1>0 DEF TablesAgree
    <3>2. CASE x = s
      BY <1>s, <2>3, <3>1, <3>2, SessionAssumption
    <3>3. CASE x # s
      BY <1>s, <2>1, <2>3, <3>1, <3>3, SessionAssumption DEF Connected
    <3> QED
      BY <3>2, <3>3
  <2>10. DroppedOnce'
    <3> SUFFICES ASSUME NEW x \in Sources, Undisturbed(x)
                 PROVE fired'[x] = IF conAt[x] = "accepted" /\ x \notin directory' THEN 1 ELSE 0
      BY <2>1 DEF DroppedOnce, Undisturbed
    <3>1. fired[x] = IF conAt[x] = "accepted" /\ x \notin directory THEN 1 ELSE 0
      BY <1>0 DEF DroppedOnce
    <3>2. CASE x = s
      <4>1. source_peers[s] = p
        BY <1>0, <1>s, <2>0, <3>2 DEF TablesAgree
      <4>2. s \in directory
        BY <1>0, <2>0, <3>2, <4>1, SessionAssumption DEF TablesAgree, Connected
      <4>3. conAt[s] = "accepted" /\ s \notin directory'
        BY <1>0, <2>1, <4>2 DEF DirectoryHeld
      <4>4. fired[s] = 0
        BY <3>1, <3>2, <4>2
      <4>5. fired'[s] = 1
        BY <2>4, <4>4, SMTT(30)
      <4> QED
        BY <3>2, <4>3, <4>5
    <3>3. CASE x # s
      BY <2>1, <2>4, <3>1, <3>3
    <3> QED
      BY <3>2, <3>3
  <2>11. HostingTyped' /\ WaitersHeld'
    <3>1. /\ told' \in [Sources -> {"none", "wait", "go", "free", "conflict"}] /\ told'[s] = "none"
          /\ grant' \in Sources \cup {NoSource}
          /\ \A x \in Sources : x # s /\ told'[x] = "wait" =>
               told[x] = "wait" /\ grant # s /\ grant' = grant /\ waiters' = waiters \ {s}
      <4>1. CASE grant = s
        <5>1. PICK g : g = Released(waiters \ {s})
          OBVIOUS
        <5>2. g = [x \in Sources |-> IF x \in waiters \ {s} /\ source_peers'[x] # NoPeer THEN "free" ELSE told[x]]
          BY <5>1 DEF Released
        <5>3. g \in [Sources -> {"none", "wait", "go", "free", "conflict"}]
          BY <1>0, <5>2 DEF HostingTyped
        <5>4. \A x \in Sources : x # s => g[x] # "wait"
          <6> SUFFICES ASSUME NEW x \in Sources, x # s, told[x] = "wait"
                       PROVE x \in waiters \ {s} /\ source_peers'[x] # NoPeer
            BY <5>2
          <6> QED
            BY <1>0, <2>3 DEF WaitersHeld, WaitersQueued, Connected
        <5>5. told' = [g EXCEPT ![s] = "none"] /\ grant' = NoSource
          BY <2>2, <4>1, <5>1
        <5>6. told' \in [Sources -> {"none", "wait", "go", "free", "conflict"}] /\ told'[s] = "none"
              /\ \A x \in Sources : x # s => told'[x] = g[x]
          BY <2>0, <5>3, <5>5
        <5> QED
          BY <5>4, <5>5, <5>6
      <4>2. CASE grant # s
        BY <1>0, <2>0, <2>2, <4>2 DEF HostingTyped
      <4> QED
        BY <4>1, <4>2
    <3>2. HostingTyped'
      BY <1>0, <2>1, <3>1 DEF HostingTyped
    <3>3. ASSUME NEW x \in Sources, told'[x] = "wait"
          PROVE x \in waiters' /\ grant' # NoSource /\ source_peers'[x] # NoPeer
      <4>1. x # s
        BY <3>1, <3>3
      <4> QED
        BY <1>0, <2>3, <3>1, <3>3, <4>1 DEF WaitersHeld, WaitersQueued, Connected
    <3> QED
      BY <3>2, <3>3 DEF WaitersHeld, WaitersQueued, Connected
  <2>12. /\ ~Connected(s)' /\ \A x \in Sources : x # s => (Connected(x)' <=> Connected(x))
         /\ knows'[s] = {}
    BY <2>0, <2>2, <2>3 DEF Connected
  <2>13. Calm' <=> Calm
    BY <2>1 DEF Calm
  <2>14. StrangersHeld'
    <3> SUFFICES ASSUME Calm, NEW x \in Sources, x # s, ~Connected(x) PROVE knows'[x] = {}
      BY <2>12, <2>13 DEF StrangersHeld
    <3>1. knows[x] = {}
      BY <1>0 DEF StrangersHeld
    <3> QED
      BY <2>2, <3>1
  <2>15. MutualKnowledge'
    <3> SUFFICES ASSUME Calm, NEW x \in Sources \ BastonClients, x # s, Connected(x)
                 PROVE /\ \A c \in Sources \ BastonClients : Connected(c)' => c \in knows'[x]
                       /\ \A c \in knows'[x] : c \in Sources /\ Connected(c)'
      BY <2>12, <2>13 DEF MutualKnowledge, Calm
    <3>1. /\ \A c \in Sources \ BastonClients : Connected(c) => c \in knows[x]
          /\ \A c \in knows[x] : c \in Sources /\ Connected(c)
      BY <1>0 DEF MutualKnowledge, Calm
    <3>2. x \in SameBucket(peer_sources', s)
      <4>1. source_peers[x] \in Peers /\ peer_sources[source_peers[x]] = x
        <5>1. source_peers[x] \in Peers
          BY <1>0 DEF Connected, PeersTyped
        <5>2. Undisturbed(x)
          BY DEF Undisturbed, Calm
        <5> QED
          BY <1>0, <5>1, <5>2 DEF TablesAgree
      <4>2. source_peers[x] # p
        BY <1>s, <4>1
      <4>3. x \in Bound(peer_sources')
        BY <2>3, <4>1, <4>2 DEF Bound
      <4> QED
        BY <1>0, <2>0, <2>3, <4>3, SharedBucket DEF Calm
    <3>3. knows'[x] = knows[x] \ {s}
      BY <2>2, <3>2 DEF Connected
    <3> QED
      BY <2>12, <3>1, <3>3
  <2> QED
    BY <2>1, <2>6, <2>7, <2>8, <2>9, <2>10, <2>11, <2>14, <2>15 DEF SessInv
<1> QED
  BY <1>n, <1>l

\* Every step preserves it, and no outcome that was sent changes.
LEMMA SessStep ==
  ASSUME SessInv, [SessNext]_sessVars
  PROVE  SessInv' /\ \A x \in Sources : outcome[x] # "none" => outcome'[x] = outcome[x]
<1>1. ASSUME NEW s \in Sources,
             InitConnect(s) \/ Defer(s) \/ Done(s) \/ HandlersRan(s) \/ ResolveIfNotDeferred(s)
               \/ ConnectAborted(s)
      PROVE  SessInv' /\ \A x \in Sources : outcome[x] # "none" => outcome'[x] = outcome[x]
  BY <1>1, ConnectStep
<1>2. ASSUME NEW s \in Sources, ConnectEnds(s) \/ KickPlayer(s) \/ AdminDropPlayer(s) \/ MovePlayer(s)
      PROVE  SessInv' /\ UNCHANGED outcome
  BY <1>2, EndsStep, KickStep, RemoveStep, MovesStep
<1>3. ASSUME NEW p \in Peers, PeerConnects(p) PROVE SessInv' /\ UNCHANGED outcome
  BY <1>3, EnetStep
<1>4. ASSUME NEW p \in Peers, PeerDisconnects(p) \/ Quit(p) PROVE SessInv' /\ UNCHANGED outcome
  <2>1. /\ OnDisconnect(p) /\ UNCHANGED <<conVars, ctlQueue, ghostVars>>
        /\ enet' \in {[enet EXCEPT ![p] = "free"], [enet EXCEPT ![p] = "closing"]}
    BY <1>4 DEF PeerDisconnects, Quit
  <2>2. enet' \in [Peers -> {"free", "up", "closing"}]
    BY <2>1 DEF SessInv, PeersTyped
  <2> QED
    BY <2>1, <2>2, LeavesStep
<1>5. ASSUME NEW p \in Peers, NEW s \in Sources,
             Handshake(p, s) \/ HandshakeRefused(p, s) \/ OnIHost(p, s) \/ OnHostingSession(p, s)
               \/ OnHostedSession(p, s) \/ OnDebugInfoToggle(p, s)
      PROVE  SessInv' /\ UNCHANGED outcome
  <2>1. CASE Handshake(p, s)
    BY <2>1, HandshakeStep
  <2>2. CASE HandshakeRefused(p, s)
    BY <2>2, EnetStep
  <2>3. CASE OnIHost(p, s) \/ OnHostingSession(p, s)
    BY <2>3, HostingStep
  <2>4. CASE OnHostedSession(p, s)
    BY <2>4, ReleaseStep DEF OnHostedSession
  <2>5. CASE OnDebugInfoToggle(p, s)
    BY <2>5, OverlayStep
  <2> QED
    BY <1>5, <2>1, <2>2, <2>3, <2>4, <2>5
<1>6. ASSUME ExpireHostingGrant \/ DebugTick \/ DropSource PROVE SessInv' /\ UNCHANGED outcome
  BY <1>6, ReleaseStep, OverlayStep, DropStep DEF ExpireHostingGrant
<1>7. ASSUME UNCHANGED sessVars PROVE SessInv' /\ UNCHANGED outcome
  <2>1. /\ UNCHANGED <<conVars, directory, tokens, peer_sources, source_peers, hostVars, subs,
                       bucket, knows, fired, ctlQueue, ghostVars>>
        /\ enet' = enet
    BY <1>7 DEF sessVars, tableVars
  <2>2. enet' \in [Peers -> {"free", "up", "closing"}]
    BY <2>1 DEF SessInv, PeersTyped
  <2> QED
    BY <2>1, <2>2, NobodyLeaves
<1> QED
  BY <1>1, <1>2, <1>3, <1>4, <1>5, <1>6, <1>7 DEF SessNext

\* SessionsAgree: whatever connects, second handshakes, kicks, drops and moves
\* interleave, the peer tables, the directory, the waiting list and the clients'
\* knowledge agree, and every drop is announced once, for any players and peers.
THEOREM SessionsAlwaysAgree == SessSpec => []SessionsAgree
<1>1. SessInv /\ [SessNext]_sessVars => SessInv'
  BY SessStep
<1> QED
  BY SessStart, SessHonest, <1>1, PTL DEF SessSpec

\* FirstOutcomeStands: the first outcome a script or the handler sends into a
\* connect request is the one it keeps, for any players and calls of done().
THEOREM FirstOutcomeAlwaysStands == SessSpec => FirstOutcomeStands
<1>1. SessInv /\ [SessNext]_sessVars => SessInv'
  BY SessStep
<1>2. SessInv /\ [SessNext]_sessVars =>
        [\A s \in Sources : outcome[s] # "none" => outcome'[s] = outcome[s]]_sessVars
  BY SessStep
<1> QED
  BY SessStart, <1>1, <1>2, PTL DEF SessSpec, FirstOutcomeStands

=============================================================================
