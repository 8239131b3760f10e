------------------------------ MODULE MCGateway ------------------------------
(***************************************************************************)
(* One instance for what the gateway does for a player: the session,       *)
(* ticket authentication, file downloads, the sidecar channel and the      *)
(* server's identity.  The modules share no state, so a behaviour          *)
(* exercises one of them (focus) while the others rest in an initial       *)
(* state.                                                                  *)
(***************************************************************************)
EXTENDS Session, Tickets, Downloads, CfxSidecar, CfxIdentity

Ticket(g, p, e, k, f) == [guid |-> g, posted |-> p, expiry |-> e, key |-> k, form |-> f]
MCOffers == {Ticket(7, 7, 3, 2, "ok"), Ticket(9, 9, 1, 1, "ok"), Ticket(5, 5, 3, 2, "truncated")}

\* A session meets one kind of disturbance (a second handshake, an operator's
\* removal, a kick, a bucket move) in a behaviour, as often as its bound allows.
Disturbances == {k \in 1 .. 4 : <<rebound, removed, kicked, moved>>[k] # {}}
OneKind == Cardinality(Disturbances) <= 1

VARIABLE focus

allVars == <<sessVars, authVars, dlVars, sideVars, identVars, focus>>

GatewayInit ==
    /\ SessInit /\ AuthInit /\ DlInit /\ SideInit /\ IdentInit
    /\ focus \in {"session", "tickets", "downloads", "sidecar", "identity"}
    /\ focus # "downloads" => filelen = 0
    /\ focus # "sidecar" => ~ready
    /\ focus # "identity" => /\ mode = "off" /\ listing = "off" /\ configured = 32
                             /\ verdict = [b \in Brokers |-> "valid"]

GatewayNext ==
    \/ focus = "session" /\ SessNext /\ OneKind' /\ UNCHANGED <<authVars, dlVars, sideVars, identVars, focus>>
    \/ focus = "tickets" /\ AuthNext /\ UNCHANGED <<sessVars, dlVars, sideVars, identVars, focus>>
    \/ focus = "downloads" /\ DlNext /\ UNCHANGED <<sessVars, authVars, sideVars, identVars, focus>>
    \/ focus = "sidecar" /\ SideNext /\ UNCHANGED <<sessVars, authVars, dlVars, identVars, focus>>
    \/ focus = "identity" /\ IdentNext /\ UNCHANGED <<sessVars, authVars, dlVars, sideVars, focus>>

\* No fair action is enabled in the initial states the others rest in.
GatewaySpec == /\ GatewayInit /\ [][GatewayNext]_allVars
               /\ SessFairness /\ AuthFairness /\ DlFairness /\ SideFairness /\ IdentFairness

\* What the gateway must get done beside the session: a login ends and never falls
\* back to an older key, a download ends and gives its permit back, a call to the
\* sidecar returns and its child is reaped.
GatewayServes ==
    /\ KeyMonotone /\ LoginsEnd
    /\ DownloadsEnd
    /\ CallsReturn /\ Reaped
=============================================================================
