------------------------------ MODULE Tickets -------------------------------
(***************************************************************************)
(* Verification of connection tickets (baston-gateway auth/mod.rs and      *)
(* ticket.rs): logins run concurrently, share one cached public key behind *)
(* an async mutex that is held across the fetch, and one set of the tickets*)
(* seen since the last sweep, while the platform may rotate its key.  A    *)
(* signature is the key it was made with; a ticket is (guid, expiry).      *)
(***************************************************************************)
EXTENDS Naturals, Sequences

CONSTANTS Logins,       \* initConnect requests
          Offers,       \* tickets with the guid posted: [guid, posted, expiry, key, form]
          NoTicket,
          MaxKey,       \* last key of the platform
          MaxClock      \* last tick

ASSUME TicketsAssumption == MaxKey \in Nat \ {0} /\ MaxClock \in Nat

\* In ticks of five minutes: a key may be refreshed when older than one, the
\* tickets seen are forgotten when more than GcInterval have passed.
PUBKEY_MAX_AGE == 1
GcInterval == 2

VARIABLES
    clock,
    endpoint,   \* the key the endpoint publishes
    pubkey,     \* the cached key and when it was fetched; key 0 is none
    keyLock,    \* the logins at the mutex, its holder first
    seen, next_gc,      \* UsedTickets
    login,      \* per login: see AuthInit
    rotated_at, \* ghost: when the platform last changed its key
    sweep,      \* ghost: sweeps so far
    admitted    \* ghost: the tickets accepted, with the sweep they were accepted in

authVars == <<clock, endpoint, pubkey, keyLock, seen, next_gc, login, rotated_at, sweep, admitted>>
shared == <<clock, endpoint, seen, next_gc, rotated_at, sweep, admitted>>
NoKey == [key |-> 0, fetched_at |-> 0]

\* `force' is get_pubkey's argument, `got' the key it returned, `reply' what
\* the endpoint answered.
AuthInit ==
    /\ clock = 0 /\ endpoint = 1 /\ pubkey = NoKey /\ keyLock = <<>>
    /\ seen = {} /\ next_gc = GcInterval /\ rotated_at = 0 /\ sweep = 0 /\ admitted = <<>>
    /\ login = [l \in Logins |-> [at |-> "new", ticket |-> NoTicket, now |-> 0, force |-> FALSE, got |-> NoKey, reply |-> 0]]

\* The timeout of a fetch (http_timeout_secs) is far below a tick.
Tick ==
    /\ clock < MaxClock /\ \A l \in Logins : login[l].at # "fetch"
    /\ clock' = clock + 1
    /\ UNCHANGED <<endpoint, pubkey, keyLock, seen, next_gc, login, rotated_at, sweep, admitted>>
Rotate ==
    /\ endpoint < MaxKey
    /\ endpoint' = endpoint + 1 /\ rotated_at' = clock
    /\ UNCHANGED <<clock, pubkey, keyLock, seen, next_gc, login, sweep, admitted>>

----------------------------------------------------------------------------
(* get_pubkey.                                                              *)

\* The wait for the mutex is FIFO.
LockQueue(l) == Append(keyLock, l)
Holds(l) == keyLock # <<>> /\ Head(keyLock) = l
Unlock == Tail(keyLock)

\* validate_ticket reads the clock once; then get_pubkey(false).
validate_ticket(l) ==
    /\ login[l].at = "new"
    /\ \E t \in Offers : login' = [login EXCEPT ![l].at = "key", ![l].now = clock, ![l].ticket = t]
    /\ keyLock' = LockQueue(l)
    /\ UNCHANGED <<shared, pubkey>>

\* The cached key serves unless a refresh is forced and it is old.
UsableAlways(l) == pubkey # NoKey
Usable(l) == pubkey # NoKey /\ ~(login[l].force /\ clock - pubkey.fetched_at > PUBKEY_MAX_AGE)
CachedKey(l) ==
    /\ login[l].at = "key" /\ Holds(l) /\ Usable(l)
    /\ login' = [login EXCEPT ![l].at = "verify", ![l].got = pubkey]
    /\ keyLock' = Unlock
    /\ UNCHANGED <<shared, pubkey>>

\* fetch_pubkey: the answer is the key of the moment; it is stored later.
fetch_pubkey(l) ==
    /\ login[l].at = "key" /\ Holds(l) /\ ~Usable(l)
    /\ login' = [login EXCEPT ![l].at = "fetch", ![l].reply = endpoint]
    /\ UNCHANGED <<shared, pubkey, keyLock>>

StoreKey(l) ==
    LET new == [key |-> login[l].reply, fetched_at |-> clock] IN
    /\ login[l].at = "fetch"
    /\ pubkey' = new
    /\ login' = [login EXCEPT ![l].at = "verify", ![l].got = new]
    /\ keyLock' = Unlock
    /\ UNCHANGED shared

\* The request, its status, its JSON or its DER fails, or times out: the
\* error ends the login and the cached key stays.
FetchFailsHeld(l) ==
    /\ login[l].at = "fetch"
    /\ login' = [login EXCEPT ![l].at = "PubkeyFetch"]
    /\ UNCHANGED <<shared, pubkey, keyLock>>
FetchFailsClears(l) ==
    /\ login[l].at = "fetch"
    /\ login' = [login EXCEPT ![l].at = "PubkeyFetch"]
    /\ keyLock' = Unlock /\ pubkey' = NoKey
    /\ UNCHANGED shared
FetchFails(l) ==
    /\ login[l].at = "fetch"
    /\ login' = [login EXCEPT ![l].at = "PubkeyFetch"]
    /\ keyLock' = Unlock
    /\ UNCHANGED <<shared, pubkey>>

----------------------------------------------------------------------------
\* The outcome, in the order of the checks: the frame, the expiry (against
\* the time the login began), the guid, the first signature, the frame of the
\* extra block, the second signature.
parse_and_verify(l) ==
    LET t == login[l].ticket IN
    CASE t.form = "short" -> "MalformedTicket"
      [] t.form # "short" /\ t.expiry < login[l].now -> "TicketExpired"
      [] t.form # "short" /\ t.expiry >= login[l].now /\ t.guid # t.posted -> "GuidMismatch"
      [] t.form # "short" /\ t.expiry >= login[l].now /\ t.guid = t.posted /\ t.key # login[l].got.key -> "InvalidSignature"
      [] OTHER -> IF t.form = "truncated" THEN "MalformedTicket" ELSE "verified"

\* A bad signature asks once for a fresher key.
RefreshForever(l) ==
    LET outcome == parse_and_verify(l)
        again == outcome = "InvalidSignature" IN
    /\ login[l].at = "verify"
    /\ login' = [login EXCEPT ![l].at = IF again THEN "key" ELSE outcome, ![l].force = @ \/ again]
    /\ keyLock' = IF again THEN LockQueue(l) ELSE keyLock
    /\ UNCHANGED <<shared, pubkey>>
verify_with_key_refresh(l) ==
    LET outcome == parse_and_verify(l)
        again == outcome = "InvalidSignature" /\ ~login[l].force IN
    /\ login[l].at = "verify"
    /\ login' = [login EXCEPT ![l].at = IF again THEN "key" ELSE outcome, ![l].force = @ \/ again]
    /\ keyLock' = IF again THEN LockQueue(l) ELSE keyLock
    /\ UNCHANGED <<shared, pubkey>>

\* One critical section: the sweep when it is due, then the insert.
Due == clock > next_gc
Swept == IF Due THEN {} ELSE seen
RememberFirst(id) == IF Due THEN {} ELSE seen \cup {id}
Remember(id) == Swept \cup {id}
check_reuse(l) ==
    LET id == <<login[l].ticket.guid, login[l].ticket.expiry>>
        fresh == id \notin Swept IN
    /\ login[l].at = "verified"
    /\ seen' = Remember(id)
    /\ next_gc' = IF Due THEN clock + GcInterval ELSE next_gc
    /\ sweep' = IF Due THEN sweep + 1 ELSE sweep
    /\ login' = [login EXCEPT ![l].at = IF fresh THEN "admitted" ELSE "TicketReused"]
    /\ admitted' = IF fresh THEN Append(admitted, <<id, sweep'>>) ELSE admitted
    /\ UNCHANGED <<clock, endpoint, pubkey, keyLock, rotated_at>>

Step(l) ==
    validate_ticket(l) \/ CachedKey(l) \/ fetch_pubkey(l) \/ StoreKey(l) \/ FetchFails(l)
        \/ verify_with_key_refresh(l) \/ check_reuse(l)
AuthNext == Tick \/ Rotate \/ \E l \in Logins : Step(l)
\* The HTTP client has a timeout, so a fetch ends.
AuthFairness == \A l \in Logins : WF_authVars(login[l].at # "new" /\ Step(l))

AuthSpec == AuthInit /\ [][AuthNext]_authVars /\ AuthFairness

----------------------------------------------------------------------------
Refusals == {"MalformedTicket", "TicketExpired", "GuidMismatch", "InvalidSignature", "TicketReused", "PubkeyFetch"}

\* The mutex is held or awaited by exactly the logins inside get_pubkey, and
\* only its holder fetches.
AuthTypeOK ==
    /\ clock \in 0..MaxClock /\ endpoint \in 1..MaxKey /\ pubkey.key \in 0..endpoint
    /\ \A l \in Logins :
        /\ login[l].at \in Refusals \cup {"new", "key", "fetch", "verify", "verified", "admitted"}
        /\ login[l].at \in {"key", "fetch"} <=> \E i \in 1..Len(keyLock) : keyLock[i] = l
        /\ login[l].at = "fetch" => Holds(l)

\* Between two sweeps a ticket is accepted once, whichever logins present it
\* and however they overlap.
AdmittedOnce == \A i, j \in 1..Len(admitted) : admitted[i] = admitted[j] => i = j

\* A key rotation shuts nobody out for longer than a key lives: a login that
\* begins more than PUBKEY_MAX_AGE after the last rotation with a ticket of
\* the key now published is not refused for its signature, whatever the
\* fetches and the other logins did before.
RotationHeals ==
    \A l \in Logins :
        login[l].at = "InvalidSignature" /\ login[l].ticket.key = endpoint => login[l].now <= rotated_at + PUBKEY_MAX_AGE

\* A ticket admits one login at most, and a rotation of the key refuses no
\* login that fetched the new one.
TicketsHonest ==
    /\ AuthTypeOK /\ AdmittedOnce /\ RotationHeals

\* The cached key is never replaced by one the platform published before it.
KeyMonotone == [][pubkey'.key >= pubkey.key]_authVars

\* Every login ends, although all of them queue behind one fetch.
LoginsEnd == []<>(\A l \in Logins : login[l].at \in {"new", "admitted"} \cup Refusals)
=============================================================================
