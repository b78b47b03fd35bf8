------------------------------ MODULE Identity ------------------------------
(***************************************************************************)
(* Who may pass to the relay: ApiKeyIdentityMiddleware                     *)
(* (middleware/identity.py) of one worker, with its cached number of keys, *)
(* and the upstream key the relay then sends (proxy/header_policy.py).     *)
(* Administrators, in any worker, change the keys between any two database *)
(* calls of a request.  Time passes in ticks.                              *)
(***************************************************************************)
EXTENDS Naturals

CONSTANTS
    Keys, Upstreams,
    Requests,    \* requests in progress at once; each may be followed by others
    Ttl,         \* api_key_count_cache_seconds
    MaxTime,     \* bound
    Nobody       \* no key, no record, no time, no value

ASSUME TtlAssumption == Ttl \in Nat \ {0} /\ MaxTime \in Nat

VARIABLES
    now,
    passthrough, \* allow_empty_api_keys_passthrough
    keys,        \* the api_keys table
    cached,      \* whether the table was empty, as last counted
    until,       \* when the cached count ends
    req,         \* the requests
    emptyAt,     \* history: the last time the table was empty
    activeSince, \* history: since when each key is active
    valid        \* history: the upstream keys its key stood for since a request came

identityVars == <<now, passthrough, keys, cached, until, req, emptyAt, activeSince, valid>>
inWorker == <<cached, until, req>>

Times == 0..MaxTime
Records == [active : BOOLEAN, upstream : Upstreams, expires : 0..(MaxTime + 1) \cup {Nobody}]
Idle == [at |-> "idle", bearer |-> Nobody, start |-> 0, empty |-> FALSE,
         record |-> Nobody]

Expired(record, t) == record.expires # Nobody /\ record.expires <= t
IsActive(record, t) == record # Nobody /\ record.active /\ ~Expired(record, t)
TableEmpty == \A k \in Keys : keys[k] = Nobody
Stands(k) == IF k # Nobody /\ IsActive(keys[k], now) THEN {keys[k].upstream} ELSE {}

IdentityInit ==
    /\ now = 0 /\ passthrough \in BOOLEAN
    /\ keys = [k \in Keys |-> Nobody]
    /\ cached = Nobody /\ until = 0
    /\ req = [r \in Requests |-> Idle]
    /\ emptyAt = 0
    /\ activeSince = [k \in Keys |-> Nobody]
    /\ valid = [r \in Requests |-> {}]

(* History, kept by every step.                                            *)
Observe == /\ emptyAt' = IF TableEmpty' THEN now' ELSE emptyAt
           /\ activeSince' = [k \in Keys |->
                 IF ~IsActive(keys'[k], now') THEN Nobody
                 ELSE IF activeSince[k] = Nobody THEN now' ELSE activeSince[k]]
           /\ valid' = [r \in Requests |->
                 IF req'[r].at \in {"idle", "anonymous", "refused", "rejected"} THEN {}
                 ELSE valid[r]
                              \cup Stands(req'[r].bearer)]

-----------------------------------------------------------------------------
(* What the number of keys leads to: anonymous passage, refusal, or a look *)
(* at the request's own key.                                               *)
Sorted(request, empty) ==
    CASE empty /\ passthrough -> [Idle EXCEPT !.at = "anonymous", !.start = request.start]
      [] ~empty /\ request.bearer # Nobody ->
            [Idle EXCEPT !.at = "finding", !.bearer = request.bearer]
      [] OTHER -> [request EXCEPT !.at = "refused", !.empty = FALSE]

(* The cached count; a request that finds it outdated counts itself, and   *)
(* may store its count after another that counted later.                   *)
CacheValidEver == cached # Nobody                                  \* a mutant
CacheValid == cached # Nobody /\ now < until

Arrive(r, k) ==
    LET request == [Idle EXCEPT !.at = "counting", !.bearer = k, !.start = now] IN
    /\ req[r].at = "idle"
    /\ req' = [req EXCEPT ![r] = IF CacheValid THEN Sorted(request, cached) ELSE request]
    /\ UNCHANGED <<now, passthrough, keys, cached, until>>

Count(r) == /\ req[r].at = "counting"
            /\ req' = [req EXCEPT ![r].at = "counted", ![r].empty = TableEmpty]
            /\ UNCHANGED <<now, passthrough, keys, cached, until>>

StoreFromNow(r) == /\ req[r].at = "counted"                        \* a mutant
                   /\ cached' = req[r].empty
                   /\ until' = now + Ttl
                   /\ req' = [req EXCEPT ![r] = Sorted(@, req[r].empty)]
                   /\ UNCHANGED <<now, passthrough, keys>>
Store(r) == /\ req[r].at = "counted"
            /\ cached' = req[r].empty
            /\ until' = req[r].start + Ttl
            /\ req' = [req EXCEPT ![r] = Sorted(@, req[r].empty)]
            /\ UNCHANGED <<now, passthrough, keys>>

Find(r) == /\ req[r].at = "finding"
           /\ req' = [req EXCEPT ![r].at = "found", ![r].record = keys[req[r].bearer]]
           /\ UNCHANGED <<now, passthrough, keys, cached, until>>

(* is_record_active: an active record's upstream key takes the place of    *)
(* the client's own in what the relay sends.                               *)
JudgeStatus(r) ==                                                  \* a mutant
    /\ req[r].at = "found"
    /\ req' = [req EXCEPT ![r] = IF req[r].record # Nobody /\ req[r].record.active
                                THEN [@ EXCEPT !.at = "identified"]
                                ELSE [Idle EXCEPT !.at = "rejected"]]
    /\ UNCHANGED <<now, passthrough, keys, cached, until>>
Judge(r) ==
    /\ req[r].at = "found"
    /\ req' = [req EXCEPT ![r] = IF IsActive(req[r].record, now)
                                THEN [@ EXCEPT !.at = "identified"]
                                ELSE [Idle EXCEPT !.at = "rejected"]]
    /\ UNCHANGED <<now, passthrough, keys, cached, until>>

(* The database raises: a 500, and no count is remembered.                 *)
LookupRaises(r) == /\ req[r].at \in {"counting", "finding"}
                   /\ req' = [req EXCEPT ![r] = Idle]
                   /\ UNCHANGED <<now, passthrough, keys, cached, until>>

Leave(r) == /\ req[r].at \in {"anonymous", "refused", "rejected", "identified"}
            /\ req' = [req EXCEPT ![r] = Idle]
            /\ UNCHANGED <<now, passthrough, keys, cached, until>>

Request(r) == \/ \E k \in Keys \cup {Nobody} : Arrive(r, k)
              \/ Count(r) \/ Store(r) \/ Find(r) \/ Judge(r) \/ LookupRaises(r) \/ Leave(r)

-----------------------------------------------------------------------------
(* Administrators' changes, as they reach the database.                    *)
Change(k, record) == /\ keys' = [keys EXCEPT ![k] = record]
                     /\ UNCHANGED <<now, passthrough, inWorker>>

(* A key expires never, or at the next tick: what later expiries do, an     *)
(* update to the next tick does when their time comes.                      *)
Expiries == {Nobody, now + 1}

CreateBare(k, u, t) == /\ keys[k] = Nobody                          \* a mutant
                       /\ Change(k, [active |-> TRUE, upstream |-> Nobody, expires |-> t])
Create(k, u, t) == /\ keys[k] = Nobody
                   /\ Change(k, [active |-> TRUE, upstream |-> u, expires |-> t])
Revoke(k) == /\ keys[k] # Nobody /\ keys[k].active
             /\ Change(k, [keys[k] EXCEPT !.active = FALSE])
Delete(k) == /\ keys[k] # Nobody /\ ~keys[k].active
             /\ Change(k, Nobody)
ReplaceUpstream(k, u) == /\ keys[k] # Nobody /\ u # keys[k].upstream
                         /\ Change(k, [keys[k] EXCEPT !.upstream = u])
Update(k, t) == /\ keys[k] # Nobody /\ t # keys[k].expires
                /\ Change(k, [keys[k] EXCEPT !.expires = t])

Tick == /\ now < MaxTime
        /\ now' = now + 1
        /\ UNCHANGED <<passthrough, keys, inWorker>>

IdentityNext ==
    /\ \/ \E r \in Requests : Request(r)
       \/ \E k \in Keys : \/ \E u \in Upstreams, t \in Expiries : Create(k, u, t)
                          \/ Revoke(k) \/ Delete(k)
                          \/ \E u \in Upstreams : ReplaceUpstream(k, u)
                          \/ \E t \in Expiries : Update(k, t)
       \/ Tick
    /\ Observe

-----------------------------------------------------------------------------
IdentityTypeOK ==
    /\ now \in Times /\ passthrough \in BOOLEAN
    /\ keys \in [Keys -> Records \cup {Nobody}]
    /\ cached \in BOOLEAN \cup {Nobody} /\ until \in 0..(MaxTime + Ttl)
    /\ req \in [Requests -> [at : {"idle", "counting", "counted", "finding", "found",
                                  "anonymous", "refused", "rejected", "identified"},
                             bearer : Keys \cup {Nobody}, start : Times, empty : BOOLEAN,
                             record : Records \cup {Nobody}]]

(* A request passes without a key only if, at most one cache lifetime       *)
(* before it came or since, there was no key at all: neither slow counts    *)
(* that are stored late nor counts that overtake one another prolong that.  *)
AnonymousWasKeyless == \A r \in Requests :
    req[r].at = "anonymous" => passthrough /\ emptyAt + Ttl >= req[r].start

(* A request is not refused, without a look at its key, if that was active  *)
(* a cache lifetime before it came and has been since: an old count keeps   *)
(* no new key out for longer.                                               *)
ActiveKeyServed == \A r \in Requests :
    LET since == IF req[r].bearer = Nobody THEN Nobody ELSE activeSince[req[r].bearer]
    IN req[r].at = "refused" /\ since # Nobody => since + Ttl > req[r].start

(* What a request is identified as was true at some moment since it came:   *)
(* a revocation, an expiry or a replacement governs every later request.    *)
IdentifiedAsOfNow == \A r \in Requests :
    req[r].at = "identified" => req[r].record.upstream \in valid[r]
=============================================================================
