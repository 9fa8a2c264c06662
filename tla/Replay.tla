------------------------------- MODULE Replay -------------------------------
(***************************************************************************)
(* Replay protection as idempotency/iface.go specifies its use: for a      *)
(* request with an idempotency key the middleware calls Get; on a hit it   *)
(* answers with the cached response, on a miss it runs the handler and     *)
(* records the response with Set.  The middleware itself lives in another  *)
(* repository; the store below it is MemStore, step for step.  A client    *)
(* sends one request at a time and may repeat a key, its own or another's. *)
(***************************************************************************)
EXTENDS MemStore

VARIABLES
    req,       \* Clients -> where the client's request is
    result,    \* Clients -> the response its handler produced
    (* History, read by the properties only. *)
    promise,   \* Keys -> expiry and response of the last Set, or None
    lost,      \* keys evicted while live since their last Set
    owed,      \* Clients -> promise that stood when the request came
    excused    \* clients whose key was lost when the request came

history == <<promise, lost, owed, excused>>
replayVars == <<vars, req, result, history>>

ReplayInit ==
    /\ Init
    /\ req = [c \in Clients |-> "idle"]
    /\ result = [c \in Clients |-> None]
    /\ promise = [k \in Keys |-> None]
    /\ lost = {}
    /\ owed = [c \in Clients |-> None]
    /\ excused = {}

Goto(c, p) == req' = [req EXCEPT ![c] = p]
-----------------------------------------------------------------------------
(* A request comes in and the middleware calls Get. *)
Lookup(c, k) ==
    /\ req[c] = "idle"
    /\ GetRead(c, k)
    /\ Goto(c, "lookup")
    /\ owed' = [owed EXCEPT ![c] = promise[k]]
    /\ excused' = IF k \in lost THEN excused \union {c} ELSE excused
    /\ UNCHANGED <<result, promise, lost>>

LookupCheck(c) == GetCheck(c) /\ UNCHANGED <<req, result, history>>

(* Get's lazy eviction; the history notes when it takes a live entry. *)
LookupEvict(c) ==
    /\ GetEvict(c)
    /\ lost' = IF Live(key[c]) THEN lost \union {key[c]} ELSE lost
    /\ UNCHANGED <<req, result, promise, owed, excused>>

(* The history of a lookup ends with it. *)
Forget(c) ==
    /\ owed' = [owed EXCEPT ![c] = None]
    /\ excused' = excused \ {c}
    /\ UNCHANGED <<promise, lost>>

(* Get has returned: the cached response, or the handler. *)
Replayed(c) ==
    /\ req[c] = "lookup" /\ got[c] # None
    /\ Return(c)
    /\ Goto(c, "idle")
    /\ Forget(c)
    /\ UNCHANGED result

Invoke(c) ==
    /\ req[c] = "lookup" /\ got[c] = None
    /\ Return(c)
    /\ Goto(c, "handler")
    /\ Forget(c)
    /\ UNCHANGED result

HandlerReturns(c, r) ==
    /\ req[c] = "handler"
    /\ Goto(c, "record")
    /\ result' = [result EXCEPT ![c] = r]
    /\ UNCHANGED <<vars, history>>

(* The request dies in its handler: there is no response to record. *)
HandlerFails(c) ==
    req[c] = "handler" /\ Goto(c, "idle") /\ UNCHANGED <<vars, result, history>>

(* "Set records the response under the composite key with the given TTL". *)
Record(c, ttl) ==
    /\ req[c] = "record"
    /\ Set(c, key[c], result[c], ttl)
    /\ Goto(c, "idle")
    /\ result' = [result EXCEPT ![c] = None]
    /\ promise' = [promise EXCEPT ![key[c]] =
                     [resp |-> result[c], expiresAt |-> now + TTL(ttl)]]
    /\ lost' = lost \ {key[c]}
    /\ UNCHANGED <<owed, excused>>

StoreWorks ==
    /\ TickerFires \/ SweepTick \/ purgeExpired \/ Tick
    /\ UNCHANGED <<req, result, history>>

ReplayNext ==
    \/ \E c \in Clients :
          \/ \E k \in Keys : Lookup(c, k)
          \/ LookupCheck(c) \/ LookupEvict(c) \/ Replayed(c) \/ Invoke(c)
          \/ \E r \in Responses : HandlerReturns(c, r)
          \/ HandlerFails(c)
          \/ \E ttl \in TTLArgs : Record(c, ttl)
    \/ StoreWorks

ReplaySpec == ReplayInit /\ [][ReplayNext]_replayVars
-----------------------------------------------------------------------------
(* The types, and where a request's calls of the store are: for the proofs *)
(* of the properties below.                                                *)
ReplayTypeOK ==
    /\ TypeOK
    /\ req \in [Clients -> {"idle", "lookup", "handler", "record"}]
    /\ result \in [Clients -> Responses \union {None}]
    /\ promise \in [Keys -> memEntry \union {None}]
    /\ lost \subseteq Keys /\ excused \subseteq Clients
    /\ owed \in [Clients -> memEntry \union {None}]
    /\ \A c \in Clients : /\ req[c] = "lookup" <=> pc[c] # "idle"
                          /\ req[c] = "record" <=> result[c] # None

(* The request came after a Set of its key that has not expired. *)
Promised(c) == owed[c] # None /\ ~Expired(owed[c], now)

(* "without re-invoking the handler": a request that comes after a Set of  *)
(* its key runs the handler within the TTL only when the lazy eviction of  *)
(* a Get had taken the live entry before it came.  Neither the sweeper,    *)
(* nor a clock that advances during the lookup, nor an eviction or a Set   *)
(* during the lookup makes it run twice.                                   *)
RerunOnlyByRace ==
    [][\A c \in Clients : Invoke(c) /\ Promised(c) => c \in excused]_replayVars

(* "receive the cached response verbatim": a replay is the response of the *)
(* last Set before the request came, whatever is Set during the lookup;    *)
(* and there is no replay without a Set.                                   *)
ReplayVerbatim ==
    [][\A c \in Clients :
          Replayed(c) => owed[c] # None /\ got[c] = owed[c].resp]_replayVars

(***************************************************************************)
(* The inductive invariant of the proofs.  The store holds the last Set or *)
(* nothing, and has it while it is live and not lost.  A Get works with    *)
(* the entry that stood when it was called: while that is live it is       *)
(* either about to be checked or already the answer.                       *)
(***************************************************************************)
StoreKeeps ==
    \A k \in Keys :
        /\ entries[k] \in {None, promise[k]}
        /\ promise[k] # None /\ ~Expired(promise[k], now) /\ k \notin lost =>
              entries[k] # None
LookupKeeps ==
    \A c \in Clients : req[c] = "lookup" =>
        /\ copy[c] \in {None, owed[c]}
        /\ got[c] # None => owed[c] # None /\ got[c] = owed[c].resp
        /\ Promised(c) /\ c \notin excused =>
              pc[c] = "check" \/ (pc[c] = "returned" /\ got[c] # None)
ReplayInv == Inv /\ ReplayTypeOK /\ StoreKeeps /\ LookupKeeps

(* "Subsequent requests with the same K within the TTL receive the cached  *)
(* response verbatim, without re-invoking the handler."  Get's eviction    *)
(* deletes by key, so it can take the entry that a concurrent Set has just *)
(* stored, and the next request runs the handler again.                    *)
ExactlyOnce == [][\A c \in Clients : Invoke(c) => ~Promised(c)]_replayVars
=============================================================================
