------------------------------- MODULE Store -------------------------------
(***************************************************************************)
(* What the Store interface of idempotency/iface.go promises to concurrent *)
(* users: a cache in which a Set overwrites and an entry may vanish at any *)
(* time (a TTL, a Delete, an eviction), and a Get that returns what the    *)
(* key held at some moment between its call and its return.                *)
(***************************************************************************)
CONSTANTS Clients, Keys, Responses, None

VARIABLES
    cache,     \* Keys -> the response a request may be answered with, or None
    phase,     \* Clients -> "idle", "getting" or "returned"
    key,       \* Clients -> the key of the client's Get
    offered,   \* Clients -> what key held since the Get was called
    got        \* Clients -> what the Get returned, None for (nil, false)

vars == <<cache, phase, key, offered, got>>

Init ==
    /\ cache = [k \in Keys |-> None]
    /\ phase = [c \in Clients |-> "idle"]
    /\ key \in [Clients -> Keys]
    /\ offered = [c \in Clients |-> {}]
    /\ got = [c \in Clients |-> None]

(* A Get that is still running is offered what each step leaves there. *)
Offer ==
    offered' = [c \in Clients |-> IF phase'[c] = "getting"
                                  THEN offered[c] \union {cache'[key'[c]]}
                                  ELSE {}]

(* "If an entry already exists, Set MUST overwrite it". *)
Set(k, r) ==
    /\ cache' = [cache EXCEPT ![k] = r]
    /\ UNCHANGED <<phase, key, got>>
    /\ Offer

(* Delete, and an expiry. *)
Remove(ks) ==
    /\ cache' = [k \in Keys |-> IF k \in ks THEN None ELSE cache[k]]
    /\ UNCHANGED <<phase, key, got>>
    /\ Offer

GetCall(c, k) ==
    /\ phase[c] = "idle"
    /\ phase' = [phase EXCEPT ![c] = "getting"]
    /\ key' = [key EXCEPT ![c] = k]
    /\ UNCHANGED <<cache, got>>
    /\ Offer

(* The Get may evict its key as it returns. *)
GetReturn(c) ==
    /\ phase[c] = "getting"
    /\ cache' \in {cache, [cache EXCEPT ![key[c]] = None]}
    /\ \E r \in offered[c] \union {cache'[key[c]]} : got' = [got EXCEPT ![c] = r]
    /\ phase' = [phase EXCEPT ![c] = "returned"]
    /\ UNCHANGED key
    /\ Offer

GetAtOnce(c, k) ==
    /\ phase[c] = "idle"
    /\ phase' = [phase EXCEPT ![c] = "returned"]
    /\ key' = [key EXCEPT ![c] = k]
    /\ got' = [got EXCEPT ![c] = cache[k]]
    /\ UNCHANGED cache
    /\ Offer

Return(c) ==
    /\ phase[c] = "returned"
    /\ phase' = [phase EXCEPT ![c] = "idle"]
    /\ got' = [got EXCEPT ![c] = None]
    /\ UNCHANGED <<cache, key>>
    /\ Offer

Next ==
    \/ \E k \in Keys, r \in Responses : Set(k, r)
    \/ \E ks \in SUBSET Keys : Remove(ks)
    \/ \E c \in Clients :
          \/ \E k \in Keys : GetCall(c, k) \/ GetAtOnce(c, k)
          \/ GetReturn(c) \/ Return(c)

Spec == Init /\ [][Next]_vars
=============================================================================
