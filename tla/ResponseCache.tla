----------------------------- MODULE ResponseCache -----------------------------
(***************************************************************************)
(* What the HTTP response cache promises to executeTool(): an abstract     *)
(* cache that says nothing of capacity, eviction or recency.  A lookup     *)
(* answers either nothing, at any time and for any reason, or what was     *)
(* last stored under the key, within its time to live, and only if it has  *)
(* not been invalidated since.                                             *)
(*                                                                         *)
(* HttpCache implements this specification; ExecuteTool is written on top  *)
(* of it.                                                                  *)
(***************************************************************************)
EXTENDS Naturals

CONSTANTS
  Keys,     \* method and path of a request
  Data,     \* response bodies
  Nothing,  \* no response
  Ttls      \* the times to live in use

VARIABLES
  now,      \* Date.now()
  stored,   \* per key: the response and the last instant it may be served
  reply     \* what the last lookup answered

vars == <<now, stored, reply>>

Response == [data : Data, until : Nat]

Live(k) == stored[k] # Nothing /\ now <= stored[k].until

MayHit(k, d) == Live(k) /\ stored[k].data = d

Store(k, d, ttl) ==
  stored' = [stored EXCEPT ![k] = [data |-> d, until |-> now + ttl]]

Forget(k) == stored' = [stored EXCEPT ![k] = Nothing]

-----------------------------------------------------------------------------

Init ==
  /\ now = 0
  /\ stored = [k \in Keys |-> Nothing]
  /\ reply = Nothing

Hit == \E k \in Keys, d \in Data :
  /\ MayHit(k, d)
  /\ reply' = d
  /\ UNCHANGED <<now, stored>>

Miss == reply' = Nothing /\ UNCHANGED <<now, stored>>

Put == \E k \in Keys, d \in Data, ttl \in Ttls :
  /\ Store(k, d, ttl)
  /\ UNCHANGED <<now, reply>>

Invalidate == \E k \in Keys : Forget(k) /\ UNCHANGED <<now, reply>>

Clear == stored' = [k \in Keys |-> Nothing] /\ UNCHANGED <<now, reply>>

Tick == now' = now + 1 /\ UNCHANGED <<stored, reply>>

Next == Hit \/ Miss \/ Put \/ Invalidate \/ Clear \/ Tick

Spec == Init /\ [][Next]_vars
=============================================================================
