------------------------------ MODULE SortedMap ------------------------------
(***************************************************************************)
(* What the library promises to its callers: a map from keys to values     *)
(* whose operations each take effect at one instant between the call and   *)
(* the return.                                                             *)
(*                                                                         *)
(* It follows CONTRACT.md's postconditions through the code that returns   *)
(* them: Get and Delete report whether the key was present, Put overwrites,*)
(* Len counts, Clear empties and Clone hands out a snapshot.               *)
(***************************************************************************)
EXTENDS NodeKinds

CONSTANTS
  Procs,    \* the goroutines that call the map
  Keys, Values,
  none      \* no key, no value, no result

VARIABLES
  dict,     \* key |-> value
  client    \* the call each goroutine is in

smVars == <<dict, client>>

KeyOps   == {"Get", "Delete"}
PlainOps == {"Len", "Clear", "Clone"}
Writers  == {"Put", "Delete", "Clear"}

\* The calls a goroutine may make.
Calls ==
       [op : {"Put"}, key : Keys, val : Values]
  \cup [op : KeyOps, key : Keys, val : {none}]
  \cup [op : PlainOps, key : {none}, val : {none}]

IdleClient == [phase |-> "idle", req |-> none, result |-> none]

SMInit ==
  /\ dict = Empty
  /\ client = [p \in Procs |-> IdleClient]

SMCall(p, req) ==
  /\ client[p].phase = "idle"
  /\ client' = [client EXCEPT ![p] =
                  [phase |-> "pending", req |-> req, result |-> none]]
  /\ UNCHANGED dict

Answered(req) ==
  CASE req.op = "Put"    -> "ok"
    [] req.op = "Clear"  -> "ok"
    [] req.op = "Get"    -> IF req.key \in DOMAIN dict THEN dict[req.key] ELSE none
    [] req.op = "Delete" -> req.key \in DOMAIN dict
    [] req.op = "Len"    -> Count(dict)
    [] req.op = "Clone"  -> dict

Effect(req) ==
  CASE req.op = "Put"    -> With(dict, req.key, req.val)
    [] req.op = "Delete" -> Without(dict, req.key)
    [] req.op = "Clear"  -> Empty
    [] OTHER             -> dict

\* The instant at which p's call takes effect.
SMApply(p) ==
  /\ client[p].phase = "pending"
  /\ client' = [client EXCEPT ![p].phase = "applied",
                              ![p].result = Answered(client[p].req)]
  /\ dict' = Effect(client[p].req)

SMReturn(p) ==
  /\ client[p].phase = "applied"
  /\ client' = [client EXCEPT ![p] = IdleClient]
  /\ UNCHANGED dict

SMNext ==
  \E p \in Procs :
    \/ \E req \in Calls : SMCall(p, req)
    \/ SMApply(p)
    \/ SMReturn(p)

SMSpec == SMInit /\ [][SMNext]_smVars
=============================================================================
