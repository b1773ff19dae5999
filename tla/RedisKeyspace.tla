--------------------------- MODULE RedisKeyspace ---------------------------
(***************************************************************************)
(* The part of the Redis keyspace (redis-2.8.19/src) that the application  *)
(* relies on: string keys with an optional time to live, and ranges of a   *)
(* list.  Redis runs one command at a time, so a command is one step.      *)
(*                                                                         *)
(* dict is db->dict restricted to string keys: the value of a key, or Null *)
(* when the key is absent.  expires is the set of keys of db->expires.     *)
(* Time is abstracted: a key of expires may lapse at any later step.       *)
(***************************************************************************)
EXTENDS Integers, Sequences

CONSTANTS
    Keys,   \* the string keys the application uses
    Null    \* absence of a value

VARIABLES
    dict,     \* dict[k]: the value stored at k, or Null
    expires   \* the keys that have a time to live

keyspace == <<dict, expires>>

KeyspaceInit ==
    /\ dict = [k \in Keys |-> Null]
    /\ expires = {}

(***************************************************************************)
(* Commands.                                                               *)
(***************************************************************************)

\* SET k v: setKey adds or overwrites the key and removes its expire.
SetCommand(k, v) ==
    /\ dict' = [dict EXCEPT ![k] = v]
    /\ expires' = expires \ {k}

\* EXPIRE k seconds, with seconds > 0: nothing happens to an absent key.
ExpireCommand(k) ==
    /\ expires' = IF dict[k] = Null THEN expires ELSE expires \cup {k}
    /\ UNCHANGED dict

\* A mistaken deletion that forgets the entry of db->expires.
DeleteFromDictOnly(k) ==
    /\ k \in expires
    /\ dict' = [dict EXCEPT ![k] = Null]
    /\ UNCHANGED expires

\* The time to live of k has run out: the key goes with its expire entry,
\* by a lookup of k (expireIfNeeded) or by the active expire cycle.
ExpireIfNeeded(k) ==
    /\ k \in expires
    /\ dict' = [dict EXCEPT ![k] = Null]
    /\ expires' = expires \ {k}

\* LRANGE: zero-based, inclusive; negative indexes count from the end.
LRange(list, start, end) ==
    LET llen == Len(list)
        from == IF start < 0 THEN llen + start ELSE start
        to   == IF end < 0 THEN llen + end ELSE end
        lo   == IF from < 0 THEN 0 ELSE from
        hi   == IF to >= llen THEN llen - 1 ELSE to
    IN  IF lo > to \/ lo >= llen THEN <<>> ELSE SubSeq(list, lo + 1, hi + 1)

(***************************************************************************)
(* Properties.                                                             *)
(***************************************************************************)

\* Only keys that exist have an expire entry: getExpire (db.c) asserts it on
\* every lookup, and a violation would abort the Redis server.
ExpiresInDict == \A k \in expires : dict[k] # Null

=============================================================================
