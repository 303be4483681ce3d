------------------------------- MODULE KeyMap -------------------------------
(***************************************************************************)
(* What a user of the hash map relies on: the keys it has put are there    *)
(* until it clears the map, and a walk over the map in pieces gives each   *)
(* key once.  The value of a key is a reference the user gets with it, so  *)
(* losing a key is losing its value.                                       *)
(***************************************************************************)
EXTENDS FiniteSets

VARIABLES
  keys,       \* the keys in the map
  delivered   \* those the walk has given so far

mapVars == <<keys, delivered>>

MapInit == keys = {} /\ delivered = {}

\* A key is put, while no walk is under way.
Put(k) == delivered = {} /\ keys' = keys \cup {k} /\ UNCHANGED delivered

\* A piece of the walk: more keys of the map have been given.
Deliver == delivered \subseteq delivered' /\ delivered' \subseteq keys /\ UNCHANGED keys

Clear == keys' = {} /\ delivered' = {}

MapNext == (\E k \in keys' : Put(k)) \/ Deliver \/ Clear

MapSpec == MapInit /\ [][MapNext]_mapVars
=============================================================================
