------------------------------ MODULE MCHashMap ------------------------------
(***************************************************************************)
(* Maps whose keys collide in every way: pairs of a hash value and a       *)
(* number, several keys for one hash value, hash values whose windows      *)
(* overlap or meet the end of the map.                                     *)
(***************************************************************************)
EXTENDS HashMapRoom

MCKeys  == ({0, 7, 15} \X {1, 2}) \cup {<<6, 1>>}
MCH1(k) == k[1]
=============================================================================
