------------------------------- MODULE DictMap -------------------------------
(***************************************************************************)
(* What a dictionary promises its callers: it is a map, and each call acts *)
(* on it at once.  Dict implements it with two hash tables and an          *)
(* incremental migration between them (Dict!ImplementsDictMap).            *)
(***************************************************************************)
CONSTANTS Key, Val, None

VARIABLES
    map,        \* the value of each key, None when it is absent
    ret         \* the answer of the last call

vars == <<map, ret>>

OK  == "DICT_OK"
ERR == "DICT_ERR"

Init == map = [k \in Key |-> None] /\ ret = None

Add(k, v) == IF map[k] = None
             THEN map' = [map EXCEPT ![k] = v] /\ ret' = OK
             ELSE ret' = ERR /\ UNCHANGED map

Replace(k, v) == /\ map' = [map EXCEPT ![k] = v]
                 /\ ret' = IF map[k] = None THEN "added" ELSE "updated"

Delete(k) == /\ map' = [map EXCEPT ![k] = None]
             /\ ret' = IF map[k] = None THEN ERR ELSE OK

FetchValue(k) == ret' = map[k] /\ UNCHANGED map

(* Some key, when there is one. *)
RandomKey == /\ UNCHANGED map
             /\ IF \A k \in Key : map[k] = None
                THEN ret' = None
                ELSE \E k \in Key : map[k] # None /\ ret' = k

Empty == map' = [k \in Key |-> None] /\ UNCHANGED ret

Next == \/ \E k \in Key : \/ \E v \in Val : Add(k, v) \/ Replace(k, v)
                          \/ Delete(k) \/ FetchValue(k)
        \/ RandomKey
        \/ Empty

Spec == Init /\ [][Next]_vars

=============================================================================
