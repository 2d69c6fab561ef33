------------------------------ MODULE ItemStore ------------------------------
(***************************************************************************)
(* What a shard of the memcached server promises to the commands that run  *)
(* on it: a map from keys to entries.  A step stores one key anew, with a  *)
(* version that grows by one as long as the key stays in the map; and any  *)
(* step may lose entries, for items expire, are flushed and removed, and   *)
(* are evicted to make room.  Memory, reference counts and timers are no   *)
(* part of the promise.                                                    *)
(***************************************************************************)
EXTENDS Integers

CONSTANTS Key, Data, None

VARIABLE store

Entry(v, d) == [version |-> v, data |-> d]

Init == store = [k \in Key |-> None]

Version(k) == IF store[k] = None THEN 0 ELSE store[k].version

KeptOrLost(K) == \A k \in K : store'[k] \in {store[k], None}

Lose == KeptOrLost(Key)

Put(k, d) == /\ store'[k] = Entry(Version(k) + 1, d)
             /\ KeptOrLost(Key \ {k})

(* The keys whose entry is a new one: none, or the one that is put. *)
Changed == {k \in Key : store'[k] \notin {store[k], None}}

Next == \A k \in Changed : \E d \in Data : Put(k, d)

Spec == Init /\ [][Next]_store

=============================================================================
