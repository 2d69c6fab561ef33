--------------------------- MODULE MemcacheProtocol ---------------------------
(***************************************************************************)
(* The commands of the memcached server, as the parser leaves them to      *)
(* ascii_protocol::handle, and the parts a command falls into: one for     *)
(* each key it names, or one for each core it concerns.                    *)
(***************************************************************************)
EXTENDS Integers, FiniteSets

CONSTANTS
    Core,
    Key,
    Home,           \* the core a key belongs to: get_cpu
    Text,           \* a value that is no number
    MaxNum,         \* the largest number, 2^64 - 1
    Conn,           \* TCP connections and UDP channels
    Request,        \* bound: the commands a connection's client sends
    MaxVersion,     \* bound: how often a key is overwritten
    None

Num  == 0 .. MaxNum
Data == Num \cup {Text}

Writing  == {"set", "add", "replace", "cas"}      \* those with an _insertion
Counting == {"incr", "decr"}
Flushing == {"flush_all", "flush_at"}
Asking   == {"stats", "stats_hash", "version", "error"}

(* What the parser holds after a command: _keys (or _key), _blob, _version or
   _u64, _noreply. *)
Command ==
    [op : Writing, keys : {{k} : k \in Key}, data : Data, num : Nat, noreply : BOOLEAN]
    \cup
    [op : Counting \cup {"delete"}, keys : {{k} : k \in Key}, data : {None},
     num : Nat, noreply : BOOLEAN]
    \cup
    [op : {"get"}, keys : (SUBSET Key) \ {{}}, data : {None}, num : {0}, noreply : {FALSE}]
    \cup
    [op : Flushing, keys : {{}}, data : {None}, num : {0}, noreply : BOOLEAN]
    \cup
    [op : Asking, keys : {{}}, data : {None}, num : {0}, noreply : {FALSE}]

ASSUME ProtocolAssumption ==
    /\ IsFiniteSet(Core) /\ IsFiniteSet(Key) /\ IsFiniteSet(Conn)
    /\ Home \in [Key -> Core]
    /\ MaxNum \in Nat /\ Text \notin Num /\ None \notin Data /\ None \notin Command
    /\ MaxVersion \in Nat \ {0}
    /\ \A c \in Conn : \A r \in Request[c] : r \in Command

KeyPart(k)    == [of |-> "key", key |-> k, core |-> Home[k]]
CorePart(c)   == [of |-> "cache", key |-> None, core |-> c]
SystemPart(c) == [of |-> "system", key |-> None, core |-> c]

(* stats adds up the shards' counters and then the cores' own. *)
Parts(r) == {KeyPart(k) : k \in r.keys}
            \cup (IF r.op \in Flushing \cup {"stats", "stats_hash"}
                  THEN {CorePart(c) : c \in Core} ELSE {})
            \cup (IF r.op = "stats" THEN {SystemPart(c) : c \in Core} ELSE {})

(* The only key of a command that has one. *)
TheKey(r) == CHOOSE k \in r.keys : TRUE

(* What the parts of a command have come to: nothing yet, and the results f
   besides the results g. *)
Nothing == [p \in {} |-> None]

Besides(f, g) == [p \in DOMAIN f \cup DOMAIN g |->
                    IF p \in DOMAIN f THEN f[p] ELSE g[p]]

NoCall == [cmd |-> None, left |-> {}, got |-> Nothing]

=============================================================================
