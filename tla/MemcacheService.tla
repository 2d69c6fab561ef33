--------------------------- MODULE MemcacheService ---------------------------
(***************************************************************************)
(* What a client of the memcached server may rely on, whichever core its   *)
(* connection and its keys are on.  A command takes effect between the     *)
(* moment the server has it and the moment it answers, once for each of    *)
(* its parts: at once for a command on one key, one key at a time for a    *)
(* get of many, one core at a time for flush_all and stats.  The answer    *)
(* says what the effect found.  Entries may be lost at any time; a write   *)
(* that finds no memory says so, and the key may have lost its old value.  *)
(***************************************************************************)
EXTENDS MemcacheProtocol

VARIABLES
    store,          \* the entry of each key
    call,           \* of each client: the command at work, its parts still to
                    \* take effect and what the others found
    reply           \* of each client: the answer on its way

S == INSTANCE ItemStore

Init == /\ S!Init
        /\ call = [c \in Conn |-> NoCall] /\ reply = [c \in Conn |-> None]

Idle(c) == call[c] = NoCall /\ reply[c] = None

Call(c, r) == /\ Idle(c)
              /\ call' = [call EXCEPT ![c] = [cmd |-> r, left |-> Parts(r), got |-> Nothing]]
              /\ UNCHANGED <<store, reply>>

(* A part has taken effect and found a. *)
Found(c, p, a) ==
    /\ call' = [call EXCEPT ![c].left = @ \ {p}, ![c].got = Besides([q \in {p} |-> a], @)]
    /\ UNCHANGED reply

Finds(c, p, a) == Found(c, p, a) /\ UNCHANGED store

Write(c, p, d, a) ==
    \/ S!Put(p.key, d) /\ Found(c, p, a)
    \/ S!KeptOrLost(Key) /\ Found(c, p, "SERVER_ERROR")

(* A write of a key that is, or is not, there. *)
WriteIf(b, c, p, d, otherwise) ==
    IF b THEN Write(c, p, d, "STORED") ELSE Finds(c, p, otherwise)

Count(c, p, d) ==
    LET old == store[p.key]
    IN  \/ old = None /\ Finds(c, p, "NOT_FOUND")
        \/ old # None /\ old.data = Text /\ Finds(c, p, "CLIENT_ERROR")
        \/ old # None /\ old.data \in Num /\ Write(c, p, d[old.data], d[old.data])

KeyEffect(c, p, r) ==
    LET there == store[p.key] # None
    IN  \/ r.op \in Writing /\ Finds(c, p, "SERVER_ERROR")
        \/ r.op = "set"     /\ Write(c, p, r.data, "STORED")
        \/ r.op = "add"     /\ WriteIf(~there, c, p, r.data, "NOT_STORED")
        \/ r.op = "replace" /\ WriteIf(there, c, p, r.data, "NOT_STORED")
        \/ r.op = "cas"     /\ IF there
                               THEN WriteIf(store[p.key].version = r.num, c, p, r.data, "EXISTS")
                               ELSE Finds(c, p, "NOT_FOUND")
        \/ r.op = "get"     /\ Finds(c, p, store[p.key])
        \/ r.op = "incr"    /\ Count(c, p, [n \in Num |-> (n + r.num) % (MaxNum + 1)])
        \/ r.op = "decr"    /\ Count(c, p, [n \in Num |-> IF r.num > n THEN 0 ELSE n - r.num])
        \/ /\ r.op = "delete"
           /\ store'[p.key] = None /\ S!KeptOrLost(Key)
           /\ Found(c, p, IF there THEN "DELETED" ELSE "NOT_FOUND")

OfCore(i) == {k \in Key : Home[k] = i}

CoreEffect(c, p, r) ==
    \/ /\ r.op = "flush_all" /\ \A k \in OfCore(p.core) : store'[k] = None
       /\ S!KeptOrLost(Key) /\ Found(c, p, "OK")
    \/ r.op = "flush_at" /\ Finds(c, p, "OK")
    \/ /\ r.op \in {"stats", "stats_hash"}
       /\ Finds(c, p, Cardinality({k \in OfCore(p.core) : store[k] # None}))

SystemEffect(c, p) == \E n \in 0 .. Cardinality(Conn) : Finds(c, p, n)

Effect(c, p) ==
    /\ p \in call[c].left /\ DOMAIN store' = Key
    /\ \E r \in Request[c] :
          /\ call[c].cmd = r
          /\ \/ p.of = "key"    /\ KeyEffect(c, p, r)
             \/ p.of = "cache"  /\ CoreEffect(c, p, r)
             \/ p.of = "system" /\ SystemEffect(c, p)

(* Several parts in one step, when the core that has the connection has them
   all: a get of many keys does not write. *)
EffectOfMany(c) ==
    \E P \in SUBSET call[c].left :
        /\ \A p \in P : p.of = "key" /\ call[c].cmd.op = "get"
        /\ call' = [call EXCEPT ![c].left = @ \ P,
                                ![c].got = Besides([p \in P |-> store[p.key]], @)]
        /\ UNCHANGED <<store, reply>>

Answer(r, got) == IF r.noreply THEN None ELSE [op |-> r.op, got |-> got]

Return(c) == /\ call[c].cmd # None /\ call[c].left = {}
             /\ reply' = [reply EXCEPT ![c] = Answer(call[c].cmd, call[c].got)]
             /\ call' = [call EXCEPT ![c] = NoCall]
             /\ UNCHANGED store

(* What is no command is answered without effect. *)
Refuse(c) == /\ Idle(c)
             /\ reply' = [reply EXCEPT ![c] = [op |-> "refused", got |-> <<>>]]
             /\ UNCHANGED <<store, call>>

Delivered(c) == /\ reply[c] # None
                /\ reply' = [reply EXCEPT ![c] = None]
                /\ UNCHANGED <<store, call>>

Next ==
    \/ S!Lose /\ DOMAIN store' = Key /\ UNCHANGED <<call, reply>>
    \/ \E c \in Conn :
          \/ \E r \in Request[c] : Call(c, r)
          \/ call[c].cmd # None /\ (EffectOfMany(c) \/ \E p \in call[c].left : Effect(c, p))
          \/ Return(c) \/ Refuse(c) \/ Delivered(c)

Spec == Init /\ [][Next]_<<store, call, reply>>

=============================================================================
