------------------------------- MODULE Memcache -------------------------------
(***************************************************************************)
(* The memcached server as its clients meet it (src/engine/memcache.cc     *)
(* from sharded_cache on): TCP connections and UDP channels, each on one   *)
(* core, whose protocol object takes one command after the other, runs it  *)
(* on the shards of the cores that own the keys and writes the answer.     *)
(*                                                                         *)
(* A core's reactor runs one task at a time, to its end.  A task for       *)
(* another core is a message; it refers to the key and the insertion where *)
(* the protocol object keeps them, and reads them when it runs.            *)
(*                                                                         *)
(* A shard is what CacheShard implements, an ItemStore: its timers and     *)
(* evictions are losses here.  The counters of commands and hits and the   *)
(* layout of answers are left out; so is what the parser reads from bytes. *)
(***************************************************************************)
EXTENDS MemcacheProtocol

CONSTANTS
    At,             \* the core a connection is on
    Udp             \* those of Conn that are UDP channels

ASSUME ServerAssumption == At \in [Conn -> Core] /\ Udp \subseteq Conn

VARIABLES
    shard,          \* of each core: its cache, from keys to items
    conn,           \* the connections with their protocol objects
    mail            \* tasks and their results on the way between cores

vars == <<shard, conn, mail>>

Phase == {"closed", "waiting", "parsed", "working", "written"}

Shard == [Key -> [version : 1 .. MaxVersion, data : Data] \cup {None}]

NoInsertion == [key |-> None, data |-> None]

(* got is _items of a get of many keys, and what the future brings of the
   others; out is the answer between write and flush. *)
Fresh(phase) == [phase |-> phase, _parser |-> None, _insertion |-> NoInsertion,
                 got |-> Nothing, out |-> None]

TypeOK ==
    /\ shard \in [Core -> Shard]
    /\ \A c \in Conn : /\ conn[c].phase \in Phase
                       /\ conn[c]._parser \in Request[c] \cup {None}
                       /\ conn[c]._insertion \in [key : Key \cup {None}, data : Data \cup {None}]
    /\ \A m \in mail : m.conn \in Conn /\ m.done \in BOOLEAN

Init == /\ shard = [i \in Core |-> [k \in Key |-> None]]
        /\ conn = [c \in Conn |-> Fresh(IF c \in Udp THEN "waiting" ELSE "closed")]
        /\ mail = {}

-----------------------------------------------------------------------------
(* The operations of a shard: the set of what they may do to it, and return. *)

Outcome(st, val) == [shard |-> st, res |-> [threw |-> FALSE, val |-> val]]

OutOfMemory == [threw |-> TRUE, val |-> None]

BadAlloc(st) == [shard |-> st, res |-> OutOfMemory]

(* slab->create makes an item, evicting others if it must, or throws; by then
   the old item is erased.  At the bound on versions it throws. *)
Create(st, n, version, val) ==
    {Outcome([k \in Key |-> IF k = n.key THEN [version |-> version, data |-> n.data]
                            ELSE IF k \in S THEN None ELSE st[k]], val)
        : S \in IF version =< MaxVersion
                THEN SUBSET {k \in Key \ {n.key} : st[k] # None} ELSE {}}
    \cup {BadAlloc([st EXCEPT ![n.key] = None])}

add_new(st, n, val) == Create(st, n, 1, val)

add_overriding(st, n, val) == Create(st, n, st[n.key].version + 1, val)

set(st, n) == IF st[n.key] = None THEN add_new(st, n, FALSE)
              ELSE add_overriding(st, n, TRUE)

(* Mistake: what is there is overwritten. *)
AddAlways(st, n) == IF st[n.key] # None THEN add_overriding(st, n, TRUE)
                    ELSE add_new(st, n, TRUE)

add(st, n) == IF st[n.key] # None THEN {Outcome(st, FALSE)}
              ELSE add_new(st, n, TRUE)

replace(st, n) == IF st[n.key] = None THEN {Outcome(st, FALSE)}
                  ELSE add_overriding(st, n, TRUE)

cas(st, n, version) ==
    IF st[n.key] = None THEN {Outcome(st, "not_found")}
    ELSE IF st[n.key].version # version THEN {Outcome(st, "bad_version")}
    ELSE add_overriding(st, n, "stored")

remove(st, k) == {Outcome([st EXCEPT ![k] = None], st[k] # None)}

get(st, k) == {Outcome(st, st[k])}

(* incr and decr: the number in the item and whether it was changed; f is the
   new number, for whose text there may be no memory, and then nothing is lost. *)
Arithmetic(st, k, f) ==
    IF st[k] = None THEN {Outcome(st, <<None, FALSE>>)}
    ELSE IF st[k].data = Text THEN {Outcome(st, <<Text, FALSE>>)}
    ELSE LET d == f[st[k].data]
         IN  {BadAlloc(st)} \cup add_overriding(st, [key |-> k, data |-> d], <<d, TRUE>>)

incr(st, k, delta) == Arithmetic(st, k, [n \in Num |-> (n + delta) % (MaxNum + 1)])

decr(st, k, delta) ==
    Arithmetic(st, k, [n \in Num |-> n - (IF n < delta THEN n ELSE delta)])

flush_all(st) == {Outcome([k \in Key |-> None], TRUE)}

(* The timer goes off later: see Lose. *)
flush_at(st) == {Outcome(st, TRUE)}

stats(st) == {Outcome(st, Cardinality({k \in Key : st[k] # None}))}

(* TCP connections count themselves in and out. *)
curr_connections(i) ==
    Cardinality({c \in Conn \ Udp : At[c] = i /\ conn[c].phase # "closed"})

-----------------------------------------------------------------------------
(* Tasks for a shard. *)

(* What a task reads of its protocol object o: std::ref(insertion), or
   std::ref(key), be it _key or one of _keys. *)
Referred(o, p) ==
    IF o._parser.op \in Writing THEN o._insertion
    ELSE [key  |-> IF o._parser.keys = {} \/ p.key \in o._parser.keys
                   THEN p.key ELSE TheKey(o._parser),
          data |-> None]

(* The version or the amount goes by value.  History: what the references led
   to when the task was made. *)
Task(c, o, p) == [conn |-> c, part |-> p, op |-> o._parser.op, num |-> o._parser.num,
                  sent |-> Referred(o, p), done |-> FALSE, res |-> None]

(* A task runs on its core; n is what it reads of the protocol object. *)
Run(m, n) ==
    LET i  == m.part.core
        st == shard[i]
    IN  IF m.part.of = "system" THEN {Outcome(st, curr_connections(i))}
        ELSE CASE m.op = "set"       -> set(st, n)
               [] m.op = "add"       -> add(st, n)
               [] m.op = "replace"   -> replace(st, n)
               [] m.op = "cas"       -> cas(st, n, m.num)
               [] m.op = "get"       -> get(st, n.key)
               [] m.op = "delete"    -> remove(st, n.key)
               [] m.op = "incr"      -> incr(st, n.key, m.num)
               [] m.op = "decr"      -> decr(st, n.key, m.num)
               [] m.op = "flush_all" -> flush_all(st)
               [] m.op = "flush_at"  -> flush_at(st)
               [] OTHER              -> stats(st)

(* The tasks for connection c's own core run at once.  There are several only
   of a get of many keys, which leaves the shard as it is. *)
RunHere(c, o, M) ==
    IF M = {} THEN {[shard |-> shard[At[c]], got |-> o.got]}
    ELSE LET m == CHOOSE m \in M : TRUE
             read(k) == (CHOOSE x \in get(shard[At[c]], k) : TRUE).res
         IN  {[shard |-> x.shard,
               got |-> Besides([p \in {t.part : t \in M} |->
                                  IF p = m.part THEN x.res ELSE read(p.key)], o.got)]
                : x \in Run(m, Referred(o, m.part))}

(* Tasks for the parts P, made by connection c in the state o. *)
Start(c, o, P) ==
    LET T == {Task(c, o, p) : p \in P}
        H == {m \in T : m.part.core = At[c]}
    IN  /\ \E x \in RunHere(c, o, H) :
              /\ shard' = [shard EXCEPT ![At[c]] = x.shard]
              /\ conn' = [conn EXCEPT ![c] = [o EXCEPT !.got = x.got]]
        /\ mail' = mail \cup (T \ H)

-----------------------------------------------------------------------------
(* Connections. *)

Accept(c) == /\ c \notin Udp /\ conn[c].phase = "closed"
             /\ conn' = [conn EXCEPT ![c] = Fresh("waiting")]
             /\ UNCHANGED <<shard, mail>>

(* handle() of a connection at its end writes nothing, and the loop is over. *)
Close(c) == /\ c \notin Udp /\ conn[c].phase = "waiting"
            /\ conn' = [conn EXCEPT ![c] = Fresh("closed")]
            /\ UNCHANGED <<shard, mail>>

(* handle() parses a command: a TCP connection's next, or what is in a datagram,
   for which there is a new protocol object.  The last command's insertion is
   forgotten here, for a command does not read it before it sets its own. *)
Receive(c, r) ==
    /\ conn[c].phase = "waiting"
    /\ conn' = [conn EXCEPT ![c] = [Fresh("parsed") EXCEPT !._parser = r]]
    /\ UNCHANGED <<shard, mail>>

(* A datagram that is one of several; shorter ones than its header are dropped. *)
Refuse(c) ==
    /\ c \in Udp /\ conn[c].phase = "waiting"
    /\ conn' = [conn EXCEPT ![c].phase = "written",
                            ![c].out = [op |-> "refused", got |-> <<>>]]
    /\ UNCHANGED <<shard, mail>>

prepare_insertion(r) == [key |-> TheKey(r), data |-> r.data]

(* The continuation of the parser: the switch on its state. *)
Dispatch(c) ==
    LET r == conn[c]._parser
    IN  /\ conn[c].phase = "parsed"
        /\ Start(c, [conn[c] EXCEPT !.phase = "working",
                        !._insertion = IF r.op \in Writing THEN prepare_insertion(r) ELSE @],
                 {p \in Parts(r) : p.of # "system"})

(* There is no memory for the insertion: the command is over without a task. *)
PrepareFails(c) ==
    LET r == conn[c]._parser
    IN  /\ conn[c].phase = "parsed" /\ r.op \in Writing
        /\ conn' = [conn EXCEPT ![c].phase = "working",
                                ![c].got = [p \in Parts(r) |-> OutOfMemory]]
        /\ UNCHANGED <<shard, mail>>

(* Mistake: the connection's own core is not asked. *)
AskOthers(c) ==
    /\ conn[c].phase = "working" /\ conn[c]._parser.op = "stats"
    /\ DOMAIN conn[c].got = {CorePart(i) : i \in Core}
    /\ \A m \in mail : m.conn # c
    /\ Start(c, conn[c], {SystemPart(i) : i \in Core \ {At[c]}})

(* print_stats has the shards' sum and asks for the cores'. *)
print_stats(c) ==
    /\ conn[c].phase = "working" /\ conn[c]._parser.op = "stats"
    /\ DOMAIN conn[c].got = {CorePart(i) : i \in Core}
    /\ \A m \in mail : m.conn # c
    /\ Start(c, conn[c], {SystemPart(i) : i \in Core})

Execute(m) ==
    /\ m \in mail /\ ~m.done
    /\ \E x \in Run(m, Referred(conn[m.conn], m.part)) :
          /\ shard' = [shard EXCEPT ![m.part.core] = x.shard]
          /\ mail' = (mail \ {m}) \cup {[m EXCEPT !.done = TRUE, !.res = x.res]}
    /\ UNCHANGED conn

(* The result reaches the connection's core and fulfils its future. *)
Deliver(m) ==
    /\ m \in mail /\ m.done
    /\ conn' = [conn EXCEPT ![m.conn].got = Besides([p \in {m.part} |-> m.res], @)]
    /\ mail' = mail \ {m}
    /\ UNCHANGED shard

(* What is written for a result: the continuations in handle(), and the catch. *)
Written(op, res) ==
    IF res.threw THEN "SERVER_ERROR"
    ELSE CASE op = "set" -> "STORED"
           [] op \in {"add", "replace"} -> IF res.val THEN "STORED" ELSE "NOT_STORED"
           [] op = "cas" -> [stored |-> "STORED", not_found |-> "NOT_FOUND",
                              bad_version |-> "EXISTS"][res.val]
           [] op = "delete" -> IF res.val THEN "DELETED" ELSE "NOT_FOUND"
           [] op \in Counting -> IF res.val[1] = None THEN "NOT_FOUND"
                                 ELSE IF ~res.val[2] THEN "CLIENT_ERROR"
                                 ELSE res.val[1]
           [] op \in Flushing -> "OK"
           [] OTHER -> res.val

AllWritten(r, got) == [p \in DOMAIN got |-> Written(r.op, got[p])]

(* Mistake: a command that wants no reply is not waited for. *)
RespondEarly(c) ==
    LET r == conn[c]._parser
    IN  /\ conn[c].phase = "working"
        /\ r.noreply \/ DOMAIN conn[c].got = Parts(r)
        /\ conn' = [conn EXCEPT ![c].phase = "written", ![c].got = Nothing,
                      ![c].out = IF r.noreply THEN None
                                 ELSE [op |-> r.op, got |-> AllWritten(r, conn[c].got)]]
        /\ UNCHANGED <<shard, mail>>

Respond(c) ==
    LET r == conn[c]._parser
    IN  /\ conn[c].phase = "working"
        /\ DOMAIN conn[c].got = Parts(r)
        /\ conn' = [conn EXCEPT ![c].phase = "written", ![c].got = Nothing,
                      ![c].out = IF r.noreply THEN None
                                 ELSE [op |-> r.op, got |-> AllWritten(r, conn[c].got)]]
        /\ UNCHANGED <<shard, mail>>

(* flush(), and respond() on a UDP channel, which then forgets the object. *)
Flush(c) ==
    /\ conn[c].phase = "written"
    /\ conn' = [conn EXCEPT ![c] = IF c \in Udp THEN Fresh("waiting")
                                   ELSE [@ EXCEPT !.phase = "waiting", !.out = None]]
    /\ UNCHANGED <<shard, mail>>

(* A shard's expiration timer and its flush timer. *)
Lose(i) ==
    \E S \in (SUBSET {k \in Key : shard[i][k] # None}) \ {{}} :
        /\ shard' = [shard EXCEPT ![i] = [k \in Key |-> IF k \in S THEN None ELSE @[k]]]
        /\ UNCHANGED <<conn, mail>>

Serve(c) == \/ Dispatch(c) \/ PrepareFails(c) \/ print_stats(c) \/ Respond(c) \/ Flush(c)
            \/ \E m \in mail : m.conn = c /\ (Execute(m) \/ Deliver(m))

Next == \/ \E c \in Conn : \/ Serve(c) \/ Accept(c) \/ Close(c) \/ Refuse(c)
                           \/ \E r \in Request[c] : Receive(c, r)
        \/ \E i \in Core : Lose(i)

(* A reactor runs each of its tasks some time, and takes what other cores send
   it; a client takes the answer it is sent. *)
Fairness == \A c \in Conn : WF_vars(Serve(c))

Spec == Init /\ [][Next]_vars /\ Fairness

-----------------------------------------------------------------------------
(* Correctness. *)

(* "The caller must keep @insertion live until the resulting future resolves":
   while a task is on its way, what it refers to in the protocol object is what
   it was sent for; the object has not gone on to another command. *)
RequestIntact ==
    \A m \in mail : ~m.done =>
        /\ conn[m.conn].phase = "working"
        /\ Referred(conn[m.conn], m.part) = m.sent

(* Of a connection's command: what its parts have returned, also what is still
   on its way back. *)
Results(c) ==
    LET back == {m \in mail : m.conn = c /\ m.done}
    IN  Besides([p \in {m.part : m \in back} |-> (CHOOSE m \in back : m.part = p).res],
                conn[c].got)

stores == [k \in Key |-> shard[Home[k]][k]]

calls == [c \in Conn |->
            IF conn[c].phase \in {"parsed", "working"}
            THEN [cmd  |-> conn[c]._parser,
                  left |-> Parts(conn[c]._parser) \ DOMAIN Results(c),
                  got  |-> AllWritten(conn[c]._parser, Results(c))]
            ELSE NoCall]

replies == [c \in Conn |-> conn[c].out]

Service == INSTANCE MemcacheService WITH store <- stores, call <- calls, reply <- replies

(* Each command takes effect on each of its keys at one moment between its
   arrival and its answer, and the answer says what was found at that moment:
   the cores, their messages and a failed allocation do not show. *)
ImplementsService == Service!Spec

(* Every command is answered, or done if no reply is wanted, and its connection
   takes the next: also one that ran out of memory, and one whose keys are
   written by others all the time. *)
CommandsAnswered ==
    \A c \in Conn : conn[c].phase \in {"parsed", "working", "written"}
                        ~> conn[c].phase = "waiting"

=============================================================================
