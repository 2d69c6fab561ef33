---------------------------- MODULE MemcacheProofs ----------------------------
(***************************************************************************)
(* What TLAPS proves about the memcached server, for any number of cores,  *)
(* connections and keys, and whatever the clients send.                    *)
(***************************************************************************)
EXTENDS Memcache, FiniteSetTheorems, TLAPS

Fields == {"phase", "_parser", "_insertion", "got", "out"}

Slots == {"conn", "part", "op", "num", "sent", "done", "res"}

(* A protocol object: one that has a command has nothing of it yet, one that waits for
   a part of a command that writes has made the insertion, and only one that has written
   its answer holds one. *)
Object(c, o) ==
    /\ DOMAIN o = Fields
    /\ o.phase \in {"parsed", "working"} => o._parser \in Request[c]
    /\ o.phase = "parsed" => o.got = Nothing
    /\ o.phase = "working" /\ o._parser.op \in Writing /\ Parts(o._parser) \ DOMAIN o.got # {}
          => o._insertion = prepare_insertion(o._parser)
    /\ o.phase # "written" => o.out = None

Objects ==
    /\ conn = [c \in Conn |-> conn[c]]
    /\ \A c \in Conn : Object(c, conn[c])

(* What a message stands for: a part of the command its connection works on,
   whose result the connection does not have. *)
Awaited(m) == /\ m.conn \in Conn
              /\ conn[m.conn].phase = "working"
              /\ m.part \in Parts(conn[m.conn]._parser)
              /\ m.part \notin DOMAIN conn[m.conn].got
              /\ ~m.done => /\ Referred(conn[m.conn], m.part) = m.sent
                            /\ m.op = conn[m.conn]._parser.op
                            /\ m.num = conn[m.conn]._parser.num

MailAwaited == \A m \in mail : DOMAIN m = Slots /\ Awaited(m)

(* No part of a command is under way twice. *)
PartsOnce == \A m, n \in mail : m.conn = n.conn /\ m.part = n.part => m = n

Talk == Objects /\ MailAwaited /\ PartsOnce

AtOnce(c, M, m, y) ==
    [p \in {t.part : t \in M} |->
        IF p = m.part THEN y.res ELSE [threw |-> FALSE, val |-> shard[At[c]][p.key]]]

(* What a connection's own core answers at once: one of the tasks runs like any
   other, and if there are several they only read. *)
LEMMA RunHereIs ==
    ASSUME NEW c, NEW o, NEW M, M # {}, NEW x \in RunHere(c, o, M)
    PROVE  \E m \in M : \E y \in Run(m, Referred(o, m.part)) :
              /\ x.shard = y.shard
              /\ x.got = Besides(AtOnce(c, M, m, y), o.got)
<1> DEFINE m == CHOOSE t \in M : TRUE
           read(k) == (CHOOSE y \in get(shard[At[c]], k) : TRUE).res
<1>1. m \in M
  OBVIOUS
<1>2. ASSUME NEW k PROVE read(k) = [threw |-> FALSE, val |-> shard[At[c]][k]]
  <2> DEFINE z == [shard |-> shard[At[c]],
                   res |-> [threw |-> FALSE, val |-> shard[At[c]][k]]]
  <2>1. get(shard[At[c]], k) = {z}
    BY DEF get, Outcome
  <2>2. (CHOOSE y \in {z} : TRUE) = z
    <3> HIDE DEF z
    <3> QED
      OBVIOUS
  <2>3. (CHOOSE y \in get(shard[At[c]], k) : TRUE) = z
    <3> HIDE DEF z
    <3> QED
      BY <2>1, <2>2, Zenon
  <2>4. read(k) = z.res
    <3> HIDE DEF z
    <3> QED
      BY <2>3
  <2> QED
    BY <2>4
<1>3. PICK y \in Run(m, Referred(o, m.part)) :
         x = [shard |-> y.shard,
              got |-> Besides([p \in {t.part : t \in M} |->
                                 IF p = m.part THEN y.res ELSE read(p.key)], o.got)]
  BY DEF RunHere
<1> HIDE DEF m, read
<1>4. [p \in {t.part : t \in M} |-> IF p = m.part THEN y.res ELSE read(p.key)]
        = AtOnce(c, M, m, y)
  BY <1>2 DEF AtOnce
<1>5. x = [shard |-> y.shard, got |-> Besides(AtOnce(c, M, m, y), o.got)]
  BY <1>3, <1>4
<1>6. x.shard = y.shard /\ x.got = Besides(AtOnce(c, M, m, y), o.got)
  BY <1>5
<1> QED
  BY <1>1, <1>3, <1>6

LEMMA HereAnswered ==
    ASSUME NEW c, NEW o, NEW M, NEW x \in RunHere(c, o, M)
    PROVE  DOMAIN x.got = {t.part : t \in M} \cup DOMAIN o.got
<1>1. CASE M = {}
  <2>1. x.got = o.got
    BY <1>1 DEF RunHere
  <2> QED
    BY <1>1, <2>1
<1>2. CASE M # {}
  <2>1. PICK m \in M : \E y \in Run(m, Referred(o, m.part)) :
                         x.got = Besides(AtOnce(c, M, m, y), o.got)
    BY <1>2, RunHereIs
  <2>2. PICK y \in Run(m, Referred(o, m.part)) : x.got = Besides(AtOnce(c, M, m, y), o.got)
    BY <2>1
  <2> QED
    BY <2>2 DEF Besides, AtOnce
<1> QED
  BY <1>1, <1>2

(* Starting tasks keeps the invariant when the connection waits for nothing else,
   and the parts are of its command and not answered yet. *)
LEMMA StartTalk ==
    ASSUME Talk, NEW c \in Conn, NEW o, NEW P,
           \A m \in mail : m.conn # c,
           Object(c, o), o.phase = "working",
           P \subseteq Parts(o._parser), P \cap DOMAIN o.got = {},
           Start(c, o, P)
    PROVE  Talk'
<1> DEFINE T == {Task(c, o, p) : p \in P}
           H == {m \in T : m.part.core = At[c]}
<1>1. PICK x \in RunHere(c, o, H) : conn' = [conn EXCEPT ![c] = [o EXCEPT !.got = x.got]]
  BY DEF Start
<1>2. mail' = mail \cup (T \ H)
  BY DEF Start
<1>3. \A m \in T : m = Task(c, o, m.part) /\ m.part \in P
  BY DEF Task
<1>4. DOMAIN x.got = {t.part : t \in H} \cup DOMAIN o.got
  BY HereAnswered
<1>5. \A m \in T \ H : m.part \notin DOMAIN x.got
  BY <1>3, <1>4
<1>6. /\ Object(c, conn'[c])
      /\ conn'[c].phase = "working" /\ conn'[c].got = x.got
      /\ conn'[c]._parser = o._parser /\ conn'[c]._insertion = o._insertion
  <2>1. /\ DOMAIN conn'[c] = Fields /\ conn'[c].phase = "working" /\ conn'[c].got = x.got
        /\ conn'[c]._parser = o._parser /\ conn'[c]._insertion = o._insertion
        /\ conn'[c].out = o.out
    BY <1>1 DEF Talk, Objects, Object, Fields
  <2>2. Parts(o._parser) \ DOMAIN x.got # {} => Parts(o._parser) \ DOMAIN o.got # {}
    BY <1>4
  <2> QED
    BY <2>1, <2>2 DEF Object
<1>7. \A b \in Conn \ {c} : conn'[b] = conn[b]
  BY <1>1 DEF Talk, Objects
<1>8. Objects'
  BY <1>1, <1>6, <1>7 DEF Talk, Objects
<1>9. ASSUME NEW m \in mail' PROVE DOMAIN m = Slots /\ Awaited(m)'
  <2>1. CASE m \in mail
    <3>1. m.conn \in Conn \ {c} /\ DOMAIN m = Slots /\ Awaited(m)
      BY <2>1 DEF Talk, MailAwaited, Awaited
    <3> QED
      BY <3>1, <1>7 DEF Awaited, Referred
  <2>2. CASE m \in T \ H
    <3>1. m = Task(c, o, m.part) /\ m.part \in P
      BY <2>2, <1>3
    <3>2. m.conn = c /\ m.sent = Referred(o, m.part)
      BY <3>1 DEF Task
    <3>3. DOMAIN m = Slots
      BY <3>1 DEF Task, Slots
    <3>4. m.op = o._parser.op /\ m.num = o._parser.num
      BY <3>1 DEF Task
    <3> QED
      BY <2>2, <3>1, <3>2, <3>3, <3>4, <1>5, <1>6 DEF Awaited, Referred
  <2> QED
    BY <1>2, <2>1, <2>2
<1>10. PartsOnce'
  <2>1. \A m \in T : m.conn = c
    BY DEF Task
  <2> QED
    BY <1>2, <1>3, <2>1 DEF Talk, PartsOnce
<1> QED
  BY <1>8, <1>9, <1>10 DEF Talk, MailAwaited

(* A step that changes one connection for which no message is under way. *)
LEMMA QuietTalk ==
    ASSUME Talk, NEW c \in Conn, NEW o,
           \A m \in mail : m.conn # c,
           Object(c, o),
           conn' = [conn EXCEPT ![c] = o], mail' = mail
    PROVE  Talk'
<1>1. conn'[c] = o /\ \A b \in Conn \ {c} : conn'[b] = conn[b]
  BY DEF Talk, Objects
<1>2. Objects'
  BY <1>1 DEF Talk, Objects
<1>3. ASSUME NEW m \in mail' PROVE DOMAIN m = Slots /\ Awaited(m)'
  BY <1>1 DEF Talk, MailAwaited, Awaited, Referred
<1> QED
  BY <1>2, <1>3 DEF Talk, MailAwaited, PartsOnce

(* While a connection does not work on a command, no message is for it. *)
LEMMA IdleQuiet ==
    ASSUME Talk, NEW c \in Conn, conn[c].phase # "working"
    PROVE  \A m \in mail : m.conn # c
BY DEF Talk, MailAwaited, Awaited

LEMMA InitTalk == Init => Talk
BY DEF Init, Talk, Objects, Object, MailAwaited, PartsOnce, Fresh, Fields

LEMMA DispatchTalk == ASSUME Talk, NEW c \in Conn, Dispatch(c) PROVE Talk'
<1> DEFINE r == conn[c]._parser
           o == [conn[c] EXCEPT !.phase = "working",
                    !._insertion = IF r.op \in Writing THEN prepare_insertion(r) ELSE @]
           P == {p \in Parts(r) : p.of # "system"}
<1>1. conn[c].phase = "parsed" /\ Start(c, o, P)
  BY DEF Dispatch
<1>2. \A m \in mail : m.conn # c
  BY <1>1, IdleQuiet
<1>3. /\ DOMAIN conn[c] = Fields /\ conn[c].got = Nothing
      /\ r \in Request[c] /\ conn[c].out = None
  BY <1>1 DEF Talk, Objects, Object
<1>4. /\ DOMAIN o = Fields /\ o.phase = "working" /\ o._parser = r /\ o.got = Nothing
      /\ o.out = None
      /\ r.op \in Writing => o._insertion = prepare_insertion(r)
  BY <1>3 DEF Fields
<1>6. Object(c, o)
  <2>1. o.phase # "parsed"
    BY <1>4
  <2> HIDE DEF o
  <2> QED
    BY <1>3, <1>4, <2>1 DEF Object
<1>5. P \subseteq Parts(o._parser) /\ P \cap DOMAIN o.got = {}
  BY <1>4 DEF Nothing
<1> QED
  BY <1>1, <1>2, <1>4, <1>5, <1>6, StartTalk

LEMMA PrepareFailsTalk == ASSUME Talk, NEW c \in Conn, PrepareFails(c) PROVE Talk'
<1> DEFINE r == conn[c]._parser
           o == [conn[c] EXCEPT !.phase = "working", !.got = [p \in Parts(r) |-> OutOfMemory]]
<1>1. conn' = [conn EXCEPT ![c] = o] /\ mail' = mail
  BY DEF PrepareFails, Talk, Objects
<1>2. \A m \in mail : m.conn # c
  BY IdleQuiet DEF PrepareFails
<1>3. DOMAIN conn[c] = Fields /\ r \in Request[c] /\ conn[c].out = None
  BY DEF PrepareFails, Talk, Objects, Object
<1>4. /\ DOMAIN o = Fields /\ o.phase = "working" /\ o._parser = r /\ o.out = None
      /\ DOMAIN o.got = Parts(r)
  BY <1>3 DEF Fields
<1> HIDE DEF o
<1>5. Object(c, o)
  BY <1>3, <1>4 DEF Object
<1> QED
  BY <1>1, <1>2, <1>5, QuietTalk

LEMMA PrintStatsTalk == ASSUME Talk, NEW c \in Conn, print_stats(c) PROVE Talk'
<1> DEFINE P == {SystemPart(i) : i \in Core}
<1>1. /\ conn[c].phase = "working" /\ conn[c]._parser.op = "stats"
      /\ DOMAIN conn[c].got = {CorePart(i) : i \in Core}
      /\ \A m \in mail : m.conn # c
      /\ Start(c, conn[c], P)
  BY DEF print_stats
<1>2. Object(c, conn[c])
  BY DEF Talk, Objects
<1>3. P \subseteq Parts(conn[c]._parser)
  BY <1>1 DEF Parts
<1>4. P \cap DOMAIN conn[c].got = {}
  BY <1>1 DEF SystemPart, CorePart
<1> QED
  BY <1>1, <1>2, <1>3, <1>4, StartTalk

LEMMA ExecuteTalk == ASSUME Talk, NEW m \in mail, Execute(m) PROVE Talk'
<1>1. PICK r : mail' = (mail \ {m}) \cup {[m EXCEPT !.done = TRUE, !.res = r]}
  BY DEF Execute
<1> DEFINE n == [m EXCEPT !.done = TRUE, !.res = r]
<1>2. conn' = conn
  BY DEF Execute
<1>3. n.conn = m.conn /\ n.part = m.part /\ n.done /\ DOMAIN n = DOMAIN m
  BY DEF Talk, MailAwaited
<1>4. Awaited(n)'
  BY <1>2, <1>3 DEF Talk, MailAwaited, Awaited
<1>5. \A k \in mail : DOMAIN k = Slots /\ Awaited(k)'
  BY <1>2 DEF Talk, MailAwaited, Awaited, Referred
<1>6. MailAwaited'
  <2> HIDE DEF n
  <2>1. mail' = (mail \ {m}) \cup {n}
    BY <1>1 DEF n
  <2> QED
    BY <2>1, <1>3, <1>4, <1>5 DEF Talk, MailAwaited
<1>7. PartsOnce'
  <2> HIDE DEF n
  <2>1. mail' = (mail \ {m}) \cup {n}
    BY <1>1 DEF n
  <2> QED
    BY <2>1, <1>3 DEF Talk, PartsOnce
<1>8. Objects'
  BY <1>2 DEF Talk, Objects
<1> QED
  BY <1>6, <1>7, <1>8 DEF Talk

LEMMA DeliverTalk == ASSUME Talk, NEW m \in mail, Deliver(m) PROVE Talk'
<1> DEFINE c == m.conn
           got == Besides([p \in {m.part} |-> m.res], conn[c].got)
<1>1. conn' = [conn EXCEPT ![c].got = got] /\ mail' = mail \ {m}
  BY DEF Deliver
<1>2. /\ c \in Conn /\ conn[c].phase = "working"
      /\ Object(c, conn[c]) /\ DOMAIN conn[c] = Fields
  BY DEF Talk, MailAwaited, Awaited, Objects, Object
<1>3. DOMAIN got = {m.part} \cup DOMAIN conn[c].got
  BY DEF Besides
<1> HIDE DEF got
<1>4. /\ DOMAIN conn'[c] = Fields /\ conn'[c].phase = "working"
      /\ conn'[c]._parser = conn[c]._parser /\ conn'[c]._insertion = conn[c]._insertion
      /\ conn'[c].got = got /\ conn'[c].out = conn[c].out
  BY <1>1, <1>2 DEF Talk, Objects, Fields
<1>5. \A b \in Conn \ {c} : conn'[b] = conn[b]
  BY <1>1 DEF Talk, Objects
<1>6. Objects'
  <2>1. Parts(conn[c]._parser) \ DOMAIN got # {}
          => Parts(conn[c]._parser) \ DOMAIN conn[c].got # {}
    BY <1>3
  <2>2. Object(c, conn'[c])
    BY <1>2, <1>4, <2>1 DEF Object
  <2> QED
    BY <1>1, <1>2, <2>2, <1>5 DEF Talk, Objects
<1>7. ASSUME NEW n \in mail' PROVE DOMAIN n = Slots /\ Awaited(n)'
  <2>1. n \in mail /\ n # m
    BY <1>1
  <2>2. DOMAIN n = Slots /\ Awaited(n)
    BY <2>1 DEF Talk, MailAwaited
  <2>3. CASE n.conn = c
    <3>1. n.part # m.part
      BY <2>1, <2>3 DEF Talk, PartsOnce
    <3> QED
      BY <2>2, <2>3, <3>1, <1>3, <1>4 DEF Awaited, Referred
  <2>4. CASE n.conn # c
    BY <2>2, <2>4, <1>5 DEF Awaited, Referred
  <2> QED
    BY <2>3, <2>4
<1> QED
  BY <1>1, <1>6, <1>7 DEF Talk, MailAwaited, PartsOnce

(* An answer is written when no message is left: they are all for parts whose
   results are not there. *)
LEMMA RespondTalk == ASSUME Talk, NEW c \in Conn, Respond(c) PROVE Talk'
<1>1. \A m \in mail : m.conn # c
  BY DEF Respond, Talk, MailAwaited, Awaited
<1>2. PICK out : conn' = [conn EXCEPT ![c].phase = "written", ![c].got = Nothing, ![c].out = out]
  BY DEF Respond
<1> DEFINE o == [conn[c] EXCEPT !.phase = "written", !.got = Nothing, !.out = out]
<1>3. conn' = [conn EXCEPT ![c] = o] /\ mail' = mail
  BY <1>2 DEF Respond, Talk, Objects
<1>4. Object(c, o)
  BY DEF Talk, Objects, Object, Fields
<1> QED
  BY <1>1, <1>3, <1>4, QuietTalk

LEMMA FlushTalk == ASSUME Talk, NEW c \in Conn, Flush(c) PROVE Talk'
<1> DEFINE o == IF c \in Udp THEN Fresh("waiting")
                ELSE [conn[c] EXCEPT !.phase = "waiting", !.out = None]
<1>1. conn' = [conn EXCEPT ![c] = o] /\ mail' = mail
  BY DEF Flush
<1>2. Object(c, o)
  BY DEF Talk, Objects, Object, Fields, Fresh, Flush
<1>3. \A m \in mail : m.conn # c
  BY IdleQuiet DEF Flush
<1> QED
  BY <1>1, <1>2, <1>3, QuietTalk

(* A connection that has no command, or gets one. *)
LEMMA BetweenTalk ==
    ASSUME Talk, NEW c \in Conn,
           Accept(c) \/ Close(c) \/ Refuse(c) \/ \E r \in Request[c] : Receive(c, r)
    PROVE  Talk'
<1>1. \A m \in mail : m.conn # c
  BY IdleQuiet DEF Accept, Close, Refuse, Receive
<1>2. CASE Accept(c)
  BY <1>1, <1>2, QuietTalk DEF Accept, Fresh, Fields, Object
<1>3. CASE Close(c)
  BY <1>1, <1>3, QuietTalk DEF Close, Fresh, Fields, Object
<1>4. CASE Refuse(c)
  <2> DEFINE o == [conn[c] EXCEPT !.phase = "written", !.out = [op |-> "refused", got |-> <<>>]]
  <2>1. conn' = [conn EXCEPT ![c] = o] /\ mail' = mail
    BY <1>4 DEF Refuse, Talk, Objects
  <2>2. Object(c, o)
    BY DEF Talk, Objects, Object, Fields
  <2> QED
    BY <1>1, <2>1, <2>2, QuietTalk
<1>5. ASSUME NEW r \in Request[c], Receive(c, r) PROVE Talk'
  <2> DEFINE o == [Fresh("parsed") EXCEPT !._parser = r]
  <2>1. conn' = [conn EXCEPT ![c] = o] /\ mail' = mail
    BY <1>5 DEF Receive
  <2>2. Object(c, o)
    BY DEF Fresh, Fields, Object
  <2> QED
    BY <1>1, <2>1, <2>2, QuietTalk
<1> QED
  BY <1>2, <1>3, <1>4, <1>5

LEMMA NextTalk == Talk /\ [Next]_vars => Talk'
<1> SUFFICES ASSUME Talk, [Next]_vars PROVE Talk'
  OBVIOUS
<1>1. CASE UNCHANGED vars
  BY <1>1 DEF vars, Talk, Objects, MailAwaited, Awaited, PartsOnce, Referred
<1>2. ASSUME NEW c \in Conn, Serve(c) PROVE Talk'
  BY <1>2, DispatchTalk, PrepareFailsTalk, PrintStatsTalk, RespondTalk, FlushTalk,
     ExecuteTalk, DeliverTalk DEF Serve
<1>3. ASSUME NEW c \in Conn,
             Accept(c) \/ Close(c) \/ Refuse(c) \/ \E r \in Request[c] : Receive(c, r)
      PROVE  Talk'
  BY <1>3, BetweenTalk
<1>4. ASSUME NEW i \in Core, Lose(i) PROVE Talk'
  <2>1. conn' = conn /\ mail' = mail
    BY <1>4 DEF Lose
  <2> QED
    BY <2>1 DEF Talk, Objects, MailAwaited, Awaited, PartsOnce, Referred
<1> QED
  BY <1>1, <1>2, <1>3, <1>4 DEF Next

-----------------------------------------------------------------------------
(* The operations of a shard. *)

OwnShard(i, st) == st \in Shard /\ \A k \in Key : Home[k] # i => st[k] = None

(* A shard has entries of the keys of its core. *)
Shards == /\ shard = [i \in Core |-> shard[i]]
          /\ \A i \in Core : OwnShard(i, shard[i])

NextVersion(st, k) == (IF st[k] = None THEN 0 ELSE st[k].version) + 1

(* From st to s: k is put, and others may be lost. *)
Puts(st, s, k, d) ==
    /\ s[k] = [version |-> NextVersion(st, k), data |-> d]
    /\ \A j \in Key \ {k} : s[j] \in {st[j], None}

Loses(st, s, k) == s[k] = None /\ \A j \in Key : s[j] \in {st[j], None}

LEMMA ShardEntries ==
    ASSUME NEW st \in Shard, NEW k \in Key
    PROVE  /\ st[k] # None => st[k].version \in 1 .. MaxVersion /\ st[k].data \in Data
           /\ NextVersion(st, k) \in Nat \ {0}
<1>1. st[k] # None => st[k] \in [version : 1 .. MaxVersion, data : Data]
  BY DEF Shard
<1>2. st[k] # None => st[k].version \in 1 .. MaxVersion /\ st[k].data \in Data
  BY <1>1
<1> QED
  BY <1>2, ProtocolAssumption DEF NextVersion

LEMMA CreateIs ==
    ASSUME NEW i \in Core, NEW st, OwnShard(i, st), NEW k \in Key, Home[k] = i, NEW d \in Data,
           NEW val, NEW x \in Create(st, [key |-> k, data |-> d], NextVersion(st, k), val)
    PROVE  /\ OwnShard(i, x.shard)
           /\ \/ x.res = [threw |-> FALSE, val |-> val] /\ Puts(st, x.shard, k, d)
              \/ x.res = [threw |-> TRUE, val |-> None] /\ Loses(st, x.shard, k)
<1> DEFINE v == NextVersion(st, k)
           e == [version |-> v, data |-> d]
           After(S) == [j \in Key |-> IF j = k THEN e ELSE IF j \in S THEN None ELSE st[j]]
           Short == [st EXCEPT ![k] = None]
<1>1. st \in Shard
  BY DEF OwnShard
<1>2. v \in Nat \ {0}
  BY <1>1, ShardEntries
<1>3. CASE x = [shard |-> Short, res |-> [threw |-> TRUE, val |-> None]]
  <2>1. x.shard = Short /\ x.res = [threw |-> TRUE, val |-> None]
    BY <1>3
  <2>2. Short \in Shard
    BY <1>1 DEF Shard
  <2> QED
    BY <1>1, <2>1, <2>2 DEF OwnShard, Loses, Shard
<1>4. ASSUME v =< MaxVersion, NEW S,
             x = [shard |-> After(S), res |-> [threw |-> FALSE, val |-> val]]
      PROVE  OwnShard(i, x.shard) /\ x.res = [threw |-> FALSE, val |-> val]
             /\ Puts(st, x.shard, k, d)
  <2>1. x.shard = After(S) /\ x.res = [threw |-> FALSE, val |-> val]
    BY <1>4
  <2>2. e \in [version : 1 .. MaxVersion, data : Data]
    BY <1>2, <1>4, ProtocolAssumption
  <2> HIDE DEF e
  <2>3. After(S) \in Shard
    BY <1>1, <2>2 DEF Shard
  <2>4. Puts(st, After(S), k, d)
    BY DEF Puts, e
  <2> QED
    BY <2>1, <2>3, <2>4 DEF OwnShard
<1>5. \/ x = [shard |-> Short, res |-> [threw |-> TRUE, val |-> None]]
      \/ v =< MaxVersion /\ \E S : x = [shard |-> After(S), res |-> [threw |-> FALSE, val |-> val]]
  BY DEF Create, Outcome, BadAlloc, OutOfMemory
<1> QED
  BY <1>3, <1>4, <1>5

(* What a step on one shard does to the store that all of them are. *)
LEMMA StoreAfter ==
    ASSUME Shards, NEW k \in Key, NEW st, OwnShard(Home[k], st),
           shard' = [shard EXCEPT ![Home[k]] = st]
    PROVE  /\ Shards'
           /\ \A d : Puts(shard[Home[k]], st, k, d) => Service!S!Put(k, d)
           /\ Loses(shard[Home[k]], st, k)
                 => Service!S!KeptOrLost(Key)
<1>1. Home \in [Key -> Core]
  BY ProtocolAssumption
<1>2. \A j \in Key : shard'[Home[j]][j] = IF Home[j] = Home[k] THEN st[j] ELSE shard[Home[j]][j]
  BY <1>1 DEF Shards
<1>3. Shards'
  BY <1>1 DEF Shards
<1>4. ASSUME NEW d, Puts(shard[Home[k]], st, k, d) PROVE Service!S!Put(k, d)
  BY <1>2, <1>4
     DEF Puts, NextVersion, Service!S!Put, Service!S!Entry, Service!S!Version,
         Service!S!KeptOrLost, stores
<1>5. ASSUME Loses(shard[Home[k]], st, k)
      PROVE  Service!S!KeptOrLost(Key)
  BY <1>2, <1>5 DEF Loses, Service!S!KeptOrLost, stores
<1> QED
  BY <1>3, <1>4, <1>5
-----------------------------------------------------------------------------
(* A part of a command takes effect when its task runs. *)

KeyTask(m, r, k) == m.part = KeyPart(k) /\ m.op = r.op /\ m.num = r.num

(* A write, with what it answers when it stores. *)
LEMMA WriteEffect ==
    ASSUME Shards, NEW c, NEW k \in Key, NEW d \in Data, NEW val, NEW op,
           NEW x \in Create(shard[Home[k]], [key |-> k, data |-> d],
                            NextVersion(shard[Home[k]], k), val),
           shard' = [shard EXCEPT ![Home[k]] = x.shard],
           Service!Found(c, KeyPart(k), Written(op, x.res))
    PROVE  Shards' /\ Service!Write(c, KeyPart(k), d, Written(op, [threw |-> FALSE, val |-> val]))
<1>1. Home[k] \in Core /\ OwnShard(Home[k], shard[Home[k]])
  BY ProtocolAssumption DEF Shards
<1>2. /\ OwnShard(Home[k], x.shard)
      /\ \/ x.res = [threw |-> FALSE, val |-> val] /\ Puts(shard[Home[k]], x.shard, k, d)
         \/ x.res = [threw |-> TRUE, val |-> None] /\ Loses(shard[Home[k]], x.shard, k)
  BY <1>1, CreateIs
<1>3. KeyPart(k).key = k
  BY DEF KeyPart
<1>4. Shards'
  BY <1>2, StoreAfter
<1>5. CASE x.res = [threw |-> FALSE, val |-> val] /\ Puts(shard[Home[k]], x.shard, k, d)
  <2>1. Service!S!Put(k, d)
    BY <1>2, <1>5, StoreAfter
  <2> QED
    BY <2>1, <1>3, <1>4, <1>5 DEF Service!Write
<1>6. CASE x.res = [threw |-> TRUE, val |-> None] /\ Loses(shard[Home[k]], x.shard, k)
  <2>1. Service!S!KeptOrLost(Key)
    BY <1>2, <1>6, StoreAfter
  <2>2. Written(op, x.res) = "SERVER_ERROR"
    BY <1>6 DEF Written
  <2> QED
    BY <2>1, <2>2, <1>4 DEF Service!Write
<1> QED
  BY <1>2, <1>5, <1>6

(* A part that leaves its shard as it is. *)
LEMMA NoWrite ==
    ASSUME Shards, NEW c, NEW p, NEW i \in Core, NEW a, Service!Found(c, p, a),
           shard' = [shard EXCEPT ![i] = shard[i]]
    PROVE  Shards' /\ Service!Finds(c, p, a)
<1>1. shard' = shard
  BY DEF Shards
<1> QED
  BY <1>1 DEF Shards, Service!Finds, stores

(* The answers. *)
LEMMA WrittenIs ==
    ASSUME NEW v
    PROVE  LET res == [threw |-> FALSE, val |-> v]
           IN  /\ Written("set", res) = "STORED"
               /\ Written("add", res) = IF v THEN "STORED" ELSE "NOT_STORED"
               /\ Written("replace", res) = IF v THEN "STORED" ELSE "NOT_STORED"
               /\ Written("cas", res) = [stored |-> "STORED", not_found |-> "NOT_FOUND",
                                        bad_version |-> "EXISTS"][v]
               /\ Written("delete", res) = IF v THEN "DELETED" ELSE "NOT_FOUND"
               /\ \A op \in Flushing : Written(op, res) = "OK"
               /\ \A op \in {"get"} \cup Asking : Written(op, res) = v
<1> DEFINE res == [threw |-> FALSE, val |-> v]
<1>1. ~res.threw /\ res.val = v
  OBVIOUS
<1> HIDE DEF res
<1>2. Written("set", res) = "STORED"
  BY <1>1 DEF Written, Counting, Flushing
<1>3. Written("add", res) = IF v THEN "STORED" ELSE "NOT_STORED"
  BY <1>1 DEF Written, Counting, Flushing
<1>4. Written("replace", res) = IF v THEN "STORED" ELSE "NOT_STORED"
  BY <1>1 DEF Written, Counting, Flushing
<1>5. Written("cas", res) = [stored |-> "STORED", not_found |-> "NOT_FOUND",
                             bad_version |-> "EXISTS"][v]
  BY <1>1 DEF Written, Counting, Flushing
<1>6. Written("delete", res) = IF v THEN "DELETED" ELSE "NOT_FOUND"
  BY <1>1 DEF Written, Counting, Flushing
<1>7. \A op \in Flushing : Written(op, res) = "OK"
  BY <1>1 DEF Written, Counting, Flushing
<1>8. \A op \in {"get"} \cup Asking : Written(op, res) = v
  BY <1>1 DEF Written, Counting, Flushing, Asking
<1> QED
  BY <1>2, <1>3, <1>4, <1>5, <1>6, <1>7, <1>8 DEF res

LEMMA WrittenCount ==
    ASSUME NEW op \in Counting, NEW a
    PROVE  /\ Written(op, [threw |-> FALSE, val |-> <<a, FALSE>>])
                = IF a = None THEN "NOT_FOUND" ELSE "CLIENT_ERROR"
           /\ Written(op, [threw |-> FALSE, val |-> <<a, TRUE>>])
                = IF a = None THEN "NOT_FOUND" ELSE a
<1>1. op \in {"incr", "decr"}
  BY DEF Counting
<1>2. op \notin Flushing /\ op \notin {"add", "replace", "set", "cas", "delete"}
  BY <1>1 DEF Flushing
<1>3. ASSUME NEW res, ~res.threw
      PROVE  Written(op, res) = IF res.val[1] = None THEN "NOT_FOUND"
                                ELSE IF ~res.val[2] THEN "CLIENT_ERROR" ELSE res.val[1]
  BY <1>1, <1>2, <1>3 DEF Written, Counting, Flushing
<1>4. ASSUME NEW res, ~res.threw, res.val = <<a, FALSE>>
      PROVE  Written(op, res) = IF a = None THEN "NOT_FOUND" ELSE "CLIENT_ERROR"
  <2>1. res.val[1] = a /\ res.val[2] = FALSE
    BY <1>4
  <2> QED
    BY <1>3, <1>4, <2>1
<1>5. ASSUME NEW res, ~res.threw, res.val = <<a, TRUE>>
      PROVE  Written(op, res) = IF a = None THEN "NOT_FOUND" ELSE a
  <2>1. res.val[1] = a /\ res.val[2] = TRUE
    BY <1>5
  <2> QED
    BY <1>3, <1>5, <2>1
<1> QED
  BY <1>4, <1>5

(* incr and decr: f is the new number the shard computes, g the promised one. *)
LEMMA CountEffect ==
    ASSUME Shards, NEW c, NEW k \in Key, NEW f, NEW g, NEW op \in Counting,
           \A n \in Num : f[n] \in Num /\ f[n] = g[n],
           NEW y \in Arithmetic(shard[Home[k]], k, f),
           shard' = [shard EXCEPT ![Home[k]] = y.shard],
           Service!Found(c, KeyPart(k), Written(op, y.res))
    PROVE  Shards' /\ Service!Count(c, KeyPart(k), g)
<1> DEFINE st == shard[Home[k]]
           old == st[k]
<1>1. Home[k] \in Core /\ st \in Shard
  BY ProtocolAssumption DEF Shards, OwnShard
<1>2. KeyPart(k).key = k /\ stores[KeyPart(k).key] = old
  BY DEF KeyPart, stores
<1>3. None \notin Data
  BY ProtocolAssumption
<1>4. old # None => old.data \in Data
  BY <1>1, ShardEntries
<1>5. CASE old = None
  <2>1. y = [shard |-> st, res |-> [threw |-> FALSE, val |-> <<None, FALSE>>]]
    BY <1>5 DEF Arithmetic, Outcome
  <2>2. y.shard = st /\ y.res = [threw |-> FALSE, val |-> <<None, FALSE>>]
    BY <2>1
  <2>3. Written(op, y.res) = "NOT_FOUND"
    BY <2>2, WrittenCount
  <2> QED
    BY <2>2, <2>3, <1>1, <1>2, <1>5, NoWrite DEF Service!Count
<1>6. CASE old # None /\ old.data = Text
  <2>1. y = [shard |-> st, res |-> [threw |-> FALSE, val |-> <<Text, FALSE>>]]
    BY <1>6 DEF Arithmetic, Outcome
  <2>2. y.shard = st /\ y.res = [threw |-> FALSE, val |-> <<Text, FALSE>>]
    BY <2>1
  <2>3. Written(op, y.res) = "CLIENT_ERROR"
    <3>1. Text # None
      BY <1>3 DEF Data
    <3>2. Written(op, [threw |-> FALSE, val |-> <<Text, FALSE>>])
            = IF Text = None THEN "NOT_FOUND" ELSE "CLIENT_ERROR"
      BY WrittenCount
    <3> QED
      BY <2>2, <3>1, <3>2
  <2> QED
    BY <2>2, <2>3, <1>1, <1>2, <1>6, NoWrite DEF Service!Count
<1>7. CASE old # None /\ old.data # Text
  <2>1. PICK d : d = f[old.data]
    OBVIOUS
  <2>2. old.data \in Num
    BY <1>4, <1>7 DEF Data
  <2>3. d \in Num /\ d \in Data /\ d = g[old.data] /\ d # None
    BY <2>1, <2>2, <1>3 DEF Data
  <2>0. \/ y = [shard |-> st, res |-> OutOfMemory]
        \/ y \in Create(st, [key |-> k, data |-> d], NextVersion(st, k), <<d, TRUE>>)
    BY <1>7, <2>1 DEF Arithmetic, add_overriding, NextVersion, BadAlloc
  <2>8. CASE y = [shard |-> st, res |-> OutOfMemory]
    <3>1. y.shard = st /\ Written(op, y.res) = "SERVER_ERROR"
      BY <2>8 DEF OutOfMemory, Written
    <3>2. Shards' /\ Service!Finds(c, KeyPart(k), "SERVER_ERROR")
      BY <3>1, <1>1, NoWrite
    <3>3. Service!Write(c, KeyPart(k), g[old.data], g[old.data])
      BY <3>2 DEF Service!Write, Service!Finds, Service!S!KeptOrLost
    <3> QED
      BY <2>2, <3>2, <3>3, <1>2, <1>7 DEF Service!Count, Service!Num, Num
  <2> SUFFICES ASSUME y \in Create(st, [key |-> k, data |-> d], NextVersion(st, k), <<d, TRUE>>)
               PROVE  Shards' /\ Service!Count(c, KeyPart(k), g)
    BY <2>0, <2>8
  <2>5. Written(op, [threw |-> FALSE, val |-> <<d, TRUE>>]) = d
    BY <2>3, WrittenCount
  <2>6. Shards' /\ Service!Write(c, KeyPart(k), d, d)
    <3>0. PICK val : val = <<d, TRUE>>
      OBVIOUS
    <3>1. y \in Create(st, [key |-> k, data |-> d], NextVersion(st, k), val)
      BY <3>0
    <3>2. Written(op, [threw |-> FALSE, val |-> val]) = d
      BY <2>5, <3>0
    <3>3. Shards' /\ Service!Write(c, KeyPart(k), d, Written(op, [threw |-> FALSE, val |-> val]))
      <4> HIDE DEF st, old
      <4>1. y \in Create(shard[Home[k]], [key |-> k, data |-> d], NextVersion(shard[Home[k]], k), val)
        BY <3>1 DEF st
      <4> QED
        BY <2>3, <4>1, WriteEffect
    <3> QED
      BY <3>2, <3>3
  <2> QED
    BY <2>2, <2>3, <2>6, <1>2, <1>7
       DEF Service!Count, Service!Write, Service!Found, Service!S!Put, Service!Num, Num
<1> QED
  BY <1>5, <1>6, <1>7

LEMMA KeyTakesEffect ==
    ASSUME Shards, NEW c, NEW r \in Command, NEW k \in Key, NEW m, KeyTask(m, r, k),
           r.op \notin Flushing \cup Asking,
           NEW n, n.key = k, r.op \in Writing => n = [key |-> k, data |-> r.data],
           NEW y \in Run(m, n), shard' = [shard EXCEPT ![Home[k]] = y.shard],
           Service!Found(c, KeyPart(k), Written(r.op, y.res))
    PROVE  Shards' /\ Service!KeyEffect(c, KeyPart(k), r)
<1> DEFINE i == Home[k]
           st == shard[i]
           p == KeyPart(k)
<1>1. i \in Core /\ st \in Shard
  BY ProtocolAssumption DEF Shards, OwnShard
<1>2. p.key = k /\ p.of = "key" /\ p.core = i /\ m.part = p /\ stores[p.key] = st[k]
  BY DEF KeyPart, KeyTask, stores
<1>3. r.op \in Writing => r.data \in Data
  BY DEF Command, Writing, Counting, Flushing, Asking
<1>14. /\ st[k] = None => NextVersion(st, k) = 1
       /\ st[k] # None => NextVersion(st, k) = st[k].version + 1
  BY DEF NextVersion
<1>4. ASSUME NEW val, y \in Create(st, n, NextVersion(st, k), val), r.op \in Writing
      PROVE  /\ Shards'
             /\ Service!Write(c, p, r.data, Written(r.op, [threw |-> FALSE, val |-> val]))
  <2> HIDE DEF p
  <2> QED
    BY <1>3, <1>4, WriteEffect DEF p
<1>5. ASSUME NEW a, y.shard = st, Written(r.op, y.res) = a
      PROVE  Shards' /\ Service!Finds(c, p, a)
  <2>1. Service!Found(c, p, a)
    BY <1>5
  <2> QED
    BY <1>1, <1>5, <2>1, NoWrite
<1>6. CASE r.op = "set"
  <2>1. y \in set(st, n)
    BY <1>2, <1>6 DEF Run, KeyTask
  <2>2. \E val : y \in Create(st, n, NextVersion(st, k), val)
    BY <2>1, <1>14 DEF set, add_new, add_overriding
  <2>3. \A val : Written(r.op, [threw |-> FALSE, val |-> val]) = "STORED"
    BY <1>6, WrittenIs
  <2> QED
    BY <1>4, <1>6, <2>2, <2>3 DEF Service!KeyEffect, Writing
<1>7. CASE r.op = "add"
  <2>1. y \in add(st, n)
    BY <1>2, <1>7 DEF Run, KeyTask
  <2>2. \/ st[k] # None /\ y \in {Outcome(st, FALSE)}
        \/ st[k] = None /\ y \in Create(st, n, NextVersion(st, k), TRUE)
    BY <2>1, <1>14 DEF add, add_new
  <2>3. /\ Written(r.op, [threw |-> FALSE, val |-> TRUE]) = "STORED"
        /\ Written(r.op, [threw |-> FALSE, val |-> FALSE]) = "NOT_STORED"
    BY <1>7, WrittenIs
  <2>4. CASE st[k] = None
    BY <1>2, <1>4, <1>5, <1>7, <2>2, <2>3, <2>4
       DEF Service!KeyEffect, Service!WriteIf, Writing
  <2>5. CASE st[k] # None
    <3>1. Shards' /\ Service!Finds(c, p, "NOT_STORED")
      <4>1. y.shard = st /\ y.res = [threw |-> FALSE, val |-> FALSE]
        <5>1. y \in {Outcome(st, FALSE)}
          BY <2>2, <2>5
        <5> QED
          BY <5>1 DEF Outcome
      <4> QED
        BY <1>5, <2>3, <4>1
    <3> QED
      BY <1>2, <1>7, <2>5, <3>1 DEF Service!KeyEffect, Service!WriteIf
  <2> QED
    BY <2>4, <2>5
<1>8. CASE r.op = "replace"
  <2>1. y \in replace(st, n)
    BY <1>2, <1>8 DEF Run, KeyTask
  <2>2. \/ st[k] = None /\ y \in {Outcome(st, FALSE)}
        \/ st[k] # None /\ y \in Create(st, n, NextVersion(st, k), TRUE)
    BY <2>1, <1>14 DEF replace, add_overriding
  <2>3. /\ Written(r.op, [threw |-> FALSE, val |-> TRUE]) = "STORED"
        /\ Written(r.op, [threw |-> FALSE, val |-> FALSE]) = "NOT_STORED"
    BY <1>8, WrittenIs
  <2>4. CASE st[k] = None
    <3>1. Shards' /\ Service!Finds(c, p, "NOT_STORED")
      <4>1. y.shard = st /\ y.res = [threw |-> FALSE, val |-> FALSE]
        BY <2>2, <2>4 DEF Outcome
      <4> QED
        BY <1>5, <2>3, <4>1
    <3> QED
      BY <1>2, <1>8, <2>4, <3>1 DEF Service!KeyEffect, Service!WriteIf
  <2>5. CASE st[k] # None
    BY <1>2, <1>4, <1>5, <1>8, <2>2, <2>3, <2>5
       DEF Service!KeyEffect, Service!WriteIf, Writing
  <2> QED
    BY <2>4, <2>5
<1>9. CASE r.op = "cas"
  <2>1. y \in cas(st, n, r.num)
    BY <1>2, <1>9 DEF Run, KeyTask
  <2>2. \/ st[k] = None /\ y \in {Outcome(st, "not_found")}
        \/ st[k] # None /\ st[k].version # r.num /\ y \in {Outcome(st, "bad_version")}
        \/ /\ st[k] # None /\ st[k].version = r.num
           /\ y \in Create(st, n, NextVersion(st, k), "stored")
    BY <2>1, <1>14 DEF cas, add_overriding
  <2>3. /\ Written(r.op, [threw |-> FALSE, val |-> "stored"]) = "STORED"
        /\ Written(r.op, [threw |-> FALSE, val |-> "not_found"]) = "NOT_FOUND"
        /\ Written(r.op, [threw |-> FALSE, val |-> "bad_version"]) = "EXISTS"
    BY <1>9, WrittenIs
  <2>4. CASE st[k] = None
    <3>1. y.shard = st /\ y.res = [threw |-> FALSE, val |-> "not_found"]
      BY <2>2, <2>4 DEF Outcome
    <3>2. Shards' /\ Service!Finds(c, p, "NOT_FOUND")
      BY <1>5, <2>3, <3>1
    <3> QED
      BY <1>2, <1>9, <2>4, <3>2 DEF Service!KeyEffect
  <2>5. CASE st[k] # None /\ st[k].version # r.num
    <3>1. y.shard = st /\ y.res = [threw |-> FALSE, val |-> "bad_version"]
      <4>1. y \in {Outcome(st, "bad_version")}
        BY <2>2, <2>5
      <4> QED
        BY <4>1 DEF Outcome
    <3>2. Shards' /\ Service!Finds(c, p, "EXISTS")
      BY <1>5, <2>3, <3>1
    <3> QED
      BY <1>2, <1>9, <2>5, <3>2 DEF Service!KeyEffect, Service!WriteIf
  <2>6. CASE st[k] # None /\ st[k].version = r.num
    BY <1>2, <1>4, <1>9, <2>2, <2>3, <2>6 DEF Service!KeyEffect, Service!WriteIf, Writing
  <2> QED
    BY <2>4, <2>5, <2>6
<1>10. CASE r.op = "get"
  <2>1. y.shard = st /\ y.res = [threw |-> FALSE, val |-> st[k]]
    BY <1>2, <1>10 DEF Run, KeyTask, get, Outcome
  <2>2. PICK a : a = st[k]
    OBVIOUS
  <2>3. Written(r.op, y.res) = a
    BY <1>10, <2>1, <2>2, WrittenIs
  <2>4. Shards' /\ Service!Finds(c, p, a)
    BY <1>5, <2>1, <2>3
  <2> QED
    BY <1>2, <1>10, <2>2, <2>4 DEF Service!KeyEffect
<1>11. CASE r.op = "delete"
  <2>1. y \in remove(st, k)
    BY <1>2, <1>11 DEF Run, KeyTask
  <2>2. y.shard = [st EXCEPT ![k] = None] /\ y.res = [threw |-> FALSE, val |-> st[k] # None]
    BY <2>1 DEF remove, Outcome
  <2>3. Written(r.op, y.res) = IF st[k] # None THEN "DELETED" ELSE "NOT_FOUND"
    <3>1. CASE st[k] # None
      <4>1. y.res = [threw |-> FALSE, val |-> TRUE]
        BY <2>2, <3>1
      <4> QED
        BY <1>11, <3>1, <4>1, WrittenIs
    <3>2. CASE st[k] = None
      <4>1. y.res = [threw |-> FALSE, val |-> FALSE]
        BY <2>2, <3>2
      <4> QED
        BY <1>11, <3>2, <4>1, WrittenIs
    <3> QED
      BY <3>1, <3>2
  <2>4. OwnShard(i, y.shard) /\ Loses(st, y.shard, k)
    BY <1>1, <2>2 DEF Shards, OwnShard, Loses, Shard
  <2>5. Shards' /\ stores'[k] = None /\ Service!S!KeptOrLost(Key)
    <3>1. shard'[i][k] = None
      <4>1. y.shard[k] = None
        BY <1>1, <2>2 DEF Shard
      <4>2. shard'[i] = y.shard
        BY <1>1 DEF Shards
      <4> QED
        BY <4>1, <4>2
    <3>2. stores'[k] = None
      BY <3>1 DEF stores
    <3> QED
      BY <2>4, <3>2, StoreAfter
  <2> QED
    <3>1. PICK a : a = IF stores[p.key] # None THEN "DELETED" ELSE "NOT_FOUND"
      OBVIOUS
    <3>2. Service!Found(c, p, a)
      BY <1>2, <2>3, <3>1
    <3> HIDE DEF p
    <3>3. Service!Found(c, p, IF stores[p.key] # None THEN "DELETED" ELSE "NOT_FOUND")
      BY <3>1, <3>2 DEF Service!Found
    <3>4. stores'[p.key] = None
      BY <1>2, <2>5
    <3>5. Service!KeyEffect(c, p, r)
      BY <1>11, <2>5, <3>3, <3>4 DEF Service!KeyEffect, Service!Found
    <3> QED
      BY <2>5, <3>5 DEF p
<1>12. CASE r.op \in Counting
  <2>1. r.num \in Nat /\ MaxNum \in Nat
    BY <1>12, ProtocolAssumption DEF Command, Writing, Counting, Flushing, Asking
  <2>2. CASE r.op = "incr"
    <3> DEFINE f == [j \in Num |-> (j + r.num) % (MaxNum + 1)]
    <3>1. y \in Arithmetic(st, k, f)
      BY <1>2, <2>2 DEF Run, KeyTask, incr
    <3>2. \A j \in Num : f[j] \in Num
      BY <2>1 DEF Num
    <3> HIDE DEF f
    <3>3. Shards' /\ Service!Count(c, p, f)
      BY <1>12, <3>1, <3>2, CountEffect
    <3> QED
      BY <2>2, <3>3 DEF f, Service!KeyEffect, Service!Num, Num
  <2>3. CASE r.op = "decr"
    <3> DEFINE f == [j \in Num |-> j - (IF j < r.num THEN j ELSE r.num)]
               g == [j \in Num |-> IF r.num > j THEN 0 ELSE j - r.num]
    <3>1. y \in Arithmetic(st, k, f)
      BY <1>2, <2>3 DEF Run, KeyTask, decr
    <3>2. \A j \in Num : f[j] \in Num /\ f[j] = g[j]
      BY <2>1 DEF Num
    <3> HIDE DEF f, g
    <3>3. Shards' /\ Service!Count(c, p, g)
      BY <1>12, <3>1, <3>2, CountEffect
    <3> QED
      BY <2>3, <3>3 DEF g, Service!KeyEffect, Service!Num, Num
  <2> QED
    BY <1>12, <2>2, <2>3 DEF Counting
<1>13. r.op \in {"set", "add", "replace", "cas", "get", "delete"} \cup Counting
  BY DEF Command, Writing, Counting, Flushing, Asking
<1> QED
  BY <1>6, <1>7, <1>8, <1>9, <1>10, <1>11, <1>12, <1>13

(* The service counts with its own instance of FiniteSets. *)
LEMMA SameCardinality == \A S : Service!Cardinality(S) = Cardinality(S)
BY Zenon DEF Service!Cardinality, Cardinality

LEMMA CoreTakesEffect ==
    ASSUME Shards, NEW c, NEW r \in Command, NEW i \in Core, NEW m, m.part = CorePart(i),
           m.op = r.op, r.op \in Flushing \cup {"stats", "stats_hash"},
           NEW n, NEW y \in Run(m, n), shard' = [shard EXCEPT ![i] = y.shard],
           Service!Found(c, CorePart(i), Written(r.op, y.res))
    PROVE  Shards' /\ Service!CoreEffect(c, CorePart(i), r)
<1> DEFINE st == shard[i]
           p == CorePart(i)
<1>1. st \in Shard /\ OwnShard(i, st)
  BY DEF Shards, OwnShard
<1>2. p.core = i /\ p.of = "cache" /\ m.part = p
  BY DEF CorePart
<1>3. Home \in [Key -> Core]
  BY ProtocolAssumption
<1>4. CASE r.op = "flush_all"
  <2> DEFINE none == [k \in Key |-> None]
  <2>1. y \in flush_all(st)
    BY <1>2, <1>4 DEF Run
  <2>2. y.shard = none /\ y.res = [threw |-> FALSE, val |-> TRUE]
    BY <2>1 DEF flush_all, Outcome
  <2>3. Written(r.op, y.res) = "OK"
    BY <1>4, <2>2, WrittenIs DEF Flushing
  <2>4. Shards'
    BY <2>2 DEF Shards, OwnShard, Shard
  <2>5. \A k \in Key : shard'[Home[k]][k] = IF Home[k] = i THEN None ELSE shard[Home[k]][k]
    BY <1>3, <2>2 DEF Shards
  <2>6. Service!Found(c, p, "OK")
    BY <2>3
  <2> QED
    BY <1>2, <1>4, <2>4, <2>5, <2>6
       DEF Service!CoreEffect, Service!OfCore, Service!S!KeptOrLost, stores
<1>5. CASE r.op = "flush_at"
  <2>1. y \in flush_at(st)
    BY <1>2, <1>5 DEF Run
  <2>2. y.shard = st /\ y.res = [threw |-> FALSE, val |-> TRUE]
    BY <2>1 DEF flush_at, Outcome
  <2>3. Written(r.op, y.res) = "OK"
    BY <1>5, <2>2, WrittenIs DEF Flushing
  <2>4. Service!Found(c, p, "OK")
    BY <2>3
  <2>5. Shards' /\ Service!Finds(c, p, "OK")
    BY <2>2, <2>4, NoWrite
  <2> QED
    BY <1>5, <2>5 DEF Service!CoreEffect
<1>6. CASE r.op \in {"stats", "stats_hash"}
  <2>1. y \in stats(st)
    BY <1>2, <1>6 DEF Run
  <2>2. PICK a : a = Cardinality({k \in Key : st[k] # None})
    OBVIOUS
  <2>3. y.shard = st /\ y.res = [threw |-> FALSE, val |-> a]
    BY <2>1, <2>2 DEF stats, Outcome
  <2>4. Written(r.op, y.res) = a
    BY <1>6, <2>3, WrittenIs DEF Asking
  <2>5. Service!Found(c, p, a)
    BY <2>4
  <2>6. Shards' /\ Service!Finds(c, p, a)
    BY <2>3, <2>5, NoWrite
  <2>7. {k \in Service!OfCore(p.core) : stores[k] # None}
          = {k \in Key : st[k] # None}
    BY <1>1, <1>2 DEF Service!OfCore, OwnShard, stores
  <2>8. a = Service!Cardinality({k \in Service!OfCore(p.core) :
                                   stores[k] # None})
    BY <2>2, <2>7, SameCardinality
  <2> HIDE DEF p
  <2>9. Service!Finds(c, p, Service!Cardinality({k \in Service!OfCore(p.core) :
                                   stores[k] # None}))
    BY <2>6, <2>8 DEF Service!Finds, Service!Found
  <2> QED
    BY <1>6, <2>6, <2>9 DEF Service!CoreEffect, p
<1> QED
  BY <1>4, <1>5, <1>6 DEF Flushing

LEMMA SystemTakesEffect ==
    ASSUME Shards, NEW c, NEW i \in Core, NEW m, m.part = SystemPart(i),
           NEW n, NEW y \in Run(m, n), shard' = [shard EXCEPT ![i] = y.shard],
           Service!Found(c, SystemPart(i), Written("stats", y.res))
    PROVE  Shards' /\ Service!SystemEffect(c, SystemPart(i))
<1> DEFINE p == SystemPart(i)
           L == {b \in Conn \ Udp : At[b] = i /\ conn[b].phase # "closed"}
<1>1. p.core = i /\ p.of = "system" /\ m.part = p
  BY DEF SystemPart
<1>2. PICK a : a = Cardinality(L)
  OBVIOUS
<1>3. y.shard = shard[i] /\ y.res = [threw |-> FALSE, val |-> a]
  BY <1>1, <1>2 DEF Run, Outcome, curr_connections
<1>4. Written("stats", y.res) = a
  BY <1>3, WrittenIs DEF Asking
<1>5. Service!Found(c, p, a)
  BY <1>4
<1>6. Shards' /\ Service!Finds(c, p, a)
  BY <1>3, <1>5, NoWrite
<1>7. a \in 0 .. Cardinality(Conn)
  <2>1. L \subseteq Conn /\ IsFiniteSet(Conn)
    BY ProtocolAssumption
  <2> HIDE DEF L
  <2>2. IsFiniteSet(L) /\ Cardinality(L) =< Cardinality(Conn)
    BY <2>1, FS_Subset
  <2> QED
    BY <1>2, <2>1, <2>2, FS_CardinalityType
<1>8. \E j \in 0 .. Cardinality(Conn) : Service!Finds(c, p, j)
  BY <1>6, <1>7, Zenon
<1> QED
  BY <1>6, <1>8, SameCardinality DEF Service!SystemEffect

-----------------------------------------------------------------------------
(* The parts of a command. *)

LEMMA PartsAre ==
    ASSUME NEW r \in Command, NEW p \in Parts(r)
    PROVE  \/ \E k \in Key : /\ k \in r.keys /\ p = KeyPart(k)
                             /\ r.op \notin Flushing \cup Asking
                             /\ r.op \in Writing => r.keys = {k}
           \/ \E i \in Core : /\ p = CorePart(i)
                              /\ r.op \in Flushing \cup {"stats", "stats_hash"}
           \/ \E i \in Core : p = SystemPart(i) /\ r.op = "stats"
<1>1. CASE \E k \in r.keys : p = KeyPart(k)
  <2>1. PICK k \in r.keys : p = KeyPart(k)
    BY <1>1
  <2>2. k \in Key /\ r.op \notin Flushing \cup Asking
    BY DEF Command, Writing, Counting, Flushing, Asking
  <2>3. r.op \in Writing => r.keys = {k}
    <3>1. r.op \in Writing => \E j \in Key : r.keys = {j}
      BY DEF Command, Writing, Counting, Flushing, Asking
    <3> QED
      BY <3>1
  <2> QED
    BY <2>1, <2>2, <2>3
<1>2. CASE r.op \in Flushing \cup {"stats", "stats_hash"} /\ \E i \in Core : p = CorePart(i)
  BY <1>2
<1>3. CASE r.op = "stats" /\ \E i \in Core : p = SystemPart(i)
  BY <1>3
<1> QED
  BY <1>1, <1>2, <1>3 DEF Parts

(* Only of a get of many keys does a core have several parts. *)
LEMMA OnePartHere ==
    ASSUME NEW r \in Command, r.op # "get", NEW p \in Parts(r), NEW q \in Parts(r),
           p.of # "system", q.of # "system", p.core = q.core
    PROVE  p = q
<1>1. r.op \notin Flushing \cup Asking => \E k : r.keys = {k}
  BY DEF Command, Writing, Counting, Flushing, Asking
<1>2. r.op \in Flushing \cup Asking => r.keys = {}
  BY DEF Command, Writing, Counting, Flushing, Asking
<1>3. CASE \E k : r.keys = {k} /\ r.op \notin Flushing \cup Asking
  BY <1>3 DEF Parts, Asking
<1>4. CASE r.keys = {}
  BY <1>4 DEF Parts, CorePart, SystemPart
<1> QED
  BY <1>1, <1>2, <1>3, <1>4

(* A part takes effect when a task for it runs that reads the protocol object o. *)
LEMMA PartTakesEffect ==
    ASSUME Shards, NEW c, NEW r \in Command, NEW p \in Parts(r),
           NEW m, m.part = p, m.op = r.op, m.num = r.num,
           NEW o, o._parser = r, r.op \in Writing => o._insertion = prepare_insertion(r),
           NEW y \in Run(m, Referred(o, p)), shard' = [shard EXCEPT ![p.core] = y.shard],
           Service!Found(c, p, Written(r.op, y.res))
    PROVE  /\ Shards'
           /\ \/ p.of = "key"    /\ Service!KeyEffect(c, p, r)
              \/ p.of = "cache"  /\ Service!CoreEffect(c, p, r)
              \/ p.of = "system" /\ Service!SystemEffect(c, p)
<1>1. ASSUME NEW k \in Key, k \in r.keys, p = KeyPart(k), r.op \notin Flushing \cup Asking,
             r.op \in Writing => r.keys = {k}
      PROVE  Shards' /\ p.of = "key" /\ Service!KeyEffect(c, p, r)
  <2> DEFINE n == Referred(o, p)
  <2>1. p.key = k /\ p.core = Home[k] /\ p.of = "key"
    BY <1>1 DEF KeyPart
  <2>2. r.op \in Writing => n = [key |-> k, data |-> r.data]
    <3>1. r.op \in Writing => TheKey(r) = k
      BY <1>1 DEF TheKey
    <3> QED
      BY <3>1 DEF Referred, prepare_insertion
  <2>3. n.key = k
    BY <1>1, <2>1, <2>2 DEF Referred
  <2>4. KeyTask(m, r, k)
    BY <1>1 DEF KeyTask
  <2>5. y \in Run(m, n) /\ shard' = [shard EXCEPT ![Home[k]] = y.shard]
    BY <2>1
  <2>6. Service!Found(c, KeyPart(k), Written(r.op, y.res))
    BY <1>1
  <2>7. Shards' /\ Service!KeyEffect(c, KeyPart(k), r)
    <3> HIDE DEF n
    <3>1. PICK w : w = n
      OBVIOUS
    <3> QED
      BY <1>1, <2>2, <2>3, <2>4, <2>5, <2>6, <3>1, KeyTakesEffect
  <2> QED
    BY <1>1, <2>1, <2>7
<1>2. ASSUME NEW i \in Core, p = CorePart(i), r.op \in Flushing \cup {"stats", "stats_hash"}
      PROVE  Shards' /\ p.of = "cache" /\ Service!CoreEffect(c, p, r)
  <2>1. p.core = i /\ p.of = "cache"
    BY <1>2 DEF CorePart
  <2> QED
    BY <1>2, <2>1, CoreTakesEffect
<1>3. ASSUME NEW i \in Core, p = SystemPart(i), r.op = "stats"
      PROVE  Shards' /\ p.of = "system" /\ Service!SystemEffect(c, p)
  <2>1. p.core = i /\ p.of = "system"
    BY <1>3 DEF SystemPart
  <2> QED
    BY <1>3, <2>1, SystemTakesEffect
<1> QED
  BY <1>1, <1>2, <1>3, PartsAre

-----------------------------------------------------------------------------
(* The results of a command, those at hand and those of its messages. *)

Back(c, M) == {m \in M : m.conn = c /\ m.done}

PartsOf(B) == {m.part : m \in B}

ResultOf(B, p) == (CHOOSE m \in B : m.part = p).res

AllResults(B, got) == Besides([p \in PartsOf(B) |-> ResultOf(B, p)], got)

One(B) == \A m, n \in B : m.part = n.part => m = n

LEMMA ResultsAre ==
    /\ \A c : Results(c) = AllResults(Back(c, mail), conn[c].got)
    /\ \A c : Results(c)' = AllResults(Back(c, mail'), conn'[c].got)
BY DEF Results, AllResults, Back, PartsOf, ResultOf

LEMMA ResultIs ==
    ASSUME NEW B, One(B), NEW m \in B
    PROVE  ResultOf(B, m.part) = m.res
<1>1. (CHOOSE n \in B : n.part = m.part) = m
  BY DEF One
<1> QED
  BY <1>1 DEF ResultOf

LEMMA SameResult ==
    ASSUME NEW B, One(B), NEW D, D \subseteq B, NEW p \in PartsOf(D)
    PROVE  ResultOf(B, p) = ResultOf(D, p)
<1>1. PICK m \in D : p = m.part
  BY DEF PartsOf
<1>2. One(D)
  BY DEF One
<1> QED
  BY <1>1, <1>2, ResultIs

LEMMA AllResultsAre ==
    ASSUME NEW B, NEW got
    PROVE  AllResults(B, got) = [p \in PartsOf(B) \cup DOMAIN got |->
                                   IF p \in PartsOf(B) THEN ResultOf(B, p) ELSE got[p]]
BY DEF AllResults, Besides

(* One more message with a result. *)
LEMMA ResultsAdd ==
    ASSUME NEW B, NEW got, NEW n, One(B), NEW q, q = n.part, q \notin PartsOf(B)
    PROVE  AllResults(B \cup {n}, got) = Besides([p \in {q} |-> n.res], AllResults(B, got))
<1> DEFINE D == B \cup {n}
<1>1. One(D) /\ PartsOf(D) = PartsOf(B) \cup {q}
  BY DEF One, PartsOf
<1>2. ResultOf(D, q) = n.res
  BY <1>1, ResultIs
<1>3. \A p \in PartsOf(B) : ResultOf(D, p) = ResultOf(B, p)
  BY <1>1, SameResult
<1>4. AllResults(D, got) = [p \in PartsOf(D) \cup DOMAIN got |->
                              IF p \in PartsOf(D) THEN ResultOf(D, p) ELSE got[p]]
  BY AllResultsAre
<1> HIDE DEF D
<1>5. Besides([p \in {q} |-> n.res], AllResults(B, got))
        = [p \in {q} \cup (PartsOf(B) \cup DOMAIN got) |->
             IF p = q THEN n.res ELSE IF p \in PartsOf(B) THEN ResultOf(B, p) ELSE got[p]]
  BY AllResultsAre DEF Besides
<1>6. AllResults(D, got) = Besides([p \in {q} |-> n.res], AllResults(B, got))
  BY <1>1, <1>2, <1>3, <1>4, <1>5
<1> QED
  BY <1>6 DEF D

(* A message's result at hand instead. *)
LEMMA ResultsMoved ==
    ASSUME NEW B, NEW got, NEW n \in B, One(B), NEW q, q = n.part
    PROVE  AllResults(B \ {n}, Besides([p \in {q} |-> n.res], got)) = AllResults(B, got)
<1> DEFINE D == B \ {n}
           h == Besides([p \in {q} |-> n.res], got)
<1>1. PartsOf(B) = PartsOf(D) \cup {q} /\ q \notin PartsOf(D)
  BY DEF One, PartsOf
<1>2. ResultOf(B, q) = n.res
  BY ResultIs
<1>3. \A p \in PartsOf(D) : ResultOf(B, p) = ResultOf(D, p)
  BY SameResult
<1>4. h = [p \in {q} \cup DOMAIN got |-> IF p = q THEN n.res ELSE got[p]]
  BY DEF Besides
<1>5. AllResults(D, h) = [p \in PartsOf(D) \cup DOMAIN h |->
                            IF p \in PartsOf(D) THEN ResultOf(D, p) ELSE h[p]]
  BY AllResultsAre
<1>6. AllResults(B, got) = [p \in PartsOf(B) \cup DOMAIN got |->
                              IF p \in PartsOf(B) THEN ResultOf(B, p) ELSE got[p]]
  BY AllResultsAre
<1> HIDE DEF D, h
<1>7. AllResults(D, h) = AllResults(B, got)
  BY <1>1, <1>2, <1>3, <1>4, <1>5, <1>6
<1> QED
  BY <1>7 DEF D, h

(* Without messages there is what is at hand. *)
LEMMA ResultsHere ==
    ASSUME NEW got
    PROVE  /\ AllResults({}, got) = [p \in DOMAIN got |-> got[p]]
           /\ \A f : AllResults({}, Besides(f, got)) = Besides(f, AllResults({}, got))
           /\ AllResults({}, Nothing) = Nothing
<1>1. \A g : AllResults({}, g) = [p \in DOMAIN g |-> g[p]]
  BY AllResultsAre DEF PartsOf
<1>2. ASSUME NEW f PROVE AllResults({}, Besides(f, got)) = Besides(f, AllResults({}, got))
  <2>1. AllResults({}, Besides(f, got))
          = [p \in DOMAIN f \cup DOMAIN got |-> IF p \in DOMAIN f THEN f[p] ELSE got[p]]
    BY <1>1 DEF Besides
  <2> QED
    BY <1>1, <2>1 DEF Besides
<1>3. AllResults({}, Nothing) = Nothing
  BY <1>1 DEF Nothing
<1> QED
  BY <1>1, <1>2, <1>3

-----------------------------------------------------------------------------
(* The service's view of the connections. *)

CallTo(o, R) ==
    IF o.phase \in {"parsed", "working"}
    THEN [cmd  |-> o._parser,
          left |-> Parts(o._parser) \ DOMAIN R,
          got  |-> AllWritten(o._parser, R)]
    ELSE NoCall

LEMMA CallsAre ==
    /\ calls = [c \in Conn |-> CallTo(conn[c], Results(c))]
    /\ calls' = [c \in Conn |-> CallTo(conn'[c], Results(c)')]
    /\ replies' = [c \in Conn |-> conn'[c].out]
<1>1. calls = [c \in Conn |-> CallTo(conn[c], Results(c))]
  BY DEF calls, CallTo
<1>2. calls' = [c \in Conn |-> CallTo(conn'[c], Results(c)')]
  BY DEF calls, CallTo
<1>3. replies' = [c \in Conn |-> conn'[c].out]
  BY DEF replies
<1> QED
  BY <1>1, <1>2, <1>3

(* The service's own instances of what it shares with the server. *)
LEMMA SameProtocol ==
    /\ Service!Nothing = Nothing /\ Service!NoCall = NoCall
    /\ \A f, g : Service!Besides(f, g) = Besides(f, g)
    /\ \A r : Service!Parts(r) = Parts(r)
<1>1. Service!Nothing = Nothing
  BY DEF Service!Nothing, Nothing
<1>2. Service!NoCall = NoCall
  BY <1>1 DEF Service!NoCall, NoCall
<1>3. \A f, g : Service!Besides(f, g) = Besides(f, g)
  BY DEF Service!Besides, Besides
<1>4. \A r : Service!Parts(r) = Parts(r)
  BY DEF Service!Parts, Parts, Service!KeyPart, KeyPart, Service!CorePart, CorePart,
         Service!SystemPart, SystemPart, Service!Flushing, Flushing
<1> QED
  BY <1>1, <1>2, <1>3, <1>4

LEMMA WrittenBesides ==
    ASSUME NEW r, NEW F, NEW R
    PROVE  AllWritten(r, Besides(F, R)) = Besides(AllWritten(r, F), AllWritten(r, R))
<1>1. AllWritten(r, Besides(F, R))
        = [p \in DOMAIN F \cup DOMAIN R |-> Written(r.op, IF p \in DOMAIN F THEN F[p] ELSE R[p])]
  BY DEF AllWritten, Besides
<1>2. Besides(AllWritten(r, F), AllWritten(r, R))
        = [p \in DOMAIN F \cup DOMAIN R |->
             IF p \in DOMAIN F THEN Written(r.op, F[p]) ELSE Written(r.op, R[p])]
  BY DEF AllWritten, Besides
<1>3. \A p : Written(r.op, IF p \in DOMAIN F THEN F[p] ELSE R[p])
               = IF p \in DOMAIN F THEN Written(r.op, F[p]) ELSE Written(r.op, R[p])
  OBVIOUS
<1> QED
  BY <1>1, <1>2, <1>3

(* Parts of a connection's command r have the results F now, and nothing else changes. *)
More(c, r, F) ==
    /\ conn[c].phase \in {"parsed", "working"} /\ conn[c]._parser = r
    /\ conn'[c].phase \in {"parsed", "working"} /\ conn'[c]._parser = r
    /\ \A b \in Conn : conn'[b].out = conn[b].out
    /\ \A b \in Conn \ {c} : conn'[b] = conn[b] /\ Results(b)' = Results(b)
    /\ Results(c)' = Besides(F, Results(c))

OneMore(c, r, p, res) == More(c, r, [q \in {p} |-> res])

(* Then they have their answers in the service. *)
LEMMA MoreAnswers ==
    ASSUME NEW c \in Conn, NEW r, NEW F, More(c, r, F),
           NEW Q, Q = DOMAIN F, NEW G, G = AllWritten(r, F)
    PROVE  /\ calls' = [calls EXCEPT ![c].left = @ \ Q, ![c].got = Besides(G, @)]
           /\ replies' = replies
<1>1. PICK R : R = Results(c)
  OBVIOUS
<1>2. CallTo(conn[c], Results(c))
        = [cmd |-> r, left |-> Parts(r) \ DOMAIN R, got |-> AllWritten(r, R)]
  BY <1>1 DEF CallTo, More
<1>3. CallTo(conn'[c], Results(c)')
        = [cmd |-> r, left |-> (Parts(r) \ DOMAIN R) \ Q,
           got |-> Besides(G, AllWritten(r, R))]
  <2> DEFINE S == Besides(F, R)
  <2>1. DOMAIN S = Q \cup DOMAIN R
    BY DEF Besides
  <2>2. AllWritten(r, S) = Besides(G, AllWritten(r, R))
    BY WrittenBesides
  <2>3. Results(c)' = S
    BY <1>1 DEF More
  <2> HIDE DEF S
  <2>4. CallTo(conn'[c], Results(c)')
          = [cmd |-> r, left |-> Parts(r) \ DOMAIN S, got |-> AllWritten(r, S)]
    BY <2>3 DEF CallTo, More
  <2>5. Parts(r) \ DOMAIN S = (Parts(r) \ DOMAIN R) \ Q
    BY <2>1
  <2> QED
    BY <2>2, <2>4, <2>5
<1>4. \A b \in Conn \ {c} : CallTo(conn'[b], Results(b)') = CallTo(conn[b], Results(b))
  BY DEF More
<1>5. calls' = [calls EXCEPT ![c].left = @ \ Q, ![c].got = Besides(G, @)]
  <2> DEFINE old == [cmd |-> r, left |-> Parts(r) \ DOMAIN R, got |-> AllWritten(r, R)]
             new == [cmd |-> r, left |-> (Parts(r) \ DOMAIN R) \ Q,
                     got |-> Besides(G, AllWritten(r, R))]
  <2>1. calls[c] = old /\ calls'[c] = new
    BY <1>2, <1>3, CallsAre
  <2>2. new = [old EXCEPT !.left = @ \ Q, !.got = Besides(G, @)]
    <3> DEFINE X == [old EXCEPT !.left = @ \ Q, !.got = Besides(G, @)]
    <3>1. X = [f \in {"cmd", "left", "got"} |-> X[f]]
      OBVIOUS
    <3>2. new = [f \in {"cmd", "left", "got"} |-> new[f]]
      OBVIOUS
    <3>3. X["cmd"] = new["cmd"] /\ X["left"] = new["left"] /\ X["got"] = new["got"]
      OBVIOUS
    <3> HIDE DEF X, new
    <3>4. X = new
      BY <3>1, <3>2, <3>3
    <3> QED
      BY <3>4 DEF X
  <2> HIDE DEF old, new
  <2>3. calls' = [calls EXCEPT ![c] = new]
    BY <1>4, <2>1, CallsAre
  <2> QED
    BY <2>1, <2>2, <2>3, CallsAre, ZenonT(60)
<1>6. replies' = replies
  BY CallsAre DEF replies, More
<1> QED
  BY <1>5, <1>6

LEMMA Answered ==
    ASSUME NEW c \in Conn, NEW p, NEW res, NEW r, OneMore(c, r, p, res)
    PROVE  Service!Found(c, p, Written(r.op, res))
<1>1. PICK w : w = Written(r.op, res)
  OBVIOUS
<1>2. PICK F : F = [q \in {p} |-> res]
  OBVIOUS
<1>3. PICK G : G = [q \in {p} |-> w]
  OBVIOUS
<1>4. G = AllWritten(r, F) /\ {p} = DOMAIN F
  BY <1>1, <1>2, <1>3 DEF AllWritten
<1>5. More(c, r, F)
  BY <1>2 DEF OneMore
<1>6. calls' = [calls EXCEPT ![c].left = @ \ {p}, ![c].got = Besides(G, @)] /\ replies' = replies
  BY <1>4, <1>5, MoreAnswers
<1>7. Service!Found(c, p, w)
  BY <1>3, <1>6, SameProtocol DEF Service!Found, calls, replies
<1> QED
  BY <1>1, <1>7


-----------------------------------------------------------------------------
(* The steps, as the service sees them. *)

Unseen == stores' = stores /\ calls' = calls /\ replies' = replies

(* A task of connection c's command runs for the part p, and its result is the only
   new one. *)
LEMMA TaskRuns ==
    ASSUME Shards, NEW c \in Conn, NEW r \in Request[c], NEW p \in Parts(r),
           NEW m, m.part = p, m.op = r.op, m.num = r.num,
           NEW o, o._parser = r, r.op \in Writing => o._insertion = prepare_insertion(r),
           NEW y \in Run(m, Referred(o, p)), shard' = [shard EXCEPT ![p.core] = y.shard],
           p \notin DOMAIN Results(c), NEW res, res = y.res, OneMore(c, r, p, res)
    PROVE  Shards' /\ Service!Next
<1>1. r \in Command /\ r # None
  BY ProtocolAssumption
<1>2. Service!Found(c, p, Written(r.op, y.res))
  <2>1. Service!Found(c, p, Written(r.op, res))
    BY Answered
  <2> QED
    BY <2>1
<1>3. /\ Shards'
      /\ \/ p.of = "key"    /\ Service!KeyEffect(c, p, r)
         \/ p.of = "cache"  /\ Service!CoreEffect(c, p, r)
         \/ p.of = "system" /\ Service!SystemEffect(c, p)
  BY <1>1, <1>2, PartTakesEffect
<1>4. calls[c].cmd = r /\ p \in calls[c].left
  BY CallsAre DEF CallTo, OneMore, More
<1>5. Service!Effect(c, p)
  BY <1>3, <1>4 DEF Service!Effect, calls, stores
<1> QED
  BY <1>1, <1>3, <1>4, <1>5 DEF Service!Next, calls, stores

(* What other connections have does not change with one connection's. *)
LEMMA OthersResults ==
    ASSUME NEW c, \A b \in Conn \ {c} : conn'[b] = conn[b] /\ Back(b, mail') = Back(b, mail)
    PROVE  \A b \in Conn \ {c} : Results(b)' = Results(b)
BY ResultsAre

LEMMA BackOne == ASSUME Talk, NEW c PROVE One(Back(c, mail))
BY DEF Talk, PartsOnce, One, Back

LEMMA BackNone == ASSUME NEW c, \A m \in mail : m.conn # c PROVE Back(c, mail) = {}
BY DEF Back

(* A task on another core. *)
LEMMA ExecuteStep ==
    ASSUME Talk, Shards, NEW m \in mail, Execute(m) PROVE Shards' /\ Service!Next
<1>1. PICK c \in Conn : c = m.conn
  BY DEF Talk, MailAwaited, Awaited
<1>2. PICK o : o = conn[c]
  OBVIOUS
<1>3. PICK r \in Request[c] : r = o._parser
  BY <1>1, <1>2 DEF Talk, MailAwaited, Awaited, Objects, Object
<1>4. PICK p \in Parts(r) : p = m.part
  BY <1>1, <1>2, <1>3 DEF Talk, MailAwaited, Awaited
<1>5. /\ ~m.done /\ o.phase = "working" /\ p \notin DOMAIN o.got
      /\ m.op = r.op /\ m.num = r.num
      /\ r.op \in Writing => o._insertion = prepare_insertion(r)
  BY <1>1, <1>2, <1>3, <1>4 DEF Execute, Talk, MailAwaited, Awaited, Objects, Object
<1>6. PICK y \in Run(m, Referred(o, p)) :
         /\ shard' = [shard EXCEPT ![p.core] = y.shard]
         /\ mail' = (mail \ {m}) \cup {[m EXCEPT !.done = TRUE, !.res = y.res]}
  BY <1>1, <1>2, <1>4 DEF Execute
<1>7. conn' = conn
  BY DEF Execute
<1>8. PICK n : n = [m EXCEPT !.done = TRUE, !.res = y.res]
  OBVIOUS
<1>9. n.conn = c /\ n.part = p /\ n.done /\ n.res = y.res
  <2>1. DOMAIN m = Slots
    BY DEF Talk, MailAwaited
  <2> QED
    BY <1>1, <1>4, <1>8, <2>1 DEF Slots
<1>10. mail' = (mail \ {m}) \cup {n}
  BY <1>6, <1>8
<1>11. /\ Back(c, mail') = Back(c, mail) \cup {n}
       /\ \A b \in Conn \ {c} : Back(b, mail') = Back(b, mail)
  BY <1>1, <1>5, <1>9, <1>10 DEF Back
<1>12. p \notin PartsOf(Back(c, mail))
  BY <1>1, <1>4, <1>5 DEF Talk, PartsOnce, PartsOf, Back
<1>13. Results(c)' = Besides([q \in {p} |-> y.res], Results(c))
  BY <1>7, <1>9, <1>11, <1>12, BackOne, ResultsAdd, ResultsAre
<1>14. p \notin DOMAIN Results(c)
  BY <1>2, <1>5, <1>12, ResultsAre, AllResultsAre
<1>15. \A b \in Conn \ {c} : Results(b)' = Results(b)
  BY <1>7, <1>11, OthersResults
<1>16. PICK res : res = y.res
  OBVIOUS
<1>17. OneMore(c, r, p, res)
  BY <1>2, <1>3, <1>5, <1>7, <1>13, <1>15, <1>16 DEF OneMore, More
<1> QED
  BY <1>3, <1>4, <1>5, <1>6, <1>14, <1>16, <1>17, TaskRuns

(* A result reaches its connection. *)
LEMMA DeliverStep ==
    ASSUME Talk, Shards, NEW m \in mail, Deliver(m) PROVE Shards' /\ Unseen
<1>1. PICK c \in Conn : c = m.conn
  BY DEF Talk, MailAwaited, Awaited
<1>2. PICK got : got = conn[c].got
  OBVIOUS
<1>3. PICK q : q = m.part
  OBVIOUS
<1>4. /\ conn' = [conn EXCEPT ![c].got = Besides([p \in {q} |-> m.res], got)]
      /\ mail' = mail \ {m} /\ m.done /\ shard' = shard
  BY <1>1, <1>2, <1>3 DEF Deliver
<1>5. DOMAIN conn[c] = Fields /\ conn = [b \in Conn |-> conn[b]]
  BY DEF Talk, Objects, Object
<1>6. /\ conn'[c].phase = conn[c].phase /\ conn'[c]._parser = conn[c]._parser
      /\ conn'[c].out = conn[c].out
      /\ conn'[c].got = Besides([p \in {q} |-> m.res], got)
      /\ \A b \in Conn \ {c} : conn'[b] = conn[b]
  BY <1>4, <1>5 DEF Fields
<1>7. /\ Back(c, mail') = Back(c, mail) \ {m} /\ m \in Back(c, mail)
      /\ \A b \in Conn \ {c} : Back(b, mail') = Back(b, mail)
  BY <1>1, <1>4 DEF Back
<1>8. Results(c)' = Results(c)
  <2>1. PICK B : B = Back(c, mail)
    OBVIOUS
  <2>2. One(B) /\ m \in B
    BY <1>7, <2>1, BackOne
  <2>3. AllResults(B \ {m}, Besides([p \in {q} |-> m.res], got)) = AllResults(B, got)
    BY <1>3, <2>2, ResultsMoved
  <2>4. Results(c) = AllResults(B, got)
    BY <1>2, <2>1, ResultsAre
  <2>5. Results(c)' = AllResults(B \ {m}, Besides([p \in {q} |-> m.res], got))
    BY <1>6, <1>7, <2>1, ResultsAre
  <2> QED
    BY <2>3, <2>4, <2>5
<1>9. \A b \in Conn \ {c} : Results(b)' = Results(b)
  BY <1>6, <1>7, OthersResults
<1>10. \A b \in Conn : CallTo(conn'[b], Results(b)') = CallTo(conn[b], Results(b))
  BY <1>6, <1>8, <1>9 DEF CallTo
<1>11. calls' = calls /\ replies' = replies
  BY <1>6, <1>10, CallsAre DEF replies
<1> QED
  BY <1>4, <1>11 DEF Unseen, stores, Shards

(* All the parts of a get on the connection's own core read what is there. *)
LEMMA GetsFind ==
    ASSUME Shards, NEW c \in Conn, NEW r \in Request[c], r.op = "get",
           conn[c].phase \in {"parsed", "working"}, conn[c]._parser = r,
           NEW Q, Q \subseteq Parts(r), \A q \in Q : q.core = At[c],
           Q \cap DOMAIN Results(c) = {},
           NEW F, F = [q \in Q |-> [threw |-> FALSE, val |-> shard[At[c]][q.key]]],
           More(c, r, F), shard' = shard
    PROVE  Service!Next
<1>1. r \in Command /\ r # None
  BY ProtocolAssumption
<1>2. \A q \in Q : \E k \in Key : q = KeyPart(k) /\ Home[k] = At[c]
  <2>1. ASSUME NEW q \in Q PROVE \E k \in Key : q = KeyPart(k)
    BY <1>1, PartsAre DEF Flushing
  <2>2. ASSUME NEW k \in Key, KeyPart(k) \in Q PROVE Home[k] = At[c]
    BY <2>2 DEF KeyPart
  <2> QED
    BY <2>1, <2>2
<1>3. \A q \in Q : stores[q.key] = shard[At[c]][q.key] /\ q.of = "key"
  BY <1>2 DEF KeyPart, stores
<1>4. PICK G : G = [q \in Q |-> stores[q.key]]
  OBVIOUS
<1>5. G = AllWritten(r, F) /\ DOMAIN F = Q
  <2>1. \A v : Written("get", [threw |-> FALSE, val |-> v]) = v
    BY DEF Written, Counting, Flushing
  <2>2. AllWritten(r, F) = [q \in Q |-> Written("get", F[q])]
    BY DEF AllWritten
  <2>3. \A q \in Q : Written("get", F[q]) = stores[q.key]
    BY <1>3, <2>1
  <2> QED
    BY <1>4, <2>2, <2>3
<1>6. calls' = [calls EXCEPT ![c].left = @ \ Q, ![c].got = Besides(G, @)] /\ replies' = replies
  BY <1>5, MoreAnswers
<1>7. calls[c].cmd = r /\ calls[c].left = Parts(r) \ DOMAIN Results(c)
  BY CallsAre DEF CallTo
<1>8. Q \in SUBSET calls[c].left
  BY <1>7
<1>9. stores' = stores
  BY SMTT(30) DEF stores
<1>10. Service!EffectOfMany(c)
  BY <1>3, <1>4, <1>6, <1>7, <1>8, <1>9, SameProtocol, ZenonT(60)
     DEF Service!EffectOfMany, calls, replies, stores
<1> QED
  BY <1>1, <1>7, <1>10 DEF Service!Next, calls

(* Tasks for the connection's own core run at once: none, one, or those of a get. *)
LEMMA StartStep ==
    ASSUME Talk, Shards, NEW c \in Conn, NEW r \in Request[c], NEW o, NEW P,
           \A m \in mail : m.conn # c,
           conn[c].phase \in {"parsed", "working"}, conn[c]._parser = r, conn[c].out = None,
           DOMAIN o = Fields, o.phase = "working", o._parser = r, o.got = conn[c].got,
           o.out = None, r.op \in Writing => o._insertion = prepare_insertion(r),
           P \subseteq Parts(r), P \cap DOMAIN o.got = {},
           \/ r.op = "get"
           \/ \A p, q \in P : p.core = At[c] /\ q.core = At[c] => p = q,
           Start(c, o, P)
    PROVE  Shards' /\ (Service!Next \/ Unseen)
<1> DEFINE T == {Task(c, o, p) : p \in P}
           H == {m \in T : m.part.core = At[c]}
           Q == {p \in P : p.core = At[c]}
<1>1. PICK x \in RunHere(c, o, H) : /\ shard' = [shard EXCEPT ![At[c]] = x.shard]
                                    /\ conn' = [conn EXCEPT ![c] = [o EXCEPT !.got = x.got]]
  BY DEF Start
<1>2. mail' = mail \cup (T \ H)
  BY DEF Start
<1>3. \A m \in T : /\ m.part \in P /\ m.conn = c /\ ~m.done /\ m.op = r.op /\ m.num = r.num
  BY DEF Task
<1>4. {m.part : m \in H} = Q
  <2>1. \A p \in P : Task(c, o, p).part = p
    BY DEF Task
  <2>2. \A m \in T : \E p \in P : m = Task(c, o, p)
    OBVIOUS
  <2>3. \A p \in P : Task(c, o, p) \in T
    OBVIOUS
  <2> HIDE DEF T
  <2>4. ASSUME NEW p \in Q PROVE p \in {m.part : m \in H}
    <3>1. Task(c, o, p) \in H
      BY <2>1, <2>3
    <3> QED
      BY <2>1, <3>1
  <2> QED
    BY <1>3, <2>4
<1>5. conn = [b \in Conn |-> conn[b]] /\ At[c] \in Core
  BY ServerAssumption DEF Talk, Objects
<1>6. /\ conn'[c].phase = "working" /\ conn'[c]._parser = r /\ conn'[c].got = x.got
      /\ conn'[c].out = None /\ \A b \in Conn \ {c} : conn'[b] = conn[b]
  BY <1>1, <1>5 DEF Fields
<1>7. \A b : Back(b, mail') = Back(b, mail)
  BY <1>2, <1>3 DEF Back
<1>8. Back(c, mail) = {}
  BY BackNone
<1>9. PICK got : got = o.got
  OBVIOUS
<1>10. Results(c) = AllResults({}, got) /\ Results(c)' = AllResults({}, x.got)
  BY <1>6, <1>7, <1>8, <1>9, ResultsAre
<1>11. \A b \in Conn \ {c} : Results(b)' = Results(b)
  BY <1>6, <1>7, OthersResults
<1>12. \A b \in Conn : conn'[b].out = conn[b].out
  BY <1>6
<1>13. DOMAIN Results(c) = DOMAIN got
  BY <1>10, ResultsHere
<1> HIDE DEF T, H, Q
<1>14. CASE H = {}
  <2>1. x.shard = shard[At[c]] /\ x.got = got
    BY <1>1, <1>9, <1>14 DEF RunHere
  <2>2. shard' = shard
    BY <1>1, <1>5, <2>1 DEF Shards
  <2>3. \A b \in Conn : CallTo(conn'[b], Results(b)') = CallTo(conn[b], Results(b))
    BY <1>6, <1>10, <1>11, <2>1 DEF CallTo
  <2>4. calls' = calls /\ replies' = replies
    BY <1>12, <2>3, CallsAre DEF replies
  <2> QED
    BY <2>2, <2>4 DEF Unseen, stores, Shards
<1>15. ASSUME H # {} PROVE Shards' /\ Service!Next
  <2>1. PICK m \in H : \E y \in Run(m, Referred(o, m.part)) :
            x.shard = y.shard /\ x.got = Besides(AtOnce(c, H, m, y), o.got)
    BY <1>15, RunHereIs
  <2>2. PICK y \in Run(m, Referred(o, m.part)) :
            x.shard = y.shard /\ x.got = Besides(AtOnce(c, H, m, y), o.got)
    BY <2>1
  <2>3. PICK p \in Q : p = m.part
    BY <1>4
  <2>4. /\ p \in P /\ p \in Parts(r) /\ p.core = At[c] /\ m.op = r.op /\ m.num = r.num
        /\ p \notin DOMAIN got
    BY <1>3, <1>9, <2>3 DEF Q, H
  <2>5. PICK F : F = AtOnce(c, H, m, y)
    OBVIOUS
  <2>6. Results(c)' = Besides(F, Results(c))
    BY <1>9, <1>10, <2>2, <2>5, ResultsHere
  <2>7. F = [q \in Q |-> IF q = p THEN y.res
                         ELSE [threw |-> FALSE, val |-> shard[At[c]][q.key]]]
    BY <1>4, <2>3, <2>5 DEF AtOnce
  <2>8. More(c, r, F)
    BY <1>6, <1>11, <1>12, <2>6 DEF More
  <2>9. CASE r.op # "get"
    <3>1. Q = {p}
      BY <2>3, <2>9 DEF Q
    <3>2. PICK res : res = y.res
      OBVIOUS
    <3>3. OneMore(c, r, p, res)
      BY <2>7, <2>8, <3>1, <3>2 DEF OneMore
    <3>4. y \in Run(m, Referred(o, p)) /\ shard' = [shard EXCEPT ![p.core] = y.shard]
      BY <1>1, <2>2, <2>3, <2>4
    <3> QED
      BY <1>13, <2>3, <2>4, <3>2, <3>3, <3>4, TaskRuns
  <2>10. CASE r.op = "get"
    <3>1. r \in Command
      BY ProtocolAssumption
    <3>2. PICK k \in Key : p = KeyPart(k) /\ k \in r.keys
      BY <2>4, <2>10, <3>1, PartsAre DEF Flushing
    <3>3. p.key = k /\ p.of = "key" /\ Home[k] = At[c]
      BY <2>4, <3>2 DEF KeyPart
    <3>4. Referred(o, p).key = k
      BY <2>10, <3>2, <3>3 DEF Referred, Writing
    <3>5. y \in get(shard[At[c]], k)
      BY <2>2, <2>3, <2>4, <2>10, <3>3, <3>4 DEF Run
    <3>6. y.shard = shard[At[c]] /\ y.res = [threw |-> FALSE, val |-> shard[At[c]][k]]
      BY <3>5 DEF get, Outcome
    <3>7. shard' = shard
      BY <1>1, <1>5, <2>2, <3>6 DEF Shards
    <3>8. y.res = [threw |-> FALSE, val |-> shard[At[c]][p.key]]
      BY <3>3, <3>6
    <3>9. F = [q \in Q |-> [threw |-> FALSE, val |-> shard[At[c]][q.key]]]
      BY <2>7, <3>8
    <3>10. Q \subseteq Parts(r) /\ (\A q \in Q : q.core = At[c]) /\ Q \cap DOMAIN Results(c) = {}
      BY <1>9, <1>13 DEF Q
    <3>11. Service!Next
      BY <2>8, <2>10, <3>7, <3>9, <3>10, GetsFind
    <3> QED
      BY <3>7, <3>11 DEF Shards
  <2> QED
    BY <2>9, <2>10
<1> QED
  BY <1>14, <1>15

LEMMA DispatchStep ==
    ASSUME Talk, Shards, NEW c \in Conn, Dispatch(c)
    PROVE  Shards' /\ (Service!Next \/ Unseen)
<1> DEFINE r == conn[c]._parser
           o == [conn[c] EXCEPT !.phase = "working",
                    !._insertion = IF r.op \in Writing THEN prepare_insertion(r) ELSE @]
           P == {p \in Parts(r) : p.of # "system"}
<1>1. conn[c].phase = "parsed" /\ Start(c, o, P)
  BY DEF Dispatch
<1>2. \A m \in mail : m.conn # c
  BY <1>1, IdleQuiet
<1>3. /\ DOMAIN conn[c] = Fields /\ conn[c].got = Nothing
      /\ r \in Request[c] /\ conn[c].out = None
  BY <1>1 DEF Talk, Objects, Object
<1>4. /\ DOMAIN o = Fields /\ o.phase = "working" /\ o._parser = r /\ o.got = conn[c].got
      /\ o.out = None
      /\ r.op \in Writing => o._insertion = prepare_insertion(r)
  BY <1>3 DEF Fields
<1>5. r \in Command
  BY <1>3, ProtocolAssumption
<1>6. r.op = "get" \/ \A p, q \in P : p.core = At[c] /\ q.core = At[c] => p = q
  BY <1>5, OnePartHere
<1> HIDE DEF o, r
<1>7. P \subseteq Parts(r) /\ P \cap DOMAIN o.got = {}
  BY <1>3, <1>4 DEF Nothing
<1>8. conn[c]._parser = r
  BY DEF r
<1> HIDE DEF P
<1> QED
  BY <1>1, <1>2, <1>3, <1>4, <1>6, <1>7, <1>8, StartStep

(* A command whose insertion cannot be made takes effect with its answer, and has none. *)
LEMMA PrepareFailsStep ==
    ASSUME Talk, Shards, NEW c \in Conn, PrepareFails(c) PROVE Shards' /\ Service!Next
<1>1. PICK r \in Request[c] : r = conn[c]._parser
  BY DEF PrepareFails, Talk, Objects, Object
<1>2. /\ conn[c].phase = "parsed" /\ r.op \in Writing /\ r \in Command /\ r # None
      /\ conn[c].got = Nothing /\ DOMAIN conn[c] = Fields
  BY <1>1, ProtocolAssumption DEF PrepareFails, Talk, Objects, Object
<1>3. PICK k \in Key : r.keys = {k}
  <2>1. r.op \in Writing => \E k \in Key : r.keys = {k}
    BY <1>2 DEF Command, Writing, Counting, Flushing, Asking
  <2> QED
    BY <1>2, <2>1
<1>4. PICK p : p = KeyPart(k)
  OBVIOUS
<1>5. Parts(r) = {p} /\ p.of = "key"
  BY <1>2, <1>3, <1>4 DEF Parts, KeyPart, Writing, Flushing
<1>6. PICK F : F = [q \in {p} |-> OutOfMemory]
  OBVIOUS
<1>7. /\ conn' = [conn EXCEPT ![c].phase = "working", ![c].got = F]
      /\ mail' = mail /\ shard' = shard
  BY <1>1, <1>5, <1>6 DEF PrepareFails
<1>8. /\ conn'[c].phase = "working" /\ conn'[c]._parser = r /\ conn'[c].got = F
      /\ conn'[c].out = conn[c].out /\ \A b \in Conn \ {c} : conn'[b] = conn[b]
  BY <1>1, <1>2, <1>7 DEF Talk, Objects, Fields
<1>9. Back(c, mail) = {} /\ mail' = mail
  BY <1>2, <1>7, IdleQuiet, BackNone
<1>10. Results(c) = Nothing /\ Results(c)' = AllResults({}, F)
  BY <1>2, <1>8, <1>9, ResultsAre, ResultsHere
<1>11. AllResults({}, F) = Besides(F, Nothing)
  BY <1>6, ResultsHere DEF Besides, Nothing
<1>12. \A b \in Conn \ {c} : Results(b)' = Results(b)
  BY <1>8, <1>9, OthersResults
<1>13. OneMore(c, r, p, OutOfMemory)
  BY <1>1, <1>2, <1>6, <1>8, <1>10, <1>11, <1>12 DEF OneMore, More
<1>14. Service!Found(c, p, "SERVER_ERROR")
  <2>1. Written(r.op, OutOfMemory) = "SERVER_ERROR"
    BY DEF Written, OutOfMemory
  <2> QED
    BY <1>13, <2>1, Answered
<1>15. stores' = stores
  BY <1>7 DEF stores
<1>16. Service!KeyEffect(c, p, r)
  BY <1>2, <1>14, <1>15 DEF Service!KeyEffect, Service!Finds, Service!Writing, Writing
<1>17. calls[c].cmd = r /\ calls[c].left = {p}
  <2>1. DOMAIN Results(c) = {}
    BY <1>10 DEF Nothing
  <2> QED
    BY <1>1, <1>2, <1>5, <2>1, CallsAre DEF CallTo
<1>18. Service!Effect(c, p)
  BY <1>5, <1>16, <1>17 DEF Service!Effect, calls, stores
<1> QED
  BY <1>2, <1>7, <1>17, <1>18 DEF Service!Next, calls, stores, Shards

LEMMA PrintStatsStep ==
    ASSUME Talk, Shards, NEW c \in Conn, print_stats(c)
    PROVE  Shards' /\ (Service!Next \/ Unseen)
<1> DEFINE r == conn[c]._parser
           o == conn[c]
           P == {SystemPart(i) : i \in Core}
<1>1. /\ o.phase = "working" /\ r.op = "stats"
      /\ DOMAIN o.got = {CorePart(i) : i \in Core}
      /\ \A m \in mail : m.conn # c
      /\ Start(c, o, P)
  BY DEF print_stats
<1>2. DOMAIN o = Fields /\ r \in Request[c] /\ o.out = None
  BY <1>1 DEF Talk, Objects, Object
<1>3. P \subseteq Parts(r)
  BY <1>1 DEF Parts
<1>4. P \cap DOMAIN o.got = {}
  BY <1>1 DEF SystemPart, CorePart
<1>5. \A p, q \in P : p.core = At[c] /\ q.core = At[c] => p = q
  BY DEF SystemPart
<1>6. r.op \in Writing => o._insertion = prepare_insertion(r)
  BY <1>1 DEF Writing
<1> HIDE DEF P
<1> QED
  BY <1>1, <1>2, <1>3, <1>4, <1>5, <1>6, StartStep

(* A step that leaves the shards and the messages, and changes one connection for
   which there are none. *)
Only(c, o, old, new, was, out) ==
    /\ \A m \in mail : m.conn # c
    /\ conn' = [conn EXCEPT ![c] = o] /\ mail' = mail /\ shard' = shard
    /\ old = CallTo(conn[c], AllResults({}, conn[c].got)) /\ was = conn[c].out
    /\ new = CallTo(o, AllResults({}, o.got)) /\ out = o.out

LEMMA OneConn ==
    ASSUME Talk, NEW c \in Conn, NEW o, NEW old, NEW new, NEW was, NEW out,
           Only(c, o, old, new, was, out)
    PROVE  /\ stores' = stores
           /\ calls[c] = old /\ calls' = [calls EXCEPT ![c] = new]
           /\ replies[c] = was /\ replies' = [replies EXCEPT ![c] = out]
<1>1. conn'[c] = o /\ \A b \in Conn \ {c} : conn'[b] = conn[b]
  BY DEF Talk, Objects, Only
<1>2. Back(c, mail) = {} /\ Back(c, mail') = {}
  BY BackNone DEF Only
<1>3. Results(c) = AllResults({}, conn[c].got) /\ Results(c)' = AllResults({}, o.got)
  BY <1>1, <1>2, ResultsAre
<1>4. \A b \in Conn \ {c} : Results(b)' = Results(b)
  BY <1>1, OthersResults DEF Only
<1>5. CallTo(conn[c], Results(c)) = old /\ CallTo(conn'[c], Results(c)') = new
  BY <1>1, <1>3 DEF Only
<1>6. \A b \in Conn \ {c} : CallTo(conn'[b], Results(b)') = CallTo(conn[b], Results(b))
  BY <1>1, <1>4
<1>7. calls[c] = old /\ calls' = [calls EXCEPT ![c] = new]
  BY <1>5, <1>6, CallsAre
<1>8. conn'[c].out = out /\ \A b \in Conn \ {c} : conn'[b].out = conn[b].out
  BY <1>1 DEF Only
<1>9. replies[c] = was /\ replies'[c] = out
  BY <1>8, CallsAre DEF replies, Only
<1>10. replies' = [replies EXCEPT ![c] = out]
  BY <1>8, <1>9, CallsAre DEF replies
<1>11. stores' = stores
  BY DEF stores, Only
<1> QED
  BY <1>7, <1>9, <1>10, <1>11

LEMMA NoCallYet ==
    ASSUME NEW o, o.phase \notin {"parsed", "working"}, NEW R
    PROVE  CallTo(o, R) = NoCall
BY DEF CallTo

LEMMA RespondStep ==
    ASSUME Talk, Shards, NEW c \in Conn, Respond(c) PROVE Shards' /\ Service!Next
<1> DEFINE r == conn[c]._parser
           R == AllResults({}, conn[c].got)
<1>1. \A m \in mail : m.conn # c
  BY DEF Respond, Talk, MailAwaited, Awaited
<1>2. PICK got : got = conn[c].got
  OBVIOUS
<1>3. PICK out : out = IF r.noreply THEN None ELSE [op |-> r.op, got |-> AllWritten(r, got)]
  OBVIOUS
<1>4. /\ conn[c].phase = "working" /\ DOMAIN got = Parts(r) /\ shard' = shard /\ mail' = mail
      /\ conn' = [conn EXCEPT ![c].phase = "written", ![c].got = Nothing, ![c].out = out]
  BY <1>2, <1>3 DEF Respond
<1> DEFINE o == [conn[c] EXCEPT !.phase = "written", !.got = Nothing, !.out = out]
<1>5. conn' = [conn EXCEPT ![c] = o]
  BY <1>4 DEF Talk, Objects
<1>6. DOMAIN conn[c] = Fields /\ r \in Request[c]
  BY <1>4 DEF Talk, Objects, Object
<1>7. o.phase = "written" /\ o.out = out
  BY <1>6 DEF Fields
<1>8. R = [p \in Parts(r) |-> got[p]]
  BY <1>2, <1>4, ResultsHere
<1>9. AllWritten(r, R) = AllWritten(r, got)
  BY <1>4, <1>8 DEF AllWritten
<1> DEFINE old == [cmd |-> r, left |-> Parts(r) \ DOMAIN R, got |-> AllWritten(r, R)]
<1>10. CallTo(conn[c], R) = old
  BY <1>4 DEF CallTo
<1>11. old.cmd = r /\ old.left = {} /\ old.got = AllWritten(r, got)
  BY <1>8, <1>9
<1> HIDE DEF o, old, R, r
<1>12. NoCall = CallTo(o, AllResults({}, o.got))
  BY <1>7, NoCallYet
<1>13. /\ stores' = stores /\ calls[c] = old /\ calls' = [calls EXCEPT ![c] = NoCall]
       /\ replies' = [replies EXCEPT ![c] = out]
  <2>1. old = CallTo(conn[c], AllResults({}, conn[c].got))
    BY <1>10 DEF R
  <2>2. PICK was : was = conn[c].out
    OBVIOUS
  <2>3. Only(c, o, old, NoCall, was, out)
    BY <1>1, <1>4, <1>5, <1>7, <1>12, <2>1, <2>2 DEF Only
  <2> QED
    BY <2>3, OneConn
<1>14. calls[c].cmd = r /\ calls[c].left = {} /\ calls[c].got = AllWritten(r, got)
  BY <1>11, <1>13
<1>15. out = Service!Answer(calls[c].cmd, calls[c].got)
  BY <1>3, <1>14 DEF Service!Answer
<1>16. r # None
  BY <1>6, ProtocolAssumption
<1>17. Service!Return(c)
  BY <1>13, <1>14, <1>15, <1>16, SameProtocol DEF Service!Return, calls, replies, stores
<1> QED
  BY <1>4, <1>17 DEF Service!Next, Shards

LEMMA FlushStep ==
    ASSUME Talk, Shards, NEW c \in Conn, Flush(c) PROVE Shards' /\ (Service!Next \/ Unseen)
<1> DEFINE o == IF c \in Udp THEN Fresh("waiting")
                ELSE [conn[c] EXCEPT !.phase = "waiting", !.out = None]
<1>1. conn' = [conn EXCEPT ![c] = o] /\ mail' = mail /\ shard' = shard /\ conn[c].phase = "written"
  BY DEF Flush
<1>2. \A m \in mail : m.conn # c
  BY <1>1, IdleQuiet
<1>3. o.phase = "waiting" /\ o.out = None
  BY DEF Fresh, Talk, Objects, Object, Fields
<1> HIDE DEF o
<1>4. NoCall = CallTo(o, AllResults({}, o.got))
      /\ NoCall = CallTo(conn[c], AllResults({}, conn[c].got))
  BY <1>1, <1>3, NoCallYet
<1> DEFINE was == conn[c].out
<1> HIDE DEF was
<1>5. /\ stores' = stores /\ calls[c] = NoCall /\ calls' = [calls EXCEPT ![c] = NoCall]
      /\ replies[c] = was /\ replies' = [replies EXCEPT ![c] = None]
  <2>1. was = conn[c].out
    BY DEF was
  <2>2. Only(c, o, NoCall, NoCall, was, None)
    BY <1>1, <1>2, <1>3, <1>4, <2>1 DEF Only
  <2> QED
    BY <2>2, OneConn
<1>6. calls' = calls
  BY <1>5 DEF calls
<1>7. CASE was = None
  <2>1. replies' = replies
    BY <1>5, <1>7 DEF replies
  <2> QED
    BY <1>1, <1>5, <1>6, <2>1 DEF Unseen, Shards
<1>8. CASE was # None
  <2>1. Service!Delivered(c)
    BY <1>5, <1>6, <1>8 DEF Service!Delivered, calls, replies, stores
  <2> QED
    BY <1>1, <2>1 DEF Service!Next, Shards
<1> QED
  BY <1>7, <1>8

(* A command arrives. *)
LEMMA ReceiveStep ==
    ASSUME Talk, Shards, NEW c \in Conn, NEW r \in Request[c], Receive(c, r)
    PROVE  Shards' /\ Service!Next
<1> DEFINE o == [Fresh("parsed") EXCEPT !._parser = r]
           new == [cmd |-> r, left |-> Parts(r), got |-> Nothing]
<1>1. conn' = [conn EXCEPT ![c] = o] /\ mail' = mail /\ shard' = shard /\ conn[c].phase = "waiting"
  BY DEF Receive
<1>2. \A m \in mail : m.conn # c
  BY <1>1, IdleQuiet
<1>3. o.phase = "parsed" /\ o._parser = r /\ o.got = Nothing /\ o.out = None
  BY DEF Fresh
<1>4. conn[c].out = None
  BY <1>1 DEF Talk, Objects, Object
<1> HIDE DEF o
<1>5. AllResults({}, o.got) = Nothing
  BY <1>3, ResultsHere
<1>6. AllWritten(r, Nothing) = Nothing /\ Parts(r) \ DOMAIN Nothing = Parts(r)
  BY DEF AllWritten, Nothing
<1>7. new = CallTo(o, AllResults({}, o.got))
  BY <1>3, <1>5, <1>6 DEF CallTo
<1>8. NoCall = CallTo(conn[c], AllResults({}, conn[c].got))
  BY <1>1, NoCallYet
<1> HIDE DEF new
<1>9. /\ stores' = stores /\ calls[c] = NoCall /\ calls' = [calls EXCEPT ![c] = new]
      /\ replies[c] = None /\ replies' = [replies EXCEPT ![c] = None]
  <2>1. Only(c, o, NoCall, new, None, None)
    BY <1>1, <1>2, <1>3, <1>4, <1>7, <1>8 DEF Only
  <2> QED
    BY <2>1, OneConn
<1>10. replies' = replies
  BY <1>9 DEF replies
<1>11. Service!Call(c, r)
  BY <1>9, <1>10, SameProtocol
     DEF Service!Call, Service!Idle, calls, replies, stores, new
<1> QED
  BY <1>1, <1>11 DEF Service!Next, Shards

(* The other steps of a connection without a command. *)
LEMMA BetweenStep ==
    ASSUME Talk, Shards, NEW c \in Conn, Accept(c) \/ Close(c) \/ Refuse(c)
    PROVE  Shards' /\ (Service!Next \/ Unseen)
<1>1. \A m \in mail : m.conn # c
  BY IdleQuiet DEF Accept, Close, Refuse
<1>2. /\ mail' = mail /\ shard' = shard /\ conn[c].phase \in {"closed", "waiting"}
      /\ conn[c].out = None
  BY DEF Accept, Close, Refuse, Talk, Objects, Object
<1>3. NoCall = CallTo(conn[c], AllResults({}, conn[c].got))
  BY <1>2, NoCallYet
<1>4. ASSUME NEW o, conn' = [conn EXCEPT ![c] = o], o.phase \notin {"parsed", "working"},
             NEW out, out = o.out
      PROVE  /\ stores' = stores /\ calls[c] = NoCall /\ calls' = calls
             /\ replies[c] = None /\ replies' = [replies EXCEPT ![c] = out]
  <2>1. NoCall = CallTo(o, AllResults({}, o.got))
    BY <1>4, NoCallYet
  <2>2. /\ stores' = stores /\ calls[c] = NoCall /\ calls' = [calls EXCEPT ![c] = NoCall]
        /\ replies[c] = None /\ replies' = [replies EXCEPT ![c] = out]
    <3>1. Only(c, o, NoCall, NoCall, None, out)
      BY <1>1, <1>2, <1>3, <1>4, <2>1 DEF Only
    <3> QED
      BY <3>1, OneConn
  <2> QED
    BY <2>2 DEF calls
<1>5. CASE Accept(c) \/ Close(c)
  <2>1. PICK phase \in {"waiting", "closed"} : conn' = [conn EXCEPT ![c] = Fresh(phase)]
    BY <1>5 DEF Accept, Close
  <2>2. Fresh(phase).phase \notin {"parsed", "working"} /\ None = Fresh(phase).out
    BY DEF Fresh
  <2>3. /\ stores' = stores /\ calls' = calls
        /\ replies[c] = None /\ replies' = [replies EXCEPT ![c] = None]
    BY <1>4, <2>1, <2>2
  <2>4. replies' = replies
    BY <2>3 DEF replies
  <2> QED
    BY <1>2, <2>3, <2>4 DEF Unseen, Shards
<1>6. CASE Refuse(c)
  <2> DEFINE o == [conn[c] EXCEPT !.phase = "written", !.out = [op |-> "refused", got |-> <<>>]]
  <2>1. conn' = [conn EXCEPT ![c] = o]
    BY <1>6 DEF Refuse, Talk, Objects
  <2>2. o.phase = "written" /\ o.out = [op |-> "refused", got |-> <<>>]
    BY DEF Talk, Objects, Object, Fields
  <2> HIDE DEF o
  <2>3. /\ stores' = stores /\ calls[c] = NoCall /\ calls' = calls
        /\ replies[c] = None
        /\ replies' = [replies EXCEPT ![c] = [op |-> "refused", got |-> <<>>]]
    BY <1>4, <2>1, <2>2
  <2>4. Service!Refuse(c)
    BY <2>3, SameProtocol DEF Service!Refuse, Service!Idle, calls, replies, stores
  <2> QED
    BY <1>2, <2>4 DEF Service!Next, Shards
<1> QED
  BY <1>5, <1>6

(* Timers lose entries of a shard. *)
LEMMA LoseStep ==
    ASSUME Talk, Shards, NEW i \in Core, Lose(i) PROVE Shards' /\ Service!Next
<1>1. PICK S \in (SUBSET {k \in Key : shard[i][k] # None}) \ {{}} :
         /\ shard' = [shard EXCEPT ![i] = [k \in Key |-> IF k \in S THEN None ELSE shard[i][k]]]
         /\ UNCHANGED <<conn, mail>>
  BY DEF Lose
<1>2. PICK e : e \in S
  BY <1>1
<1>3. Home \in [Key -> Core]
  BY ProtocolAssumption
<1>4. Shards'
  BY <1>1, ZenonT(60) DEF Shards, OwnShard, Shard
<1>5. \A k \in Key : stores'[k] = IF Home[k] = i /\ k \in S THEN None ELSE stores[k]
  BY <1>1, <1>3 DEF Shards, stores
<1>6. stores'[e] = None /\ stores[e] # None /\ e \in Key
  <2>1. shard[i][e] # None /\ e \in Key
    BY <1>1, <1>2
  <2>2. Home[e] = i
    BY <2>1 DEF Shards, OwnShard
  <2> QED
    BY <1>2, <1>5, <2>1, <2>2 DEF stores
<1>7. Service!S!Lose
  BY <1>5, <1>6 DEF Service!S!Lose, Service!S!KeptOrLost, stores
<1>8. calls' = calls /\ replies' = replies
  BY <1>1 DEF calls, replies, Results
<1> QED
  BY <1>4, <1>7, <1>8 DEF Service!Next, calls, replies, stores

-----------------------------------------------------------------------------

IInv == Talk /\ Shards

LEMMA InitHolds == Init => IInv
<1>1. ASSUME Init PROVE Shards
  BY <1>1 DEF Init, Shards, OwnShard, Shard
<1> QED
  BY <1>1, InitTalk DEF IInv

LEMMA Steps == ASSUME IInv, [Next]_vars PROVE IInv' /\ (Service!Next \/ Unseen)
<1>1. Talk /\ Shards /\ Talk'
  BY NextTalk DEF IInv
<1>2. CASE UNCHANGED vars
  <2>1. shard' = shard /\ conn' = conn /\ mail' = mail
    BY <1>2 DEF vars
  <2> QED
    BY <1>1, <2>1 DEF IInv, Shards, Unseen, stores, calls, replies, Results
<1>3. ASSUME NEW c \in Conn, Serve(c) PROVE Shards' /\ (Service!Next \/ Unseen)
  BY <1>1, <1>3, DispatchStep, PrepareFailsStep, PrintStatsStep, RespondStep, FlushStep,
     ExecuteStep, DeliverStep DEF Serve
<1>4. ASSUME NEW c \in Conn, Accept(c) \/ Close(c) \/ Refuse(c)
      PROVE  Shards' /\ (Service!Next \/ Unseen)
  BY <1>1, <1>4, BetweenStep
<1>5. ASSUME NEW c \in Conn, NEW r \in Request[c], Receive(c, r) PROVE Shards' /\ Service!Next
  BY <1>1, <1>5, ReceiveStep
<1>6. ASSUME NEW i \in Core, Lose(i) PROVE Shards' /\ Service!Next
  BY <1>1, <1>6, LoseStep
<1> QED
  BY <1>1, <1>2, <1>3, <1>4, <1>5, <1>6 DEF Next, IInv

(* The shards, the protocol objects and the messages always fit together. *)
THEOREM Invariance == Spec => []IInv
BY InitHolds, Steps, PTL DEF Spec

(* What a task under way on another core refers to, the key and the insertion kept in
   the protocol object, stays what it was sent for until the task has run. *)
THEOREM InsertionLives == Spec => []RequestIntact
<1>1. IInv => RequestIntact
  BY DEF IInv, Talk, MailAwaited, Awaited, RequestIntact
<1> QED
  BY <1>1, Invariance, PTL

LEMMA InitIsServiceInit == Init => Service!Init
<1> SUFFICES ASSUME Init PROVE Service!Init
  OBVIOUS
<1>1. stores = [k \in Key |-> None]
  BY ProtocolAssumption DEF Init, stores
<1>2. calls = [c \in Conn |-> NoCall]
  BY DEF Init, Fresh, calls
<1>3. replies = [c \in Conn |-> None]
  BY DEF Init, Fresh, replies
<1> QED
  BY <1>1, <1>2, <1>3, SameProtocol DEF Service!Init, Service!S!Init, stores, calls, replies

(* Each command takes effect on each of its keys at one moment between its arrival and
   its answer, and the answer says what was found there: cores, messages and failed
   allocations do not show. *)
THEOREM Refinement == Spec => ImplementsService
<1>1. IInv /\ [Next]_vars => [Service!Next]_<<stores, calls, replies>>
  BY Steps DEF Unseen
<1>2. Service!Spec <=> ImplementsService
  BY DEF ImplementsService
<1> QED
  BY <1>1, <1>2, InitIsServiceInit, Invariance, PTL DEF Spec, Service!Spec

=============================================================================
