----------------------------- MODULE CacheShard -----------------------------
(***************************************************************************)
(* One shard of the memcached server (class cache of src/engine/           *)
(* memcache.cc): a hash set of reference-counted items in memory a slab    *)
(* allocator hands out, an expiration timer and a flush timer.             *)
(*                                                                         *)
(* A shard belongs to one core, whose reactor runs a command or a timer    *)
(* callback to its end, so each is one action.  What overlaps is the use   *)
(* of the results: a reply refers to the item's memory until it is sent,   *)
(* and a client sends a cas long after the gets it took the version from.  *)
(*                                                                         *)
(* Hash buckets and the counters of hits and misses are left out.          *)
(***************************************************************************)
EXTENDS Integers, FiniteSetsExt

CONSTANTS
    Key,
    Slot,           \* the chunks of memory the slab allocator has for items
    Text,           \* a value that is no number
    MaxNum,         \* the largest number, 2^64 - 1
    ItemSize,       \* item_size, by the item's data
    Conn,           \* the references unsent replies may hold at a time, one for
                    \* each key of a get
    RefModulus,     \* the counts of references wrap: 2^16, a uint16_t
    MaxTime,        \* bound: the clock
    Delay,          \* bound: the times a flush_all may be put off to
    MaxVersion,     \* bound: how often a key is overwritten
    EvictErased,    \* whether an item that a reply holds, but the cache has
                    \* erased, may be evicted (see Evictable)
    None

Num  == 0 .. MaxNum
Data == Num \cup {Text}

ASSUME ShardAssumption ==
    /\ IsFiniteSet(Slot) /\ IsFiniteSet(Conn) /\ None \notin Slot
    /\ MaxNum \in Nat /\ Text \notin Num
    /\ ItemSize \in [Data -> Nat \ {0}]
    /\ RefModulus \in Nat /\ RefModulus > 1
    /\ Delay \subseteq 1 .. MaxTime /\ MaxTime \in Nat /\ MaxVersion \in Nat \ {0} /\ EvictErased \in BOOLEAN

Time   == 1 .. MaxTime + 1
Never  == MaxTime + 1             \* the end of time: a timer that is not armed
Expiry == 0 .. MaxTime            \* 0: the item does not expire

Item    == [key : Key, version : 1 .. MaxVersion, data : Data, expiry : Expiry,
            refs : 1 .. RefModulus - 1]
NoItem  == [refs |-> 0]           \* a free chunk

VARIABLES
    c,              \* the cache: item, _cache, _alive, next, _timer, _bytes
    flush,          \* when _flush_timer fires
    reply,          \* of each connection: the item its unsent reply refers to
    token,          \* of each connection: what its last gets returned
    now

vars == <<c, flush, reply, token, now>>

Reply == [slot : Slot, key : Key, data : Data]
Token == [key : Key, version : 1 .. MaxVersion, data : Data,
          stayed : BOOLEAN]       \* history: the key never left the cache since

ASSUME NoneAssumption ==
    None \notin Reply \cup Token \cup [version : 1 .. MaxVersion, data : Data]

Cache == [item : [Slot -> Item \cup {NoItem}], _cache : SUBSET Slot,
          _alive : SUBSET Slot, next : Time, _timer : Time, _bytes : Int]

TypeOK ==
    /\ c \in Cache
    /\ flush \in Time
    /\ reply \in [Conn -> Reply \cup {None}]
    /\ token \in [Conn -> Token \cup {None}]
    /\ now \in 0 .. MaxTime

Init ==
    /\ c = [item |-> [s \in Slot |-> NoItem], _cache |-> {}, _alive |-> {},
            next |-> Never, _timer |-> Never, _bytes |-> 0]
    /\ flush = Never
    /\ reply = [r \in Conn |-> None] /\ token = [r \in Conn |-> None]
    /\ now = 0

-----------------------------------------------------------------------------
(* Reference counts.  The cache's own reference is one of them. *)

(* A count can tell all the references there may be: the code does not see to it. *)
HoldersFit == Cardinality(Conn) + 1 < RefModulus

(* Mistake: the chunk of an item with no holder left is not freed. *)
ReleaseOnly(e, s) == [e EXCEPT !.item[s].refs = (@ - 1) % RefModulus]

intrusive_ptr_add_ref(e, s) == [e EXCEPT !.item[s].refs = (@ + 1) % RefModulus]

(* An item with a reference less: slab->free when its count gets to 0. *)
Released(i) == LET n == (i.refs - 1) % RefModulus
               IN  IF n = 0 THEN NoItem ELSE [i EXCEPT !.refs = n]

intrusive_ptr_release(e, s) == [e EXCEPT !.item[s] = Released(@)]

(* Mistake: locked items are evicted, too. *)
AnyCached(e) == e._cache

(* is_unlocked(): one reference.  It tells the slab allocator that nobody but
   the cache refers to the item; but an item the cache has erased while a reply
   holds it has one reference, too, the reply's. *)
Evictable(e) ==
    {s \in Slot : e.item[s].refs = 1 /\ (s \in e._cache \/ EvictErased)}

Sizes(e, S) == SumFunctionOnSet([s \in S |-> ItemSize[e.item[s].data]], S)

(* Mistake: _bytes is left as it is. *)
UnlinkUncounted(e, S) == [e EXCEPT !._cache = @ \ S, !._alive = @ \ S]

(* erase<IsInCache, IsInTimerList, Release> with its last argument false. *)
Unlink(e, S) ==
    [e EXCEPT !._cache = @ \ S, !._alive = @ \ S, !._bytes = @ - Sizes(e, S)]

(* Mistake: the cache's own reference is not released. *)
EraseKeepingRef(e, s) == Unlink(e, {s})

erase(e, s) == intrusive_ptr_release(Unlink(e, {s}), s)

(* The allocator's own way to get memory: the callback erases each item. *)
Evict(e, S) ==
    LET u == Unlink(e, S)
    IN  [u EXCEPT !.item = [s \in Slot |-> IF s \in S THEN NoItem ELSE @[s]]]

Free(e) == {s \in Slot : e.item[s] = NoItem}

(* The caches slab->create may leave behind, with a free chunk in them: as it
   is, or after evicting some items when no chunk is free. *)
Room(e) == IF Free(e) # {} THEN {e}
           ELSE {Evict(e, S) : S \in (SUBSET Evictable(e)) \ {{}}}

(* slab->create throws bad_alloc. *)
Fails(e) == Free(e) = {}

(* Mistake: the timer is armed for the first item only. *)
ArmFirst(e, s, expiry) ==
    IF expiry = 0 THEN e
    ELSE IF e._alive = {} THEN [e EXCEPT !._alive = {s}, !.next = expiry, !._timer = expiry]
    ELSE [e EXCEPT !._alive = @ \cup {s}]

(* timer_set::insert, and rearming the timer when the item is the earliest. *)
Arm(e, s, expiry) ==
    IF expiry = 0 THEN e
    ELSE LET a == [e EXCEPT !._alive = @ \cup {s}]
         IN  IF expiry < e.next THEN [a EXCEPT !.next = expiry, !._timer = expiry]
                                ELSE a

(* The item constructed in a free chunk, referred to and inserted. *)
Insert(e, k, d, x, version) ==
    LET s == CHOOSE s \in Free(e) : TRUE
        n == [e EXCEPT
                !.item[s] = [key |-> k, version |-> version, data |-> d,
                             expiry |-> x, refs |-> 1],
                !._cache = @ \cup {s}, !._bytes = @ + ItemSize[d]]
    IN  Arm(n, s, x)

find(e, k) == {s \in e._cache : e.item[s].key = k}

(* Mistake: the new item starts with the old one's version. *)
OverridingSameVersion(e, s, d, x) ==
    LET k == e.item[s].key
        u == erase(e, s)
    IN  {Insert(r, k, d, x, e.item[s].version) : r \in Room(u)}
            \cup (IF Fails(u) THEN {u} ELSE {})

(* The caches add_overriding and add_new may end with; what they have done by
   the time create fails stays done. *)
add_overriding(e, s, d, x) ==
    LET k == e.item[s].key
        u == erase(e, s)
    IN  {Insert(r, k, d, x, e.item[s].version + 1) : r \in Room(u)}
            \cup (IF Fails(u) THEN {u} ELSE {})

add_new(e, k, d, x) ==
    {Insert(r, k, d, x, 1) : r \in Room(e)} \cup (IF Fails(e) THEN {e} ELSE {})

-----------------------------------------------------------------------------
(* Commands. *)

(* A key that is missing from the cache, even for an instant, breaks the chain
   of versions the token is from. *)
Left(k, e) == find(e, k) = {}
Aged(e) == [r \in Conn |->
              IF token[r] = None THEN None
              ELSE [token[r] EXCEPT !.stayed = @ /\ ~Left(token[r].key, e)]]

Becomes(e) == c' = e /\ token' = Aged(e) /\ UNCHANGED <<flush, now>>

Versioned(s) == c.item[s].version < MaxVersion

Overwrite(k, d, x) ==
    \E s \in find(c, k) : /\ Versioned(s)
                          /\ \E e \in add_overriding(c, s, d, x) : Becomes(e)

StoreNew(k, d, x) == /\ find(c, k) = {}
                     /\ \E e \in add_new(c, k, d, x) : Becomes(e)

add(k, d, x)     == StoreNew(k, d, x) /\ UNCHANGED reply
replace(k, d, x) == Overwrite(k, d, x) /\ UNCHANGED reply
set(k, d, x)     == add(k, d, x) \/ replace(k, d, x)

remove(k) == \E s \in find(c, k) : Becomes(erase(c, s)) /\ UNCHANGED reply

ReplyWith(r, e, s) ==
    reply' = [reply EXCEPT ![r] = [slot |-> s, key  |-> e.item[s].key,
                                   data |-> e.item[s].data]]

get(r, k) ==
    /\ reply[r] = None
    /\ \E s \in find(c, k) :
          /\ c' = intrusive_ptr_add_ref(c, s)
          /\ ReplyWith(r, c, s)
          /\ token' = [token EXCEPT ![r] =
                [key |-> k, version |-> c.item[s].version,
                 data |-> c.item[s].data, stayed |-> TRUE]]
          /\ UNCHANGED <<flush, now>>

(* Overwrites only what has the version the client saw. *)
cas(r, d, x) ==
    /\ token[r] # None
    /\ \E s \in find(c, token[r].key) :
          /\ c.item[s].version = token[r].version
          /\ Overwrite(token[r].key, d, x)
    /\ UNCHANGED reply

(* incr and decr replace a number by another one; the new item keeps the expiry
   and the reply refers to it.  A failure to make the text of the number comes
   before the erase and changes nothing. *)
Arithmetic(r, s, d) ==
    LET k == c.item[s].key
    IN  /\ reply[r] = None /\ Versioned(s)
        /\ \E e \in add_overriding(c, s, d, c.item[s].expiry) :
              IF Left(k, e)
              THEN Becomes(e) /\ UNCHANGED reply              \* bad_alloc
              ELSE LET n == CHOOSE n \in find(e, k) : TRUE
                   IN  /\ Becomes(intrusive_ptr_add_ref(e, n))
                       /\ ReplyWith(r, e, n)

Numbers(k) == {s \in find(c, k) : c.item[s].data # Text}

incr(r, k, delta) ==
    \E s \in Numbers(k) : Arithmetic(r, s, (c.item[s].data + delta) % (MaxNum + 1))

decr(r, k, delta) ==
    \E s \in Numbers(k) : Arithmetic(r, s, c.item[s].data - Min({c.item[s].data, delta}))

(* The reply has been sent: on_delete of its scattered_message. *)
Sent(r) ==
    /\ reply[r] # None
    /\ c' = intrusive_ptr_release(c, reply[r].slot)
    /\ reply' = [reply EXCEPT ![r] = None]
    /\ UNCHANGED <<flush, token, now>>

-----------------------------------------------------------------------------
(* Timers. *)

EraseAll(e, S) ==
    LET u == Unlink(e, S)
    IN  [u EXCEPT !.item = [s \in Slot |->
            IF s \in S THEN Released(@[s]) ELSE @[s]]]

(* timer_set::expire takes the items due out and finds the next one. *)
expire ==
    /\ c._timer =< now
    /\ LET due == {s \in c._alive : c.item[s].expiry =< now}
           e == EraseAll(c, due)
           n == Min({e.item[s].expiry : s \in e._alive} \cup {Never})
       IN  Becomes([e EXCEPT !.next = n, !._timer = n])
    /\ UNCHANGED reply

FlushAll ==
    /\ c' = EraseAll(c, c._cache)
    /\ token' = Aged(c')
    /\ flush' = Never
    /\ UNCHANGED <<reply, now>>

flush_all == FlushAll

FlushTimer == flush =< now /\ FlushAll

flush_at(t) == flush' = t /\ UNCHANGED <<c, reply, token, now>>

Tick == now < MaxTime /\ now' = now + 1 /\ UNCHANGED <<c, flush, reply, token>>

(* add and replace are the two cases of set. *)
Store == \E k \in Key, d \in Data, x \in Expiry : set(k, d, x)

Update == \E r \in Conn : \/ \E d \in Data, x \in Expiry : cas(r, d, x)
                          \/ \E k \in Key, delta \in Num :
                                incr(r, k, delta) \/ decr(r, k, delta)

Next == \/ Store \/ Update
        \/ \E k \in Key : remove(k)
        \/ \E r \in Conn : Sent(r) \/ \E k \in Key : get(r, k)
        \/ expire \/ flush_all \/ FlushTimer \/ \E t \in Delay : flush_at(t)
        \/ Tick

Spec == Init /\ [][Next]_vars

-----------------------------------------------------------------------------
(* Correctness. *)

(* The count of an item is the number of its holders: one for the cache, one
   for each unsent reply.  So a chunk is freed when its last holder lets go,
   in whichever order erasing and sending come, and never before. *)
RefsExact ==
    \A s \in Slot :
        c.item[s].refs = (IF s \in c._cache THEN 1 ELSE 0)
                         + Cardinality({r \in Conn : /\ reply[r] # None
                                                     /\ reply[r].slot = s})

(* An unsent reply still refers to the key and the value it was made for, though
   the item may be overwritten, removed, flushed or expired meanwhile. *)
ReplyStable ==
    \A r \in Conn : reply[r] # None =>
        LET i == c.item[reply[r].slot]
        IN  i.refs > 0 /\ i.key = reply[r].key /\ i.data = reply[r].data

(* A key is cached once (assert(insert_result.second)), and _bytes is the size
   of what is cached, after failed allocations and evictions as well. *)
CacheExact ==
    /\ \A s, t \in c._cache : c.item[s].key = c.item[t].key => s = t
    /\ c._bytes = Sizes(c, c._cache)

(* No item with an expiry is forgotten: it is in the timer set, and the timer
   fires at its expiry or before, whatever was removed or inserted since the
   timer was last armed. *)
TimerCovers ==
    /\ c._alive = {s \in c._cache : c.item[s].expiry # 0}
    /\ \A s \in c._alive : c._timer =< c.item[s].expiry

(* A cas with the version of a gets finds the value that gets returned, unless
   the key left the cache in between: no other client's change is lost. *)
CasSound ==
    \A r \in Conn : token[r] # None /\ token[r].stayed =>
        \A s \in find(c, token[r].key) :
            c.item[s].version = token[r].version => c.item[s].data = token[r].data

EntryOf(k) ==
    LET S == find(c, k)
    IN  IF S = {} THEN None
        ELSE LET i == c.item[CHOOSE s \in S : TRUE]
             IN  [version |-> i.version, data |-> i.data]

Promise == INSTANCE ItemStore WITH store <- [k \in Key |-> EntryOf(k)]

(* The shard is the item store the rest of the server takes it for: whatever a step
   erases, evicts or fails to allocate, it writes at most one key, whose version then
   grows by one, and every other entry is as it was or gone. *)
ImplementsItemStore == Promise!Spec

=============================================================================
