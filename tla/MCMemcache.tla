------------------------------ MODULE MCMemcache ------------------------------
(* Two cores, one with two keys and the other with one, a TCP connection on the
   first and a UDP channel on the second. *)
EXTENDS Memcache, TLC

CONSTANTS c1, c2, k1, k2, k3, t, u

MCHome == k1 :> c1 @@ k2 :> c2 @@ k3 :> c1
MCAt   == t :> c1 @@ u :> c2

Cmd(op, K, d, n, q) == [op |-> op, keys |-> K, data |-> d, num |-> n, noreply |-> q]

(* t writes k1 at home and k2 on the other core, u the other way round. *)
MCRequest ==
    t :> {Cmd("set", {k1}, 0, 0, FALSE), Cmd("set", {k2}, 0, 0, TRUE),
          Cmd("incr", {k2}, None, 1, FALSE), Cmd("get", Key, None, 0, FALSE),
          Cmd("flush_all", {}, None, 0, FALSE), Cmd("stats", {}, None, 0, FALSE)}
    @@
    u :> {Cmd("replace", {k1}, 1, 0, FALSE), Cmd("cas", {k1}, 1, 1, FALSE),
          Cmd("delete", {k1}, None, 0, TRUE), Cmd("get", {k1}, None, 0, FALSE),
          Cmd("decr", {k2}, None, 1, FALSE), Cmd("add", {k3}, Text, 0, FALSE),
          Cmd("incr", {k3}, None, 1, FALSE), Cmd("flush_at", {}, None, 0, TRUE),
          Cmd("error", {}, None, 0, FALSE)}

=============================================================================
