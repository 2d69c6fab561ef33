------------------------------ MODULE SizeClass ------------------------------
(***************************************************************************)
(* Which of the 41 size classes usmm_slab_find (src/usmm/usmm.c) serves a  *)
(* request from.  usmm_slice_alloc takes the size as a size_t and passes   *)
(* it on as an int, whose largest value is INT_MAX.                        *)
(***************************************************************************)
EXTENDS Integers

CONSTANTS
    INT_MAX,       \* the largest int
    MaxSize        \* bound: the largest size asked for

ASSUME WidthAssumption == INT_MAX \in Nat /\ MaxSize \in Nat

VARIABLE asked     \* the size a caller of usmm_slice_alloc asks for

kb == 1024

SlabArray == <<8,
    16, 32, 48, 64, 80, 96, 112, 128,
    192, 256, 320, 384, 448, 512,
    768, 1024, 1280, 1536, 1792, 2048,
    4*kb, 6*kb, 8*kb, 10*kb, 12*kb, 14*kb, 16*kb,
    20*kb, 24*kb, 28*kb, 32*kb, 36*kb, 40*kb, 44*kb, 48*kb,
    64*kb, 80*kb, 96*kb, 112*kb, 128*kb>>

Index == 0 .. 40

gs_slab_array == [i \in Index |-> SlabArray[i + 1]]

(* Sizes up to `upto` are rounded up to a multiple of step, raised to least,
   and counted from class first. *)
Band(upto, step, least, first) ==
    [upto |-> upto, step |-> step, least |-> least, first |-> first]

Bands == {Band(128,    16,    16,    1),
          Band(512,    64,    192,   9),
          Band(2048,   256,   768,   15),
          Band(16*kb,  2*kb,  4*kb,  21),
          Band(48*kb,  4*kb,  20*kb, 28),
          Band(128*kb, 16*kb, 64*kb, 36)}

(* Mistakes: rounded down; rounded up past a multiple. *)
AlignDown(n, s) == (n \div s) * s

AlignPast(n, s) == (n \div s + 1) * s

USMM_ALIGN(n, s) == ((n + s - 1) \div s) * s

Larger(a, b) == IF a < b THEN b ELSE a

BandIndex(n, b) ==
    (Larger(USMM_ALIGN(n, b.step), b.least) - b.least) \div b.step + b.first

(* The band taken is the first whose limit the size does not exceed. *)
BandOf(n) == CHOOSE b \in Bands : /\ n =< b.upto
                                  /\ \A d \in Bands : n =< d.upto => b.upto =< d.upto

usmm_slab_find(n) ==
    IF n =< 8 THEN 0
    ELSE IF \A b \in Bands : n > b.upto THEN -1
    ELSE BandIndex(n, BandOf(n))

(* A size_t passed as an int: its low bits, in two's complement. *)
AsInt(n) == LET ints == 2 * (INT_MAX + 1)
                low  == n % ints
            IN  IF low =< INT_MAX THEN low ELSE low - ints

(* The class usmm_slice_alloc serves a request of n bytes from; -1: NULL. *)
ClassFor(n) == usmm_slab_find(AsInt(n))

SizeInit == asked = 0

SizeNext == \E n \in {asked + 1, 2 * asked} : n =< MaxSize /\ asked' = n

SizeSpec == SizeInit /\ [][SizeNext]_asked

-----------------------------------------------------------------------------
(* Slices are 8 bytes to 128 kB (README.md:43): a larger request is refused.  Of
   any other the class is the smallest that holds it: no request gets a slice
   shorter than it asked for, none gets a longer one than needed, none is refused.
   This is said of the requests an int can hold. *)
ClassIsSmallestFit ==
    asked =< INT_MAX =>
        IF asked > 128 * kb THEN ClassFor(asked) = -1
        ELSE /\ ClassFor(asked) \in Index
             /\ asked =< gs_slab_array[ClassFor(asked)]
             /\ \A i \in Index : i < ClassFor(asked) => gs_slab_array[i] < asked

(* usmm_slice_free looks the class up again by the slab's own slice size and
   ASSERTs that it gets that size back: a slice size is its own class, also when
   the request wrapped on its way to the class it was served from. *)
FreeFindsSameClass ==
    LET i == ClassFor(asked)
    IN  i # -1 => /\ usmm_slab_find(gs_slab_array[i]) = i
                  /\ i = ClassFor(gs_slab_array[i])

(* Slices are 8 bytes to 128 kB (README.md:43): whatever is asked for, the answer
   is a slice that has room for it, or NULL. *)
ServedIsEnough ==
    ClassFor(asked) # -1 => asked =< gs_slab_array[ClassFor(asked)]

=============================================================================
