----------------------------- MODULE PutDuration -----------------------------
(***************************************************************************)
(* The TTL that putCommandHandler (src/unnamed/part_001) builds for a PUT  *)
(* with PX or PXAT: time.Duration(putCmd.PX*int64(time.Millisecond)).      *)
(* The product is Go's int64 multiplication, which wraps modulo 2^64.      *)
(* TLC's integers are narrower than that, so an int64 is kept as its 8     *)
(* bytes, little-endian two's complement, and multiplied byte by byte      *)
(* with carries: the low 8 bytes of the product are what Go computes.      *)
(* EX and EXAT go through float64 and are not modelled.                    *)
(***************************************************************************)
EXTENDS Naturals, Sequences, FiniteSetsExt

CONSTANTS Inputs,   \* PX (or PXAT) values ParsePutCommand can return
          None      \* no TTL built yet

Int64 == [1..8 -> 0..255]

ASSUME Inputs \subseteq Int64

\* time.Millisecond and time.Microsecond, in nanoseconds (1e6 and 1e3).
Millisecond == <<64, 66, 15, 0, 0, 0, 0, 0>>
Microsecond == <<232, 3, 0, 0, 0, 0, 0, 0>>

VARIABLES px,       \* putCmd.PX
          ttl       \* the Duration handed to the PX option, or None

vars == <<px, ttl>>

\* Column i of the schoolbook product of a and b.
Conv(a, b, i) == MapThenSumSet(LAMBDA j : a[j] * b[i + 1 - j], 1..i)

\* The carry into byte i.
RECURSIVE Carry(_, _, _)
Carry(a, b, i) ==
    IF i = 1 THEN 0 ELSE (Conv(a, b, i - 1) + Carry(a, b, i - 1)) \div 256

\* int64 * int64: the low 64 bits of the product (two's complement makes
\* this the same for signed and unsigned operands).
Mul(a, b) == [i \in 1..8 |-> (Conv(a, b, i) + Carry(a, b, i)) % 256]

\* Mutant of Duration: the unit is time.Microsecond.
DurationMicro(x) == Mul(x, Microsecond)

\* time.Duration(putCmd.PX*int64(time.Millisecond)); Duration is an int64.
Duration(x) == Mul(x, Millisecond)

TypeOK ==
    /\ px \in Int64
    /\ ttl \in Int64 \cup {None}

Init ==
    /\ px \in Inputs
    /\ ttl = None

\* The switch's PX (or PXAT) case: the option is built from the Duration.
Convert ==
    /\ ttl = None
    /\ ttl' = Duration(px)
    /\ UNCHANGED px

Next == Convert

Spec == Init /\ [][Next]_vars

-----------------------------------------------------------------------------
(* Properties                                                              *)

Negative(x) == x[8] >= 128
IsZero(x)   == \A i \in 1..8 : x[i] = 0

\* An int64 below 2^31, and its value.
Small(x)  == x[4] < 128 /\ \A i \in 5..8 : x[i] = 0
Value(x)  == ((x[4] * 256 + x[3]) * 256 + x[2]) * 256 + x[1]

\* Reference check of the conversion: for a PX small enough that the
\* product fits in TLC's integers, the Duration is PX million nanoseconds.
DurationIsMilliseconds ==
    ttl # None /\ Small(px) /\ Value(px) <= 2147 =>
        Small(ttl) /\ Value(ttl) = Value(px) * 1000000

\* A PUT given a positive PX gets a positive TTL: the entry expires, and
\* not at once (spec.md 4.D: a put with an explicit TTL stores that TTL,
\* and a zero TTL means no expiry).
PositiveTTL ==
    ttl # None /\ ~Negative(px) /\ ~IsZero(px) => ~Negative(ttl) /\ ~IsZero(ttl)
=============================================================================
