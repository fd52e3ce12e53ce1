------------------------------- MODULE ZigZag -------------------------------
(***************************************************************************)
(* ZigZag and ZagZig (util.h): signed integers as unsigned ones, those     *)
(* near zero as small ones.  An integer has m values, m even; bits are     *)
(* modelled by arithmetic.                                                 *)
(***************************************************************************)
EXTENDS Integers

\* The unsigned u, read as a signed integer.
Signed(u, m) == IF 2 * u < m THEN u ELSE u - m

\* Xor with a mask that has no bit, or all of them.
Xor(u, mask, m) == IF mask = 0 THEN u ELSE m - 1 - u

\* The sign, shifted over all the bits, is a mask.
ZigZag(s, m) == Xor((2 * s) % m, IF s < 0 THEN m - 1 ELSE 0, m)
ZagZig(u, m) == Signed(Xor(u \div 2, IF u % 2 = 1 THEN m - 1 ELSE 0, m), m)

=============================================================================
