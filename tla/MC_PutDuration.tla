--------------------------- MODULE MC_PutDuration ---------------------------
EXTENDS PutDuration

\* The bytes of a natural number below 2^31.
MC_Bytes(n) == [i \in 1..8 |-> IF i <= 4 THEN (n \div 2^(8 * (i - 1))) % 256 ELSE 0]

\* PX values that do not overflow: 0 to 2147 ms.
MC_SmallPX == {MC_Bytes(n) : n \in 0..2147}

\* PX values at the int64 edge: 2^58 ms (the product is 2^64), the least
\* PX whose product passes 2^63 (9223372036855 ms), and the largest int64.
MC_LargePX == {<<0, 0, 0, 0, 0, 0, 0, 4>>,
               <<247, 90, 208, 123, 99, 8, 0, 0>>,
               <<255, 255, 255, 255, 255, 255, 255, 127>>}

MC_AllPX == MC_SmallPX \cup MC_LargePX
=============================================================================
