--------------------------- MODULE MCValueStream ---------------------------
(***************************************************************************)
(* Bytes of five bits, of which four carry a size and two an index; floats *)
(* of eight, doubles of eleven bits.                                       *)
(***************************************************************************)
EXTENDS ValueStream

AllSizes == 0 .. (SizeModulus - 1)
Types == 4 .. 6

\* The numbers about which a type may go wrong: those next to zero, and next
\* to the ends of every type.
Corners ==
  {n + d : n \in {0} \cup {ModulusOf(t) : t \in Types} \cup {ModulusOf(t) \div 2 : t \in Types}
                  \cup {-(ModulusOf(t) \div 2) : t \in Types},
           d \in -2 .. 2}
AllNumbers ==
  UNION {{[type |-> t, signed |-> s, value |-> n] : n \in Corners \cap RangeOf(t, s)} :
         t \in Types, s \in BOOLEAN}

AllSingles == Single!Floats
\* The smallest and the largest doubles, those around one, and those where
\* the floats end.
SomeDoubles ==
  {d \in Double!Floats : Double!Field(d) \in {0, 1, 2, 12, 13, 14, 16, 17, 31, 46, 47, 61, 62, 63}}

\* Of every length up to two rounds of the buffer and a half: one is true, or
\* one is false, or all are the same.
AllBooleans ==
  UNION {{[i \in 1 .. n |-> (i = k) = b] : k \in 0 .. n, b \in BOOLEAN} : n \in 0 .. 25}

None == {}
=============================================================================
