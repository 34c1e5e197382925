------------------------------ MODULE MCWire ------------------------------
(***************************************************************************)
(* A small instance of Wire for TLC.  With bytes of one bit a payload tail *)
(* that equals a sum is an ordinary case.                                  *)
(***************************************************************************)
EXTENDS Wire, FiniteSets

SmallMagic == <<1, 0>>
SomeNames == {<<1>>, <<0, 1>>}

\* Length and bits, modulo 2.
Parities(s) == <<Len(s) % 2, Cardinality({i \in 1..Len(s) : s[i] = 1}) % 2>>
===========================================================================
