---------------------------- MODULE MCOrderedMap ----------------------------
(* Ordered with bytes of two values: words of 2, 4, 16 and 256 values stand  *)
(* for the widths 1, 2, 4 and 8.  Float keys are -Inf, a negative and a      *)
(* positive number.                                                          *)
EXTENDS OrderedMap, TLC

TheStrings == {<<>>, <<0>>, <<0, 0>>, <<0, 1>>, <<1>>}
TheInfinity == [s \in {4, 8} |-> IF s = 4 THEN 6 ELSE 112]

ThreeKeys(t) ==
  CASE Family(t) = "string" -> {<<>>, <<0>>, <<0, 0>>}
    [] Family(t) = "float"  -> {1, Half(t.size) + 2, Half(t.size) + TheInfinity[t.size]}

\* Three keys for strings and a float type, two for an unsigned and a signed
\* type (on both sides of the sign bit), one elsewhere: the
\* properties of the codec go through all keys of all types.
OrdinaryKeys ==
  [t \in KeyTypes |->
     CASE t.reflect \in {"String", "Float32"} -> ThreeKeys(t)
       [] t.reflect \in {"Uint8", "Int16"} -> {1, Half(t.size)}
       [] OTHER -> {Size(t.size) \div 4}]

\* These keys are what the refinement theorem asks for.
ASSUME OrdinaryKeysToldApart == Keys = OrdinaryKeys => ToldApart

EitherHandle == Permutations(Handles)

\* Both zeros, one positive number.
ZeroKeys ==
  [t \in {u \in KeyTypes : Family(u) = "float"} |-> {0, 1, Half(t.size)}]
=============================================================================
