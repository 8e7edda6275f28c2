----------------------------- MODULE MCPriceWAL -----------------------------
(* PriceWAL for TLC: posts are interchangeable, and so are symbols, so it  *)
(* is enough that all posts, or all but one, are about the same symbol.    *)
EXTENDS PriceWAL, TLC

Symmetry == Permutations(Posts)

OneApart ==
  LET s == CHOOSE s \in Symbols : TRUE
  IN  {CHOOSE f \in [Posts -> Symbols] : Cardinality({p \in Posts : f[p] # s}) = n :
         n \in 0 .. Cardinality(Symbols) - 1}
=============================================================================
