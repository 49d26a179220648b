--------------------------- MODULE MCSemanticCache --------------------------
(* Model-checking instances of SemanticCache.                              *)
EXTENDS SemanticCache, TLC

CONSTANTS i1, i2, t1, t2

OwnText == i1 :> t1 @@ i2 :> t2
\* A question about t1 may be answered with t2; not the other way round.
SomeSimilar == {<<t1, t1>>, <<t1, t2>>}
=============================================================================
