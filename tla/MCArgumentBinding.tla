------------------------- MODULE MCArgumentBinding --------------------------
EXTENDS ArgumentBinding

MCParamNames == <<"a", "b", "c">>
=============================================================================
