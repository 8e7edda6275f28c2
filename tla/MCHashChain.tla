---------------------------- MODULE MCHashChain ----------------------------
(* HashChain for TLC: every setting of the switches, seven kinds of        *)
(* processor, and machines on which one routine at most is unsound.        *)
EXTENDS HashChain

Settings ==
  [kernel : {"", "off", "avx512"}, v3 : BOOLEAN, x4 : {"", "off", "on"},
   x16 : {"", "off", "on"}, stride : {-2, -1, 0, 5, 16}]

Kinds ==
  {{}, {"sse", "avx", "avx2", "bmi2"}, {"sse", "avx", "avx2", "bmi2", "avx512"},
   {"sha_ni", "sse"}, {"sha_ni", "sse", "avx", "avx2", "bmi2"}, {"sse", "avx", "avx2"},
   Features}

OneUnsound == {Routines \ {f} : f \in Routines \ {"stdlib"}} \cup {Routines}
=============================================================================
