-------------------------------- MODULE MCDash --------------------------------
(* Dash on all trees over a few paths whose names begin alike: /1, /10,     *)
(* /1/1, /1/10 and /10/1.                                                   *)
EXTENDS Dash

MCSlash == 0
MCCharacters == {1, 2}   \* '0' and '1'

One == <<2>>
Ten == <<2, 1>>
Universe == {Root, <<One>>, <<Ten>>, <<One, One>>, <<One, Ten>>, <<Ten, One>>}

Trees ==
  {paths \in SUBSET Universe :
     /\ Root \in paths
     /\ \A p \in paths : p # Root => SubSeq(p, 1, Len(p) - 1) \in paths}

\* The first file system's entries all hold the same data, the second's differ.
MCListings ==
  {[fst |-> f, snd |-> g] :
     f \in {[p \in t |-> 1] : t \in Trees},
     g \in UNION {[t -> {1, 2}] : t \in Trees}}
===============================================================================
