---------------------------- MODULE MCHTTPResolver ----------------------------
(* Small instances of HTTPResolver.  Documents of write key k1 tell every   *)
(* check of decodeRuntimeSource and every use of an ETag apart; k2 with its *)
(* document docZ, tagged like docA, serves the questions about two keys.    *)
EXTENDS HTTPResolver, TLC

CONSTANTS k1, k2, docA, docB, docZ, untagged, off, invalid, ea, eb, c1, c2

MCKeyOf   == [d \in Docs |-> IF d = docZ THEN k2 ELSE k1]
MCValid   == Docs \ {invalid}
MCEnabled == Docs \ {off}
MCETagOf  ==
    [k \in Keys |-> [d \in Docs |->
        CASE <<d, k>> \in {<<docA, k1>>, <<docZ, k2>>} -> ea
          [] d = docB -> eb
          [] OTHER -> NoETag]]

Symmetry == Permutations(Calls)
=============================================================================
