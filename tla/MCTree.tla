-------------------------------- MODULE MCTree --------------------------------
(* A chain g-s-a-b-c-d with forks after a (b2-c2-d2) and after the         *)
(* starting point s (z1-z2-z3); transaction 3 is in b and in b2.           *)
EXTENDS TLC

CONSTANTS g, s, a, b, c, d, b2, c2, d2, z1, z2, z3

Tree == (g :> <<g>>) @@ (s :> <<g, s>>) @@ (a :> <<g, s, a>>) @@ (b :> <<g, s, a, b>>)
        @@ (c :> <<g, s, a, b, c>>) @@ (d :> <<g, s, a, b, c, d>>)
        @@ (b2 :> <<g, s, a, b2>>) @@ (c2 :> <<g, s, a, b2, c2>>)
        @@ (d2 :> <<g, s, a, b2, c2, d2>>) @@ (z1 :> <<g, s, z1>>) @@ (z2 :> <<g, s, z1, z2>>)
        @@ (z3 :> <<g, s, z1, z2, z3>>)
Slots == (g :> 1) @@ (s :> 2) @@ (a :> 3) @@ (b :> 4) @@ (c :> 6) @@ (d :> 9) @@ (b2 :> 5) @@ (c2 :> 7)
         @@ (d2 :> 8) @@ (z1 :> 4) @@ (z2 :> 5) @@ (z3 :> 9)
Txs == (g :> <<1>>) @@ (s :> <<>>) @@ (a :> <<2>>) @@ (b :> <<3, 4>>) @@ (c :> <<5>>) @@ (d :> <<6>>)
       @@ (b2 :> <<6, 3>>) @@ (c2 :> <<4>>) @@ (d2 :> <<>>) @@ (z1 :> <<2, 7>>) @@ (z2 :> <<>>)
       @@ (z3 :> <<3>>)
=============================================================================
