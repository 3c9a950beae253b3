------------------------------ MODULE MCCrawl -------------------------------
(* Small instances of Crawl: two hosts; u1, u2 and u5 on h1, u3 and u4 on h2. *)
EXTENDS Crawl

CONSTANTS u1, u2, u3, u4, u5, h1, h2

MCHostOf == (u1 :> h1) @@ (u2 :> h1) @@ (u3 :> h2) @@ (u4 :> h2) @@ (u5 :> h1)
MCLinks == (u1 :> <<u5, u3>>) @@ (u2 :> <<u5>>) @@ (u3 :> <<u4, u1>>)
           @@ (u4 :> <<>>) @@ (u5 :> <<>>)
MCBody == (u1 :> 1) @@ (u2 :> 1) @@ (u3 :> 3) @@ (u4 :> 4) @@ (u5 :> 5)
MCSeeds == <<u1, u2, u3>>
=============================================================================
