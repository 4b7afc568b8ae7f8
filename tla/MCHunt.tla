------------------------------- MODULE MCHunt -------------------------------
(* Two pools between w and u, one of them a trigger, and ways round through v   *)
(* and x that are one hop longer than allowed when they are combined.           *)
EXTENDS Hunt, TLC

CONSTANTS w, u, v, x, q, p1, p2, p3, p4, p5, p6

MCEndsOf ==
    (q :> <<w, u>>) @@ (p1 :> <<w, u>>) @@ (p2 :> <<u, v>>) @@ (p3 :> <<v, x>>)
    @@ (p4 :> <<w, x>>) @@ (p5 :> <<w, v>>) @@ (p6 :> <<u, x>>)

MCReserves == {<<500, 500>>, <<1000, 2000>>, <<1500, 1000>>}

=============================================================================
