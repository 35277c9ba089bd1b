--------------------------- MODULE MCRebindingWatch ---------------------------
(***************************************************************************)
(* RebindingWatch with two hosts, two permitted and two refused            *)
(* addresses, used by one thread or shared by three.                       *)
(***************************************************************************)
EXTENDS RebindingWatch, TLC

CONSTANTS h1, h2, p1, p2, d1, d2, t1, t2, t3

MCHost == {h1, h2}
MCIp == {p1, p2, d1, d2}
MCPermitted == {p1, p2}
MCThread == {t1, t2, t3}

\* Nothing distinguishes the hosts from each other, nor two addresses of one
\* verdict, nor the threads.
Symmetric ==
    UNION {Permutations({h1, h2}), Permutations({p1, p2}), Permutations({d1, d2}),
           Permutations({t1, t2, t3})}
=============================================================================
