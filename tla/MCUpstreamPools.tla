-------------------------- MODULE MCUpstreamPools --------------------------
(* Two backends and three targets, two of which share a backend.          *)
EXTENDS UpstreamPools, TLC

CONSTANTS t1, t2, t3, a, b, q1, q2

MCTargets == {t1, t2, t3}

MCURLs == {a, b}

MCURLOf == (t1 :> a) @@ (t2 :> b) @@ (t3 :> a)

MCPools == {[lb |-> "least_conn", targets |-> <<t1, t2>>],
            [lb |-> "least_conn", targets |-> <<t2, t3>>],
            [lb |-> "", targets |-> <<t1>>]}

\* Many reloads with two requests and steady backends, or backends that change.
MCLoads == {[reloads |-> 2, flips |-> 0, requests |-> {q1, q2}, down |-> {}],
            [reloads |-> 1, flips |-> 2, requests |-> {q1}, down |-> {a}]}

=============================================================================
