------------------------------ MODULE MCSqlPool ------------------------------
EXTENDS SqlPool, TLC

CONSTANTS h1, h2, h3, f1, f2

\* Two clones in one request, and another request with the same session.
MCHome == (h1 :> f1) @@ (h2 :> f1) @@ (h3 :> f2)
=============================================================================
