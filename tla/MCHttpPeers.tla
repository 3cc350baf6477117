----------------------------- MODULE MCHttpPeers -----------------------------
\* HttpPeers on small instances.
EXTENDS HttpPeers, TLC

\* Connections and requests are interchangeable: ids are the only numbers.
Symmetry == Permutations(Ctx) \cup Permutations(Req)
=============================================================================
