---------------------------- MODULE MCHttpServer ----------------------------
\* HttpServer on small instances.
EXTENDS HttpServer, TLC

\* Connections and requests are interchangeable: ids are the only numbers.
Symmetry == Permutations(Ctx) \cup Permutations(Req)
=============================================================================
