------------------------------ MODULE MCHttpApi ------------------------------
\* Instance of HttpApi: one slot, one client, three objects, and a bucket that is
\* forgotten one tick before it is full again.
EXTENDS HttpApi, TLC

\* The least common multiple of 61, 62 and 63.
MCScale == 238266

Symmetry == Permutations(Objects)

=============================================================================
