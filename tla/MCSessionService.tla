-------------------------- MODULE MCSessionService --------------------------
EXTENDS SessionService, TLC

\* Sessions that no request has minted yet, requests and keys are
\* interchangeable; every value of them is a model value.
Symmetry == Permutations(Requests) \cup Permutations(Keys)
=============================================================================
