--------------------------- MODULE MCAuthSessions ---------------------------
(* Instances of AuthSessions for the model checker. *)
EXTENDS AuthSessions, TLC

\* Requests and sessions are interchangeable.
Symmetry == Permutations(Requests) \cup Permutations(Tokens)

=============================================================================
