--------------------------- MODULE MCAuthSessions ---------------------------
(***************************************************************************)
(* Instances of AuthSessions for TLC.                                      *)
(***************************************************************************)
EXTENDS AuthSessionsProperties, TLC

CONSTANTS r1, r2, r3, ana, bob, s1, s2, s3

\* The slots and the session ids are interchangeable.
Interchangeable == Permutations(Requests) \cup Permutations(SessionId)

=============================================================================
