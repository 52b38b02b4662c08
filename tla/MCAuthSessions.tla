--------------------------- MODULE MCAuthSessions ---------------------------
(* Instances of AuthSessions for TLC. *)
EXTENDS AuthSessions, TLC

CONSTANTS laptop, phone, s1, s2, p, q

MCBrowser == {laptop, phone}
MCSession == {s1, s2}
MCRequest == {p, q}
MCRotates == {"spotify"}
MCGrant == [spotify |-> 3, ytmusic |-> 1]

MCSymmetry == Permutations(MCBrowser) \cup Permutations(MCSession) \cup Permutations(MCRequest)

=============================================================================
