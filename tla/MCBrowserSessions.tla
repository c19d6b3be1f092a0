-------------------------- MODULE MCBrowserSessions ------------------------
(* Two tabs, one with two requests and one with a third, which may also be  *)
(* the logout button's.                                                     *)
EXTENDS BrowserSessions, TLC

CONSTANTS u1, a, b, r1, r2, r3

MCTabOf == [r \in Requests |-> IF r \in {r1, r2} THEN a ELSE b]

Symmetry == Permutations({r1, r2})
=============================================================================
