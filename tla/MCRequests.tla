----------------------------- MODULE MCRequests ----------------------------
(* A web form and a program with the tenant's first API key, two calls at a *)
(* time, and an administrator.                                              *)
EXTENDS Requests, TLC

CONSTANTS form, program, root, c1, c2

MCKeyOf == [p \in Clients |-> 1]

Symmetry == Permutations(Calls)
=============================================================================
