-------------------------- MODULE MCNotifications --------------------------
(* A notice for a tenant with or without a webhook and a notice of another  *)
(* event.                                                                   *)
EXTENDS Notifications

CONSTANTS n1, n2, p1, p2, a1, a2
=============================================================================
