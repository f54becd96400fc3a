------------------------ MODULE MCNotificationStream ------------------------
(***************************************************************************)
(* Instances of NotificationStream for TLC.  Clients are interchangeable.  *)
(***************************************************************************)
EXTENDS NotificationStream, TLC

Symmetry == Permutations(Clients)
=============================================================================
