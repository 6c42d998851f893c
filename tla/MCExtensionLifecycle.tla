------------------------ MODULE MCExtensionLifecycle ------------------------
(* Instances of ExtensionLifecycle for TLC. *)
EXTENDS ExtensionLifecycle

CONSTANTS n1, n2

MCNode == {n1, n2}
=============================================================================
