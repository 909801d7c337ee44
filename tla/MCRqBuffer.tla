------------------------------ MODULE MCRqBuffer ------------------------------
(* The ring on a small instance: one producer, as in the controller, and two *)
(* consumers.                                                                *)
EXTENDS RqBuffer
==============================================================================
