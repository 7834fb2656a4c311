----------------------------- MODULE MCPageTrap -----------------------------
(* PageTrap: two queues of two pages each, above a trapped device page. *)
EXTENDS PageTrap
=============================================================================
