--------------------------- MODULE MCDomainHealth ---------------------------
(* One domain, one delivery, two invocations at once, three days. *)
EXTENDS DomainHealth
=============================================================================
