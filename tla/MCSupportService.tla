--------------------------- MODULE MCSupportService ---------------------------
(* Two tickets, a customer who may post twice, and two reviewers who may   *)
(* decide on the same ticket or on different ones.                         *)
EXTENDS SupportService
=============================================================================
