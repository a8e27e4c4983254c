--------------------------- MODULE MCCommentOutbox ---------------------------
(***************************************************************************)
(* The outbox of one task with two reporters: the service and a worker     *)
(* that was started by hand.                                               *)
(***************************************************************************)
EXTENDS CommentOutbox

CONSTANTS service, worker, failing, passing
TwoReporters == {service, worker}
TwoBodies    == {failing, passing}
=============================================================================
