----------------------------- MODULE MCExecution -----------------------------
(***************************************************************************)
(* One run of two checks, with or without isolation and environment.       *)
(***************************************************************************)
EXTENDS Execution

LintAndTest == <<[kind |-> "command", required |-> TRUE],
                 [kind |-> "test", required |-> TRUE]>>
\* One test passed and one was skipped; all were skipped; a link.
SomeReports == {NoReport, [NoReport EXCEPT !.is = "unsafe"],
  [is |-> "sound", cases |-> 2, skipped |-> 1, failed |-> 0],
  [is |-> "sound", cases |-> 1, skipped |-> 1, failed |-> 0]}
=============================================================================
