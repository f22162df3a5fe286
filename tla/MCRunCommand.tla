---------------------------- MODULE MCRunCommand ----------------------------
(* One variable, two exit statuses, one press of Ctrl+C. *)
EXTENDS RunCommand
=============================================================================
