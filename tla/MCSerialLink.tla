---------------------------- MODULE MCSerialLink ----------------------------
(***************************************************************************)
(* One connection, one supervisor and two attempts per reconnect task.  In *)
(* the main run the device leaves twice and a call of the reconnect tool   *)
(* runs next to the task; the run of the close has two tasks instead, so   *)
(* that one can be spawned while a disowned one is still in its attempt.   *)
(***************************************************************************)
EXTENDS SerialLink

=============================================================================
