------------------------------ MODULE MCDaemon ------------------------------
(* Instances of Daemon: two jobs, so that the overlap guard has work to do. *)
EXTENDS Daemon

MCJob == {"job1", "job2"}
=============================================================================
