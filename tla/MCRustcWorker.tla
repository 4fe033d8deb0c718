---------------------------- MODULE MCRustcWorker ------------------------------
(* core, alloc and the program, each cached or behind a worker. *)
EXTENDS RustcWorker

MCItems == {1}
================================================================================
