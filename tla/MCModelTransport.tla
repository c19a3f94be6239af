-------------------------- MODULE MCModelTransport --------------------------
(***************************************************************************)
(* Instance of ModelTransport for TLC.                                     *)
(***************************************************************************)
EXTENDS ModelTransport

\* Two threads, so that a lease can be given back while another one runs.
TwoThreads == {"w1", "w2"}

=============================================================================
