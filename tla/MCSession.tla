------------------------------ MODULE MCSession ------------------------------
(* Two users of one browser, three calls to Amplify at a time. *)
EXTENDS Session
=============================================================================
