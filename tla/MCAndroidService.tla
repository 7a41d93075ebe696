-------------------------- MODULE MCAndroidService --------------------------
(* Model-checking instance of AndroidService. *)
EXTENDS AndroidService
=============================================================================
