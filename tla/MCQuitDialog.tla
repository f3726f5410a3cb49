---------------------------- MODULE MCQuitDialog ----------------------------
(***************************************************************************)
(* The machine of the runs of QuitDialog: it can be suspended, but neither *)
(* restarted nor stopped by this user.                                     *)
(***************************************************************************)
EXTENDS QuitDialog

SomeAnswers ==
    [restart |-> "no", stop |-> "no", suspend |-> "challenge", hibernate |-> "failed"]
=============================================================================
