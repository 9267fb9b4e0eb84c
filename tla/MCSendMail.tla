------------------------------ MODULE MCSendMail ------------------------------
(* Model values for SendMail.                                              *)
EXTENDS SendMail, TLC

CONSTANTS a1, a2

(* Two addresses: a file can then list one address twice next to another. *)
MCAddrs == {a1, a2}

(* Three lines: a failure can come after some lines and before others.     *)
MCMaxLines == 3

(* A second launch reruns the file after the first one failed.             *)
MCMaxLaunches == 2

(* Addresses are interchangeable: nothing in send_mail.py compares them.   *)
MCSymmetry == Permutations(MCAddrs)
=============================================================================
