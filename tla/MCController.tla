---------------------------- MODULE MCController ----------------------------
(* Controller on three hosts: three commands, and one remote command left      *)
(* behind at a time.                                                        *)
EXTENDS Controller
=============================================================================
