---------------------------- MODULE MCOnlineQuery ----------------------------
(* Instances of OnlineQuery for TLC: a buffer of two chunks and answers of   *)
(* up to three, so that an answer fits, fills the buffer or is cut off.      *)
EXTENDS OnlineQuery
=============================================================================
