----------------------------- MODULE MCFileStore -----------------------------
(***************************************************************************)
(* Instance of FileStore for TLC: three mutating calls, so that one can    *)
(* fail, one be acknowledged and one be in flight when the machine stops.  *)
(* Each is issued once, which bounds the behaviours; crashes and power     *)
(* losses may come at any point and as often as they like.                 *)
(***************************************************************************)
EXTENDS FileStore

CONSTANTS c1, c2, c3, none
=============================================================================
