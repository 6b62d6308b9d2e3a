---------------------------- MODULE MCAvailability ----------------------------
(* Two items, lists published after one change, two runs of the member.        *)
EXTENDS Availability
=============================================================================
