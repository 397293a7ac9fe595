--------------------------- MODULE MCTerminalWindow ---------------------------
(* TerminalWindow for TLC: two pods, and three runs of the effect. *)
EXTENDS TerminalWindow, TLC

=============================================================================
