---------------------------- MODULE MCScrollback ----------------------------
(* Instances of Scrollback for TLC. *)
EXTENDS Scrollback

\* A program that shows nothing of its prompt, or the example block in it.
MCPrompts == {<<>>, <<"open", "ready", "text", "close">>}
=============================================================================
