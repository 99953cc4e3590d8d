------------------------------- MODULE MCArgs -------------------------------
(***************************************************************************)
(* Lines for Args: a command, and commands with a word after them, of two  *)
(* lengths.  The longest fills the buffer.                                 *)
(***************************************************************************)
EXTENDS Args, TLC

MCLines ==
    { << "c", "\n" >>,
      << "c", " ", "x", "\n" >>,
      << "c", " ", "x", "x", "\n" >> }

AnyTerminal == Permutations(Terms)

=============================================================================
