-------------------------------- MODULE Lines --------------------------------
(***************************************************************************)
(* The structure of a command line: a list of items with the separator       *)
(* before each.  An item is a command, or a construct around a list of its   *)
(* own.  A command has its text, and what it does is given with it, not read *)
(* from the text.                                                          *)
(***************************************************************************)
CONSTANT Commands  \* name -> the command: its text and what it does

\* Constructs: in the shell itself, in a subshell of it, elsewhere, or text.
Inline    == {"if"}
Subshells == {"subshell", "substitution", "quoted substitution", "backticks", "heredoc", "bash -c"}
Elsewhere == {"ssh", "plain ssh", "docker exec"}
Data      == {"quotes", "quoted heredoc"}
Kinds     == Inline \cup Subshells \cup Elsewhere \cup Data

Item(c, sep)            == [kind |-> "command", sep |-> sep, cmd |-> c, body |-> <<>>, into |-> <<>>]
Construct(k, sep, body) == [kind |-> k, sep |-> sep, cmd |-> "", body |-> body, into |-> <<>>]

\* What a redirection may stand behind.
Divertible == {"command", "subshell", "bash -c", "ssh"}
=============================================================================
