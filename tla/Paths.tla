-------------------------------- MODULE Paths --------------------------------
(***************************************************************************)
(* Paths as words: sequences of symbols, "/" and "~" among them.           *)
(***************************************************************************)
EXTENDS Sequences, SequencesExt

CONSTANT Home      \* the user's home directory

Absolute(w) == w # <<>> /\ w[1] = "/"

\* ExpandHome
ExpandHome(w) == IF IsPrefix(<<"~", "/">>, w) THEN Home \o Tail(w) ELSE w

\* Where a word points from dir, for a shell.
Below(dir, w) == IF dir = <<>> \/ w[1] = "/" THEN w
                 ELSE (IF dir = <<"/">> THEN dir ELSE dir \o <<"/">>) \o w
=============================================================================
