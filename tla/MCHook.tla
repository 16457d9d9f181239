------------------------------- MODULE MCHook -------------------------------
(* An instance of Hook for TLC: a guarded directory and a guarded host. *)
EXTENDS Hook, Globs, Script

Slash(a) == <<"/", a>>
Deeper(a, b) == <<"/", a, "/", b>>

MCReading(items)      == Parse(Written(items, 1))
MCEffects(items, dir) == Runs(items, Place(Local, dir), 1)
MCUnreadable(items)   == Depth(items) > MaxDepth \/ Names(items, Place(Local, <<>>)) > MaxSpellings + 1

MCLower      == [c \in {"NAS"} |-> "nas"]
MCCanonical6 == [a \in {<<>>} |-> a]
MCHome       == Slash("home")
NAS          == <<"NAS">>
MCSpelled    == [h \in {NAS} |-> {NAS, <<"nas">>}]

C(typed, words, action, paths, targets) ==
  [text |-> Spaced(typed), line |-> typed, words |-> words, action |-> action, paths |-> paths,
   targets |-> targets, benign |-> FALSE, repo |-> FALSE, cd |-> <<>>, forms |-> {},
   sessions |-> {}, plain |-> TRUE]
Word(x) == <<x>>

Erase == LET w == <<Word("rm"), <<"-", "r", "f">>, Word("k")>> IN C(w, w, "delete_file", <<Word("k")>>, <<>>)
Change(to) == LET w == <<Word("cd"), to>>
              IN  [C(w, w, "", <<>>, <<>>) EXCEPT !.benign = TRUE, !.cd = to]
Rename == LET w == <<<<"/", "bin", "/", "mv">>, Word("k"), Deeper("vault", "k")>>
          IN  C(<<Word("sudo"), <<"-", "u">>, Word("root")>> \o w, w, "move_file", <<Word("k")>>, <<Deeper("vault", "k")>>)
Shred  == LET w == <<Word("shred"), <<"-", "n">>, Word("3"), <<"~", "/", "k">>>>
          IN  C(<<Word("env"), <<"A", "=", "1">>>> \o w, w, "delete_file", <<<<"~", "/", "k">>>>, <<>>)
Destroy == LET w == <<Word("terraform"), Word("destroy")>>
           IN  [C(w, w, "run_command", <<>>, <<>>) EXCEPT !.repo = TRUE]
Make   == LET w == <<Word("make"), Word("all")>> IN C(w, w, "", <<>>, <<>>)
Send   == LET w(h) == <<Word("scp"), Word("k"), h \o <<":", "/", "b">>>>
          IN  [C(w(NAS), w(NAS), "run_command", <<>>, <<>>)
                 EXCEPT !.forms = {w(<<"nas">>)},
                        !.sessions = {[host |-> NAS, words |-> <<Word("scp"), <<"-", "t">>, Slash("b")>>]}]

Push   == LET w(h) == <<Word("rsync"), <<"-", "a">>, <<"--", "rsh", "=", "ssh">>, Word("k"), h \o <<":", "/", "b">>>>
          IN  [C(w(NAS), w(NAS), "run_command", <<>>, <<>>)
                 EXCEPT !.forms = {w(<<"nas">>)},
                        !.sessions = {[host |-> NAS, words |->
                           <<Word("rsync"), <<"--", "server">>, Word("."), Slash("b")>>]}]

MCCommands == [c \in {"rm", "cd", "down", "mv", "shred", "destroy", "make", "scp", "rsync"} |->
  CASE c = "rm" -> Erase [] c = "cd" -> Change(Slash("vault")) [] c = "down" -> Change(Word("vault"))
    [] c = "mv" -> Rename [] c = "shred" -> Shred [] c = "destroy" -> Destroy [] c = "make" -> Make
    [] c = "scp" -> Send [] c = "rsync" -> Push]

\* Path patterns begin with a slash.
Patterns == {<<"/", "vault", "/", "**">>, <<"*", "ssh", " ", "nas", "*">>, <<"*", "destroy">>}
MCGlob == {pv \in Seq(STRING) \X Seq(STRING) :
             IF pv[1][1] = "/" THEN MatchPath(pv[1], pv[2]) ELSE MatchCommand(pv[1], pv[2])}
MCBeneath == {pv \in Seq(STRING) \X Seq(STRING) : IsAncestor(pv[1], pv[2])}

Nothing == [d \in Dim |-> {}]
Guard(dim, pattern, e) ==
  [kind |-> "lifeline", match |-> [Nothing EXCEPT ![dim] = {pattern}], proofs |-> {"q"}, facts |-> {},
   enforcement |-> e, maxAge |-> 0, requireVerified |-> FALSE, requireBound |-> FALSE]
Policy(coverage) ==
  [guards |-> [g \in {"vault", "nas", "out"} |->
      CASE g = "vault" -> Guard("paths", <<"/", "vault", "/", "**">>, "block")
        [] g = "nas"   -> Guard("commands", <<"*", "ssh", " ", "nas", "*">>, "block")
        [] g = "out"   -> Guard("paths", <<"/", "w", "/", "out">>, "warn")],
   coverage |-> coverage, proofs |-> <<>>, drills |-> <<>>, facts |-> <<>>]

Event(name, tool, input, command, more) ==
  [name |-> name, tool |-> tool, input |-> input, command |-> command, more |-> more]
K(vendor, event) ==
  [vendor |-> vendor, event |-> event, file |-> <<>>, cwd |-> <<>>, strict |-> FALSE,
   gate |-> TRUE, runtime |-> TRUE, context |-> Policy({})]
Bash   == K("claude", Event("", "Bash", TRUE, FALSE, FALSE))
Edit   == [K("gemini", Event("", "write_file", TRUE, FALSE, FALSE)) EXCEPT !.file = <<"vault", "/", "k">>]
Cursor == K("cursor", Event("beforeShellExecution", "", FALSE, TRUE, FALSE))
MCCalls ==
  {Bash, [Bash EXCEPT !.strict = TRUE], [Cursor EXCEPT !.runtime = FALSE],
   [Bash EXCEPT !.context = Policy({<<"*", "destroy">>}), !.cwd = Slash("vault")],
   [Bash EXCEPT !.cwd = <<"/">>], [Edit EXCEPT !.cwd = <<"/">>], [Edit EXCEPT !.runtime = FALSE],
   [Cursor EXCEPT !.gate = FALSE],
   [Bash EXCEPT !.cwd = <<"w">>], [Bash EXCEPT !.cwd = Slash("gone")],
   [Bash EXCEPT !.event.more = TRUE], [Bash EXCEPT !.event.tool = "Grep"],
   [Cursor EXCEPT !.event.tool = "Bash"], [Cursor EXCEPT !.event.name = "afterFileEdit"],
   [Cursor EXCEPT !.event = Event("beforeMCPExecution", "Write", TRUE, TRUE, FALSE), !.file = <<"~", "/", "k">>]}
MCDirectories == {Slash("w"), Slash("vault"), <<"/">>}
MCHere == Slash("w")
MCRepository == [d \in {Slash("w")} |-> Slash("vault")]
=============================================================================
