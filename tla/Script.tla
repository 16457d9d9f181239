------------------------------- MODULE Script -------------------------------
(***************************************************************************)
(* What a shell runs for a line, said of the line's structure: the reference *)
(* for what the agent hook reads out of its text.                           *)
(*                                                                         *)
(* Every command is taken to run and every cd to succeed.                   *)
(***************************************************************************)
EXTENDS Naturals, FiniteSets, Lines, Paths

CONSTANTS Typed,    \* the host of the ssh sessions, as typed
          Spelled   \* host -> the names under which it is guarded

-----------------------------------------------------------------------------
(* The text                                                                *)

Replaced(text, by) ==
  FlattenSeq([i \in DOMAIN text |-> IF text[i] \in DOMAIN by THEN by[text[i]] ELSE <<text[i]>>])

\* Text within single quotes, and within backticks.
Apostrophes(text) ==
  <<"'">> \o Replaced(text, [c \in {"'"} |-> <<"'", "\\", "'", "'">>]) \o <<"'">>
Backticks(text) ==
  <<"tick">> \o Replaced(text, [c \in {"\\", "tick"} |-> <<"\\", c>>]) \o <<"tick">>
\* With a blank: two parentheses would be arithmetic.
Dollars(text) == <<"$", "(", " ">> \o text \o <<")">>

Spaced(words) ==
  FlattenSeq([i \in DOMAIN words |-> IF i = 1 THEN words[i] ELSE <<" ">> \o words[i]])

Delimiters == <<"E1", "E2", "E3", "E4">>

RECURSIVE Written(_, _)
Written(items, level) ==
  LET one(it) ==
        LET body == Written(it.body, level + 1)
            here(open, text) == <<"cat", " ", "<<">> \o open \o <<"\n">> \o text \o <<"\n", Delimiters[level], "\n">>
            text == CASE it.kind = "command"   -> Commands[it.cmd].text
                      [] it.kind = "if"        -> <<"if", " ", "true", ";", "then", " ">> \o body \o <<"\n", "fi">>
                      [] it.kind = "subshell"  -> <<"(">> \o body \o <<")">>
                      [] it.kind = "substitution" -> <<"echo", " ">> \o Dollars(body)
                      [] it.kind = "quoted substitution" -> <<"echo", " ", "\"">> \o Dollars(body) \o <<"\"">>
                      [] it.kind = "backticks" -> <<"echo", " ">> \o Backticks(body)
                      [] it.kind = "heredoc"   -> here(<<Delimiters[level]>>, Dollars(body))
                      [] it.kind = "quoted heredoc" -> here(Apostrophes(<<Delimiters[level]>>), body)
                      [] it.kind = "quotes"    -> <<"echo", " ">> \o Apostrophes(body)
                      [] it.kind = "bash -c"   -> <<"bash", " ", "-", "c", " ">> \o Apostrophes(body)
                      [] it.kind = "ssh"       -> <<"ssh", " ">> \o Typed \o <<" ">> \o Apostrophes(body)
                      [] it.kind = "plain ssh" -> <<"ssh", " ">> \o Typed \o <<" ">> \o body
                      [] it.kind = "docker exec" ->
                           Spaced(<<<<"docker">>, <<"exec">>, <<"box">>, <<"sh">>, <<"-", "c">>>>)
                             \o <<" ">> \o Apostrophes(body)
        IN  text \o (IF it.into = <<>> THEN <<>> ELSE <<" ", ">", " ">> \o it.into)
      joint(i) == IF i = 1 \/ items[IF i = 1 THEN 1 ELSE i - 1].kind \in {"heredoc", "quoted heredoc"}
                  THEN <<>> ELSE <<items[i].sep>>
  IN  FlattenSeq([i \in DOMAIN items |-> joint(i) \o one(items[i])])

-----------------------------------------------------------------------------
(* What runs                                                               *)

\* Where: every name of the place with the words that lead there (none: here),
\* and the directory.
Place(names, dir) == [names |-> names, dir |-> dir]
Local == {[remote |-> <<>>, prefix |-> <<>>]}

Into(k, p) ==
  LET lead(n, host, words) == [remote |-> IF n.remote = <<>> THEN host ELSE n.remote,
                               prefix |-> n.prefix \o words]
  IN  CASE k \in {"ssh", "plain ssh"} ->
             Place({lead(n, h, <<<<"ssh">>, h>>) : n \in p.names, h \in Spelled[Typed]}, <<>>)
        [] k = "docker exec" ->
             Place({lead(n, <<"box">>, <<<<"docker">>, <<"exec">>, <<"box">>>>) : n \in p.names}, <<>>)
        [] OTHER -> p

Operation(action, paths, targets, command) ==
  [action |-> action, paths |-> paths, targets |-> targets, command |-> command,
   remote |-> <<>>, dir |-> <<>>, benign |-> FALSE, repo |-> FALSE]

There(p, words) ==
  {[Operation("run_command", <<>>, <<>>, Spaced(n.prefix \o words)) EXCEPT !.remote = n.remote] : n \in p.names}

\* A command that changes nothing here has no text.
Harmless(dir) == [Operation("", <<>>, <<>>, <<>>) EXCEPT !.dir = dir, !.benign = TRUE]

Does(c, p) ==
  IF p.names # Local THEN There(p, c.words)
  ELSE {[Operation(c.action, c.paths, c.targets, IF c.action = "" THEN <<>> ELSE Spaced(w))
           EXCEPT !.dir = p.dir, !.benign = c.benign, !.repo = c.repo] : w \in {c.words} \cup c.forms}
       \cup UNION {There(Place({[remote |-> h, prefix |-> <<<<"ssh">>, h>>] : h \in Spelled[s.host]}, <<>>),
                         s.words) : s \in c.sessions}

\* The command that a construct itself is.
ItselfAround(it, body) ==
  CASE it.kind \in {"substitution", "quoted substitution"} -> <<<<"echo">>, Dollars(body)>>
    [] it.kind = "backticks" -> <<<<"echo">>, Backticks(body)>>
    [] it.kind = "quotes"    -> <<<<"echo">>, body>>
    [] it.kind \in {"heredoc", "quoted heredoc"} -> <<<<"cat">>>>
    [] it.kind = "if"        -> <<<<"true">>>>
    [] OTHER                 -> <<>>

Itself(it, level) == ItselfAround(it, Written(it.body, level + 1))

\* What a redirection is part of, as typed.
LeadAround(it, body) ==
  CASE it.kind = "command" -> Commands[it.cmd].line
    [] it.kind = "bash -c" -> <<<<"bash">>, <<"-", "c">>, body>>
    [] it.kind = "ssh"     -> <<<<"ssh">>, Typed, body>>
    [] OTHER               -> <<>>

Lead(it, level) == LeadAround(it, Written(it.body, level + 1))

Diverted(it, p, level) ==
  LET to == <<<<">">>, it.into>>
  IN  IF it.into = <<>> THEN {}
      ELSE IF p.names # Local THEN There(p, to)
      ELSE {[Operation("modify_file", <<it.into>>, <<>>, Spaced(Lead(it, level) \o to)) EXCEPT !.dir = p.dir]}

\* A list of commands ends at "&", ";" or a newline; what runs before "&" runs in
\* a subshell, and so does each part of a pipe.
Ends == {"&", ";", "\n"}
Piped(items, i) == \/ i > 1 /\ items[i].sep = "|"
                   \/ i < Len(items) /\ items[i + 1].sep = "|"

\* The directory that every item starts in, and the one behind the last.
RECURSIVE Dirs(_, _)
Dirs(items, p) ==
  LET moved(it, dir) ==
        IF it.kind = "if" THEN LET d == Dirs(it.body, Place(p.names, dir)) IN d[Len(d)]
        ELSE IF it.kind = "command" /\ p.names = Local /\ Commands[it.cmd].cd # <<>>
             THEN Below(dir, Commands[it.cmd].cd)
        ELSE dir
      step(s, i) ==
        LET it    == items[i]
            start == IF i > 1 /\ it.sep = "&" THEN s.base ELSE s.dir
        IN  [base |-> IF i > 1 /\ it.sep \in Ends THEN start ELSE s.base,
             dir  |-> IF Piped(items, i) THEN start ELSE moved(it, start),
             at   |-> Append(s.at, start)]
      end == FoldLeft(step, [base |-> p.dir, dir |-> p.dir, at |-> <<>>], [i \in DOMAIN items |-> i])
  IN  Append(end.at, end.dir)

\* All that a list runs.
Alone(own, p) == IF own = <<>> THEN {} ELSE IF p.names # Local THEN There(p, own) ELSE {Harmless(p.dir)}

RECURSIVE Runs(_, _, _)
RunsAt(it, p, level) ==
  (IF it.kind = "command" THEN Does(Commands[it.cmd], p) ELSE Alone(Itself(it, level), p))
  \cup Diverted(it, p, level)
  \cup (IF it.kind \in Data \cup {"command"} THEN {} ELSE Runs(it.body, Into(it.kind, p), level + 1))

RunsFrom(items, dirs, names, level) ==
  UNION {RunsAt(items[i], Place(names, dirs[i]), level) : i \in DOMAIN items}

Runs(items, p, level) == RunsFrom(items, Dirs(items, p), p.names, level)

\* How deep a shell has to read within its own text.
RECURSIVE Depth(_)
Depth(items) ==
  LET of(it) == IF it.kind \in Data \cup {"command"} THEN 0
                ELSE Depth(it.body) + (IF it.kind \in {"if", "subshell", "plain ssh"} THEN 0 ELSE 1)
      all == {0} \cup {of(items[i]) : i \in DOMAIN items}
  IN  CHOOSE m \in all : \A n \in all : n <= m

\* The names under which the innermost command is looked up.
RECURSIVE Names(_, _)
Names(items, p) ==
  LET of(it) == IF it.kind \in Data \cup {"command"} THEN Cardinality(p.names)
                ELSE Names(it.body, Into(it.kind, p))
      all == {1} \cup {of(items[i]) : i \in DOMAIN items}
  IN  CHOOSE m \in all : \A n \in all : n <= m

\* Where a later directory depends on what an earlier command returned, or on
\* a list in the background or in a pipe as a whole, it is not followed.
RECURSIVE Astray(_)
Astray(items) ==
  LET d(i) == LET t == Dirs(SubSeq(items, 1, i), Place(Local, <<>>)) IN t[i + 1] # t[i]
      together(i, j) == \A k \in (i + 1)..j : items[k].sep \notin Ends
  IN  \/ \E i, j \in DOMAIN items :
           /\ i < j /\ d(i) /\ together(i, j)
           /\ \/ items[j].sep = "||"
              \/ j < Len(items) /\ items[j + 1].sep = "&"
      \/ \E i \in DOMAIN items :
           /\ items[i].kind = "if"
           /\ Dirs(items[i].body, Place(Local, <<>>))[Len(items[i].body) + 1] # <<>>
           /\ Piped(items, i) \/ (i < Len(items) /\ items[i + 1].sep = "&")
      \/ \E i \in DOMAIN items : items[i].kind \notin Data /\ Astray(items[i].body)
=============================================================================
