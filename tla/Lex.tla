--------------------------------- MODULE Lex ---------------------------------
(***************************************************************************)
(* The word splitter of the agent hook (internal/shellintent/lex.go): what   *)
(* a command line looks like to a shell that expands nothing.               *)
(*                                                                         *)
(* A line is a sequence of symbols: the characters that mean something to   *)
(* the shell, each operator as one symbol, and chunks of ordinary text.  A   *)
(* word is what is left of them when its quotes are gone, a backslash stands *)
(* before a single character.                                              *)
(***************************************************************************)
EXTENDS Naturals, Sequences, SequencesExt

Blank     == {" ", "\t", "\r"}
Separator == {"&&", "||", ";", "|", "|&", "&", "(", ")"}
Redirect  == {"<", ">", ">>", ">&", ">|", "<&", "<>", "<<<"}
Digits    == {"0", "1", "2", "3"}

At(s, i) == IF i \in DOMAIN s THEN s[i] ELSE ""
From(s, i) == SubSeq(s, i, Len(s))

\* The first place from i on with one of the symbols; 0 if there is none.
Find(s, i, symbols) ==
  LET at == {j \in i..Len(s) : s[j] \in symbols}
  IN  IF at = {} THEN 0 ELSE CHOOSE j \in at : \A k \in at : j <= k

-----------------------------------------------------------------------------
(* Here-documents                                                          *)

\* heredocDelim, i behind "<<": what was read, and where it ends.
RECURSIVE HeredocDelim(_, _, _)
HeredocDelim(s, i, h) ==
  LET done == [h EXCEPT !.ok = h.delim # <<>>, !.next = i]
  IN  CASE i > Len(s)                      -> done
        [] At(s, i) \in {"'", "\""}        ->
             LET end == Find(s, i + 1, {s[i]})
             IN  IF end = 0 THEN [h EXCEPT !.ok = FALSE]
                 ELSE HeredocDelim(s, end + 1, [h EXCEPT !.delim = @ \o SubSeq(s, i + 1, end - 1),
                                                         !.quoted = TRUE])
        [] At(s, i) = "\\"                 ->
             IF i = Len(s) THEN [h EXCEPT !.ok = FALSE]
             ELSE HeredocDelim(s, i + 2, [h EXCEPT !.delim = Append(@, s[i + 1]), !.quoted = TRUE])
        [] At(s, i) \in Blank              ->
             IF h.delim = <<>> /\ ~h.quoted THEN HeredocDelim(s, i + 1, h) ELSE done
        [] At(s, i) \in Separator \cup Redirect \cup {"\n", "<<", "<<-", "&>", "&>>"} -> done
        [] OTHER -> HeredocDelim(s, i + 1, [h EXCEPT !.delim = Append(@, s[i])])

Heredoc(s, i) ==
  HeredocDelim(s, i + 1, [delim |-> <<>>, strip |-> s[i] = "<<-", quoted |-> FALSE,
                          ok |-> FALSE, next |-> i + 1])

LineEnd(s, i) == LET nl == Find(s, i, {"\n"}) IN IF nl = 0 THEN Len(s) + 1 ELSE nl

Untabbed(line) ==
  LET from == {j \in DOMAIN line : line[j] # "\t"}
  IN  IF from = {} THEN <<>> ELSE From(line, CHOOSE j \in from : \A k \in from : j <= k)

\* heredocBody, which starts at i: the line that closes it, 0 if none does.
Closing(s, i, h) ==
  LET closes(p) == LET line == SubSeq(s, p, LineEnd(s, p) - 1)
                   IN  (IF h.strip THEN Untabbed(line) ELSE line) = h.delim
      at == {p \in i..Len(s) : (p = i \/ s[p - 1] = "\n") /\ closes(p)}
  IN  IF at = {} THEN 0 ELSE CHOOSE p \in at : \A q \in at : p <= q

Past(s, p) == IF LineEnd(s, p) > Len(s) THEN Len(s) + 1 ELSE LineEnd(s, p) + 1

\* The bodies of the documents in pending, from i on; 0 if one has no end.
RECURSIVE SkipBodies(_, _, _)
SkipBodies(s, i, pending) ==
  IF pending = <<>> THEN i
  ELSE LET p == Closing(s, i, Head(pending))
       IN  IF p = 0 THEN 0 ELSE SkipBodies(s, Past(s, p), Tail(pending))

-----------------------------------------------------------------------------
(* Where a substitution ends                                               *)

\* The backtick that closes one opened before i; 0 if there is none.
RECURSIVE MatchBacktick(_, _)
MatchBacktick(s, i) ==
  CASE i > Len(s)  -> 0
    [] At(s, i) = "\\" -> MatchBacktick(s, i + 2)
    [] At(s, i) = "tick"  -> i
    [] OTHER           -> MatchBacktick(s, i + 1)

\* matchParen and skipDouble: the ")" or the quote that closes.
RECURSIVE MatchParen(_, _, _, _), SkipDouble(_, _)
MatchParen(s, j, depth, pending) ==
  LET after(k) == IF k = 0 THEN 0 ELSE MatchParen(s, k + 1, depth, pending)
  IN  CASE j > Len(s) -> 0
        [] At(s, j) \in {"<<", "<<-"} ->
             LET h == Heredoc(s, j)
             IN  IF h.ok THEN MatchParen(s, h.next, depth, Append(pending, h)) ELSE after(j)
        [] At(s, j) = "\n" -> LET k == SkipBodies(s, j + 1, pending)
                              IN  IF k = 0 THEN 0 ELSE MatchParen(s, k, depth, <<>>)
        [] At(s, j) = "\\" -> after(j + 1)
        [] At(s, j) = "'"  -> after(Find(s, j + 1, {"'"}))
        [] At(s, j) = "\"" -> after(SkipDouble(s, j + 1))
        [] At(s, j) = "tick"  -> after(MatchBacktick(s, j + 1))
        [] At(s, j) = "("  -> MatchParen(s, j + 1, depth + 1, pending)
        [] At(s, j) = ")"  -> IF depth = 1 THEN j ELSE MatchParen(s, j + 1, depth - 1, pending)
        [] OTHER           -> after(j)

SkipDouble(s, j) ==
  LET after(k) == IF k = 0 THEN 0 ELSE SkipDouble(s, k + 1)
  IN  CASE j > Len(s) -> 0
        [] At(s, j) = "\\" -> SkipDouble(s, j + 2)
        [] At(s, j) = "\"" -> j
        [] At(s, j) = "$"  -> after(IF At(s, j + 1) = "(" THEN MatchParen(s, j + 2, 1, <<>>) ELSE j)
        [] At(s, j) = "tick"  -> after(MatchBacktick(s, j + 1))
        [] OTHER           -> SkipDouble(s, j + 1)

\* What a backtick holds: backslash, backtick and dollar lose a backslash.
RECURSIVE Unticked(_)
Unticked(t) ==
  IF t = <<>> THEN <<>>
  ELSE IF t[1] = "\\" /\ At(t, 2) \in {"tick", "\\", "$"} THEN <<t[2]>> \o Unticked(From(t, 3))
  ELSE <<t[1]>> \o Unticked(Tail(t))

\* bodySubstitutions: what runs in the body of an unquoted document.
RECURSIVE BodySubstitutions(_, _)
Through(b, j, end) ==
  IF end = 0 THEN <<>>
  ELSE (IF At(b, j) = "(" THEN <<>> ELSE <<SubSeq(b, j, end - 1)>>) \o BodySubstitutions(b, end + 1)

BodySubstitutions(b, j) ==
  CASE j > Len(b) -> <<>>
    [] At(b, j) = "\\" -> BodySubstitutions(b, j + 2)
    [] At(b, j) = "$" /\ At(b, j + 1) = "(" ->
         Through(b, j + 2, MatchParen(b, j + 2, 1, <<>>))
    [] At(b, j) = "tick" ->
         LET end == MatchBacktick(b, j + 1)
         IN  IF end = 0 THEN <<>>
             ELSE <<Unticked(SubSeq(b, j + 1, end - 1))>> \o BodySubstitutions(b, end + 1)
    [] OTHER -> BodySubstitutions(b, j + 1)

-----------------------------------------------------------------------------
(* The lexer: at i, with the tokens so far and the word it is in           *)

Token(kind, text) == [kind |-> kind, text |-> text, quoted |-> FALSE, fd |-> <<>>]

Lexer0 == [i |-> 1, toks |-> <<>>, cur |-> <<>>, inWord |-> FALSE, quoted |-> FALSE,
           pending |-> <<>>, fail |-> ""]

Emit(x, t) == [x EXCEPT !.toks = Append(@, t)]
Flush(x) ==
  IF ~x.inWord THEN x
  ELSE [Emit(x, [Token("word", x.cur) EXCEPT !.quoted = x.quoted])
          EXCEPT !.cur = <<>>, !.inWord = FALSE, !.quoted = FALSE]
Sep(x, sep)    == Emit(Flush(x), Token("sep", <<sep>>))
Go(x, i)       == [x EXCEPT !.i = i]
Text(x, text)  == [x EXCEPT !.cur = @ \o text, !.inWord = TRUE]
Quoted(x)      == [x EXCEPT !.inWord = TRUE, !.quoted = TRUE]
Fail(x, why)   == [x EXCEPT !.fail = why]

\* dollar: $( ) is recorded, arithmetic and everything else is text.
Substituted(s, x, end) ==
  LET i == x.i
      y == IF At(s, i + 2) = "(" THEN x ELSE Emit(x, Token("sub", SubSeq(s, i + 2, end - 1)))
  IN  IF end = 0 THEN Fail(x, "unbalanced $( substitution") ELSE Go(Text(y, SubSeq(s, i, end)), end + 1)

Dollar(s, x) ==
  IF At(s, x.i + 1) # "(" THEN Go(Text(x, <<"$">>), x.i + 1)
  ELSE Substituted(s, x, MatchParen(s, x.i + 2, 1, <<>>))

Backtick(s, x) ==
  LET end == MatchBacktick(s, x.i + 1)
  IN  IF end = 0 THEN Fail(x, "unbalanced backtick")
      ELSE Go(Text(Emit(x, Token("sub", Unticked(SubSeq(s, x.i + 1, end - 1)))),
                   SubSeq(s, x.i, end)), end + 1)

\* doubleQuoted: only the backslash and the substitutions mean anything.
RECURSIVE DoubleQuoted(_, _)
DoubleQuoted(s, x) ==
  LET i == x.i
      c == At(s, i)
      n == At(s, i + 1)
  IN  CASE x.fail # ""       -> x
        [] x.fail = "" /\ i > Len(s) -> Fail(x, "unbalanced double quote")
        [] c = "\""          -> Go(x, i + 1)
        [] c = "\\" /\ i = Len(s) -> DoubleQuoted(s, Go(Text(x, <<c>>), i + 1))
        [] c = "\\" /\ i < Len(s) ->
             DoubleQuoted(s, Go(IF n = "\n" THEN x
                                ELSE Text(x, IF n \in {"$", "tick", "\"", "\\"} THEN <<n>> ELSE <<c, n>>),
                                i + 2))
        [] c = "$"           -> DoubleQuoted(s, Dollar(s, x))
        [] c = "tick"           -> DoubleQuoted(s, Backtick(s, x))
        [] x.fail = "" /\ c \notin {"", "\"", "\\", "$", "tick"} -> DoubleQuoted(s, Go(Text(x, <<c>>), i + 1))

\* redirect: digits just before the operator are a descriptor.
RedirectAt(s, x) ==
  LET i  == x.i
      fd == x.inWord /\ ~x.quoted /\ x.cur # <<>> /\ \A k \in DOMAIN x.cur : x.cur[k] \in Digits
      y  == IF fd THEN [x EXCEPT !.cur = <<>>, !.inWord = FALSE] ELSE Flush(x)
      op == [Token("redir", <<s[i]>>) EXCEPT !.fd = IF fd THEN x.cur ELSE <<>>]
      h  == Heredoc(s, i)
  IN  CASE s[i] \in {"<<", "<<-"} ->
             IF ~h.ok THEN Fail(y, "heredoc without a delimiter")
             ELSE Go([Emit(Emit(y, [op EXCEPT !.text = <<"<<">>]),
                           [Token("word", h.delim) EXCEPT !.quoted = TRUE])
                        EXCEPT !.pending = Append(@, h)], h.next)
        [] s[i] \in {"<", ">"} /\ At(s, i + 1) = "(" -> Fail(y, "process substitution")
        [] OTHER -> Go(Emit(y, op), i + 1)

\* heredocBodies: at a newline, the bodies are skipped, not their substitutions.
Recorded(subs) == [k \in DOMAIN subs |-> Token("sub", subs[k])]

RECURSIVE Bodies(_, _)
Bodies(s, x) ==
  IF x.pending = <<>> THEN Sep(x, "\n")
  ELSE LET h == Head(x.pending)
           p == Closing(s, x.i, h)
           body == SubSeq(s, x.i, p - 1)
       IN  IF p = 0 THEN Fail(x, "unterminated heredoc")
           ELSE Bodies(s, [x EXCEPT !.i = Past(s, p), !.pending = Tail(@),
                             !.toks = @ \o Recorded(IF h.quoted THEN <<>> ELSE BodySubstitutions(body, 1))])

\* One turn of the loop of run.
Turn(s, x) ==
  LET i == x.i
      c == s[i]
  IN  CASE c \in Blank    -> Go(Flush(x), i + 1)
        [] c = "\n"       -> Bodies(s, Go(Flush(x), i + 1))
        [] c = "#"        -> IF x.inWord THEN Go(Text(x, <<c>>), i + 1) ELSE Go(x, LineEnd(s, i))
        [] c = "\\"       -> IF i = Len(s) THEN Go(Text(x, <<c>>), i + 1)
                             ELSE IF s[i + 1] = "\n" THEN Go(x, i + 2)
                             ELSE Go(Quoted(Text(x, <<s[i + 1]>>)), i + 2)
        [] c = "'"        -> LET end == Find(s, i + 1, {"'"})
                             IN  IF end = 0 THEN Fail(x, "unbalanced single quote")
                                 ELSE Go(Quoted(Text(x, SubSeq(s, i + 1, end - 1))), end + 1)
        [] c = "\""       -> DoubleQuoted(s, Go(Quoted(x), i + 1))
        [] c = "tick"        -> Backtick(s, x)
        [] c = "$"        -> Dollar(s, x)
        [] c \in {"&>", "&>>"} -> Go(Emit(Flush(x), Token("redir", <<c>>)), i + 1)
        [] c \in Redirect \cup {"<<", "<<-"} -> RedirectAt(s, x)
        [] c \in Separator -> Go(Sep(x, IF c = "|&" THEN "|" ELSE c), i + 1)
        [] OTHER          -> Go(Text(x, <<c>>), i + 1)

RECURSIVE Run(_, _)
Run(s, x) ==
  IF x.fail # "" THEN x
  ELSE IF x.i <= Len(s) THEN Run(s, Turn(s, x))
  ELSE IF x.pending # <<>> THEN Fail(Flush(x), "unterminated heredoc") ELSE Flush(x)

Tokenize(s) == Run(s, Lexer0)
=============================================================================
