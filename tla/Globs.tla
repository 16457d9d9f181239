-------------------------------- MODULE Globs --------------------------------
(***************************************************************************)
(* internal/globmatch: when a pattern of a guard means a path or a command.  *)
(* A pattern is a word with the symbols "*" and "?"; a segment of its own,     *)
(* <<"**">>, stands for any number of segments.  Classes ([a-z]) are left out. *)
(***************************************************************************)
EXTENDS Shell, Paths

\* path.Match: a star stays within a segment.
RECURSIVE Match(_, _)
Match(p, v) ==
  CASE p = <<>> -> v = <<>>
    [] p # <<>> /\ At(p, 1) = "*" ->
         \/ Match(Tail(p), v)
         \/ v # <<>> /\ v[1] # "/" /\ Match(p, Tail(v))
    [] OTHER -> /\ v # <<>> /\ (p[1] = v[1] \/ (p[1] = "?" /\ v[1] # "/"))
                /\ Match(Tail(p), Tail(v))

\* MatchCommand: the slashes of both sides are replaced first.
MatchCommand(pattern, command) ==
  LET flat(w) == [i \in DOMAIN w |-> IF w[i] = "/" THEN "NUL" ELSE w[i]]
  IN  Match(flat(pattern), flat(command))

Segments(w) == IF w = <<>> THEN <<>> ELSE Split(w, "/")

RECURSIVE MatchSegments(_, _)
MatchSegments(pat, name) ==
  IF pat = <<>> THEN name = <<>>
  ELSE IF pat[1] = <<"**">>
       THEN \/ MatchSegments(Tail(pat), name)
            \/ name # <<>> /\ MatchSegments(pat, Tail(name))
  ELSE name # <<>> /\ Match(pat[1], name[1]) /\ MatchSegments(Tail(pat), Tail(name))

MatchPath(pattern, name) ==
  MatchSegments(Segments(ExpandHome(pattern)), Segments(ExpandHome(name)))

\* literalPrefix
LiteralPrefix(segs) ==
  LET wild == {i \in DOMAIN segs : Range(segs[i]) \cap {"*", "**", "?"} # {}}
  IN  IF wild = {} THEN segs ELSE SubSeq(segs, 1, (CHOOSE i \in wild : \A j \in wild : i <= j) - 1)

\* IsAncestor: the pattern lies below the path; a wildcard may be in it.
CleanSegments(w) == IF w = <<>> THEN <<>> ELSE Segments(Clean(ExpandHome(w)))

LiesBelow(segs, pat) ==
  LET lit == LiteralPrefix(pat)
  IN  /\ segs # <<>> /\ IsPrefix(segs, lit)
      /\ Len(segs) < Len(lit) \/ lit # pat

IsAncestor(path, pattern) == LiesBelow(CleanSegments(path), CleanSegments(pattern))
=============================================================================
