------------------------------ MODULE MCPolicy ------------------------------
(* Instances of Policy for TLC. *)
EXTENDS Policy, TLC

\* A directory, the guarded file in it, and another file.
MCValue   == {"dir", "key", "other", "delete_file", "modify_file"}
MCGlob    == {<<v, v>> : v \in {"dir", "key", "other"}}
MCBeneath == {<<"dir", "key">>}

None == [d \in Dim |-> {}]
On(paths, action) == [None EXCEPT !.paths = paths, !.actions = {action}]
MCChanges == {{On({"dir"}, "delete_file")}, {On({"key"}, "modify_file")},
              {On({"other"}, "modify_file")}}

\* Evidence of one drill, at its best and as it may have become.
Recipe == [steps |-> 1, deps |-> [None EXCEPT !.paths = {"other"}]]
Drilled == [status |-> "validated", signature |-> "none", expires |-> 3, observed |-> 1,
            verified |-> TRUE, digest |-> Recipe, deps |-> Recipe.deps]
MCProofs == {Drilled, [Drilled EXCEPT !.status = "disputed"],
             [Drilled EXCEPT !.digest = Absent, !.deps = Absent],
             [Drilled EXCEPT !.digest = Absent, !.deps = Absent, !.verified = FALSE]}
World(proofs, facts, drills) == [proofs |-> proofs, facts |-> facts, drills |-> drills]
Q(r) == [q \in {"q"} |-> r]
Fact == [f \in {"f"} |-> 2]
MCWorlds == {World(Q(r), <<>>, Q(Recipe)) : r \in MCProofs} \cup {World(Q(Drilled), Fact, Q(Recipe))}
            \cup {World(<<>>, f, <<>>) : f \in {<<>>, Fact}}

G(kind, paths, actions, proofs, e, age, verified, bound) ==
  [kind |-> kind, match |-> [None EXCEPT !.paths = paths, !.actions = actions], proofs |-> proofs,
   facts |-> {}, enforcement |-> e, maxAge |-> age, requireVerified |-> verified,
   requireBound |-> bound]

L(guards) == [version |-> 2, ids |-> {}, coverage |-> {}, guards |-> guards]
X(g) == [x \in {"x"} |-> g]

\* Guards that differ in the dimensions that "tightens" compares.
Compared == {G("lifeline", p, {}, {"q"}, e, age, FALSE, b) :
               p \in {{"key"}, {"key", "other"}}, e \in Enforcement, age \in 0..2, b \in BOOLEAN}
            \cup {G(k, {"key"}, {}, {}, e, 0, FALSE, FALSE) : k \in Kind, e \in Enforcement}
            \cup {[G("lifeline", {"key"}, {}, {"q"}, "block", 0, FALSE, FALSE) EXCEPT !.facts = {"f"}]}
Weak   == G("lifeline", {"key"}, {}, {"q"}, "warn", 0, FALSE, FALSE)
Strong == [Weak EXCEPT !.enforcement = "block"]
MCLayers == {L(X(g)) : g \in Compared}
            \cup {L([y \in {"y"} |-> g]) : g \in {Weak, Strong}}
            \cup {L([z \in {"x", "y"} |-> g]) : g \in {Weak, Strong}}
            \cup {[L(X(Weak)) EXCEPT !.version = 1], [L(X(Weak)) EXCEPT !.ids = {"q"}],
                  [L(X(Weak)) EXCEPT !.coverage = {"other"}]}

\* Guards that differ in the others too.
AnyLayers == {L(X(G(k, {"key"}, a, q, "block", 0, v, FALSE))) :
                k \in Kind, a \in {{}, {"modify_file"}}, q \in {{}, {"q"}}, v \in BOOLEAN}
=============================================================================
