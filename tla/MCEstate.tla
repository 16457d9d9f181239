------------------------------ MODULE MCEstate ------------------------------
(* Instances of Estate for TLC. *)
EXTENDS Estate

Scope(env, system) == [NoScope EXCEPT !.environment = env, !.system = system]

Recipe == [name |-> "r", deps |-> "d"]
Edited == [name |-> "s", deps |-> "d"]

Proof ==
  [status |-> Blank, signature |-> "none", verified |-> TRUE, observed |-> 1, expires |-> 22, accepted |-> 0,
   checks |-> {"sqlite"}, epoch |-> 1, digest |-> Absent, deps |-> Absent,
   layer |-> Blank, category |-> Blank, keyword |-> Blank, scope |-> NoScope]

AnyGuard ==
  [kind |-> "guard", enforcement |-> "block", proofs |-> {}, facts |-> {}, requireVerified |-> FALSE,
   requireBound |-> FALSE, maxAge |-> 0, layer |-> Blank, category |-> Blank, scope |-> NoScope,
   match |-> [d \in Dim |-> {}]]

File(guards, order, proofs, drills, scope) ==
  [guards |-> guards, order |-> order, proofs |-> proofs, drills |-> drills, scope |-> scope]

One(r, drills) ==
  File([g1 |-> [AnyGuard EXCEPT !.proofs = {1}, !.layer = "data-apps", !.scope = Scope("prod", Blank)],
        g2 |-> [AnyGuard EXCEPT !.proofs = {1}, !.layer = "cross-cutting"]],
       <<"g2", "g1">>, <<r>>, drills, Scope("dev", "db"))

\* One proof in every condition, with its drill, an edited one or none.
Records ==
  {[Proof EXCEPT !.status = st[1], !.signature = st[2], !.verified = v, !.expires = exp, !.accepted = acc,
                 !.checks = ch, !.epoch = ep, !.digest = b[1], !.deps = b[2]] :
     st \in {<<Blank, "none">>, <<Blank, "bad">>, <<"stale", "none">>, <<"disputed", "none">>, <<"unreachable", "good">>},
     v \in BOOLEAN, exp \in {0, 3, 22}, acc \in {0, 2, 22}, ch \in {Absent, {}, {"sqlite"}}, ep \in {0, 2},
     b \in {<<Absent, Absent>>, <<Recipe, Recipe.deps>>}}

Alone(file, edits, exports) == [files |-> <<file>>, edits |-> edits, led |-> <<>>, exports |-> exports]

Still == Alone(One(Proof, <<Recipe>>), <<>>, 0)

Conditions ==
  {[days |-> {1, 2, 3, 4, 8, 22, 23}, hosts |-> [h1 |-> Alone(One(r, drills), <<>>, 0), h2 |-> Still]] :
     r \in Records, drills \in {<<>>, <<Recipe>>, <<Edited, Recipe>>}}

\* Bundles of a machine whose file is edited, and of one with two files.
Worn == [Proof EXCEPT !.expires = 3, !.accepted = 4, !.verified = FALSE]
Pair == <<File([g1 |-> AnyGuard], <<"g1">>, [q \in {1} |-> Proof], <<>>, Scope("prod", "db")),
          File([g3 |-> AnyGuard], <<"g3">>, [q \in {2} |-> Worn], <<>>, Scope("lab", "web"))>>
Overlaid == <<Pair[1], File([g1 |-> AnyGuard], <<"g1">>, [q \in {2} |-> Worn], <<>>, NoScope)>>

Moving(days, h1, h2) == [days |-> days, hosts |-> [h1 |-> h1, h2 |-> h2]]

Exports ==
  {Moving({2, 4}, Alone(One(Worn, <<Recipe>>), edits, 2), Still) : edits \in {<<>>, << <<One(Proof, <<Recipe>>)>> >>}}
  \cup {Moving({2, 4}, Alone(One(Worn, <<Recipe>>), <<>>, 1),
                [files |-> fs, edits |-> <<>>, led |-> <<>>, exports |-> 1]) : fs \in {Pair, Overlaid}}

MCHosts  == {"h1", "h2"}
MCStarts == Conditions \cup Exports
=============================================================================
