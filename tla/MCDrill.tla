------------------------------- MODULE MCDrill ------------------------------
(* Instances of Drill for TLC. *)
EXTENDS Drill

MCCommands == {"c1", "c2"}

Artifact(form, count, stamp) ==
  [form |-> form, sound |-> TRUE, count |-> count, stamp |-> stamp, tops |-> {},
   looks |-> {}, keys |-> {}]
Tops(hidden, empty) == {[name |-> k, hidden |-> k \in hidden, empty |-> k \in empty] : k \in 1 .. 4}
\* A kit with an OpenPGP key and both halves of two ssh keys.
Key(scheme, print, half) == [scheme |-> scheme, print |-> print, half |-> half]
Keys(looks) ==
  [Artifact("tree", 5, 1) EXCEPT
     !.looks = looks,
     !.keys = {Key("ssh", p, h) : p \in {"k1", "k2"}, h \in {"public", "private"}} \cup {Key("gpg", "k3", "public")}]

Live == {
  Artifact("db", 11, 1), Artifact("db", 3, NoTime), Artifact("repo", 47, 1), Artifact("repo", 0, NoTime),
  Keys({"ssh"}), Keys({"ssh", "gpg"}), [Keys({"ssh"}) EXCEPT !.keys = {}],
  [Artifact("tree", 250, 1) EXCEPT !.tops = Tops({2}, {})],
  [Artifact("tree", 3, 1) EXCEPT !.tops = Tops({}, {4})],
  Artifact("file", 1, 1)}

Sqlite(integrity, fresh, tables) ==
  [type |-> "sqlite", integrity |-> integrity, fresh |-> fresh, tables |-> tables]
Shell == [type |-> "command"]
Serve == [type |-> "serve"]
Git == [type |-> "git", refs |-> {}]
Fingerprints(scheme, from, expect, least) ==
  [type |-> "key_fingerprint", keys |-> scheme, expectFrom |-> from, expect |-> expect, minKeys |-> least]
Tree == [type |-> "file_tree", files |-> {}, must |-> {}]
Bad == [op |-> ">=", n |-> 4, of |-> "bad"]
Declared(checks, rto, rpo) == [checks |-> checks, rto |-> rto, rpo |-> rpo]

No == [mode |-> "none", key |-> "none"]
Full(key) == [mode |-> "drill", key |-> key]
PinOnly == [mode |-> "pin", key |-> "none"]

Case(d, from, to, taught, c1, c2, limits, cancels) ==
  [drill |-> d, live |-> from, source |-> to, runs |-> taught, cmds |-> [c1 |-> c1, c2 |-> c2],
   tools |-> {"ssh", "gpg"},
   ticks |-> limits[1], changes |-> limits[2], cancels |-> cancels, calibrates |-> c1.mode = "none"]

Run(rto, ages) == [mode |-> "drill", verified |-> TRUE, rto |-> rto, rpo |-> {[rank |-> 0, age |-> a] : a \in ages}]
Failed(r) == [r EXCEPT !.verified = FALSE]

File == Artifact("file", 1, 1)
Db == Artifact("db", 11, 1)

MCCases ==
  \* a draft of every kind of artifact, run on its backup
  {Case(Propose(a), a, a, <<>>, Full("good"), No, <<2, 1>>, TRUE) : a \in Live}
  \* declared checks and budgets that may not be met, or cannot be measured
  \cup {Case(Declared(checks, 100000, 200000), a, a, <<>>, Full("none"), No, <<4, 1>>, TRUE) :
          a \in {Db, Artifact("repo", 2, NoTime), Artifact("repo", 2, 1)},
          checks \in {<<Sqlite(TRUE, TRUE, {}), Shell>>, <<Sqlite(TRUE, FALSE, DefaultTableFloor), Serve>>,
                      <<Sqlite(FALSE, TRUE, {Bad})>>, <<Shell>>, <<Git, Tree>>, <<Shell, Git>>}}
  \* keys by fingerprint, where one program may be missing
  \cup {[Case(Declared(checks, 0, 0), Keys({"ssh"}), a, <<>>, Full("none"), No, <<1, 1>>, FALSE)
           EXCEPT !.tools = tools] :
          a \in {Keys({"ssh"}), [Keys({"ssh"}) EXCEPT !.keys = {Key("ssh", "k1", "public")}]},
          checks \in {<<Fingerprints("ssh", TRUE, {}, 1)>>, <<Fingerprints("ssh", FALSE, {"k1"}, 2)>>,
                      <<Fingerprints("ssh", TRUE, {}, 3)>>, <<Fingerprints("gpg", FALSE, {"k3"}, 0), Tree>>},
          tools \in {{"ssh"}, {"ssh", "gpg"}}}
  \* two drills of one proof, or a drill and a pin check, overlap
  \cup {Case(Propose(File), File, File, <<>>, Full("good"), c2, <<3, 2>>, FALSE) :
          c2 \in {Full("good"), Full("bad"), PinOnly}}
  \* earlier runs teach the budgets
  \cup {Case(Declared(<<Sqlite(TRUE, TRUE, {})>>, 0, 0), Db, Db, taught, No, No, <<1, 0>>, FALSE) :
          taught \in {<<Run(900, {}), Run(1100, {}), Run(29999, {3600000})>>,
                    <<Run(74000, {1}), Failed(Run(9000000, {})), Run(75000, {86400000}), Run(60001, {7200000})>>,
                    <<Run(82000, {43200000}), Run(1, {43200001}), Run(5, {0})>>,
                    <<Run(1, {}), Run(2, {})>>}}
=============================================================================
