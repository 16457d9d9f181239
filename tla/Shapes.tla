------------------------------- MODULE Shapes -------------------------------
(***************************************************************************)
(* What one simple command does to the things that a recovery is about       *)
(* (internal/shellintent: shapes.go and the option handling of unwrap.go).    *)
(*                                                                         *)
(* A word is a sequence of symbols: a name, the letters of an option and the *)
(* marks between them are symbols of their own, so that -rf is <<"-", "r",    *)
(* "f">>, --rsh=ssh is <<"--", "rsh", "=", "ssh">>, and host:/x is            *)
(* <<"host", ":", "/", "x">>.  Of the tables of options that take a value     *)
(* those entries are given that tell the tools apart.                       *)
(***************************************************************************)
EXTENDS Lex

Is(w, names) == Len(w) = 1 /\ w[1] \in names
Has(args, words) == \E i \in DOMAIN args : args[i] \in words
Starts(w, prefix) == IsPrefix(prefix, w)

\* The place of the last of the symbols in w; 0 if there is none.
LastOf(w, symbols) ==
  LET at == {j \in DOMAIN w : w[j] \in symbols}
  IN  IF at = {} THEN 0 ELSE CHOOSE j \in at : \A k \in at : k <= j

BaseName(w) == From(w, LastOf(w, {"/"}) + 1)

IsAssignment(w) ==
  /\ Len(w) >= 2 /\ w[2] = "="
  /\ w[1] \notin {"-", "--", "/", ".", "..", "~", "@", ":", "$", "+"} \cup Digits

-----------------------------------------------------------------------------
(* Options                                                                 *)

Short(letters) == {<<"-", l>> : l \in letters}
Long(names)    == {<<"--", n>> : n \in names}

IsOption(a) == a # <<>> /\ (a[1] = "--" \/ (a[1] = "-" /\ Len(a) > 1))
EndOfOptions == <<"--">>

\* takesNext: in a cluster, the first letter that wants a value has it
\* unless nothing is left of the word.
TakesNext(a, valued) ==
  IF a[1] = "--" THEN a \in valued
  ELSE LET wants == {j \in 2..Len(a) : <<"-", a[j]>> \in valued}
       IN  wants # {} /\ \A j \in wants : j = Len(a)

Taken(args, valued) == IF TakesNext(args[1], valued) THEN 3 ELSE 2

RECURSIVE Positionals(_, _)
Positionals(args, valued) ==
  CASE args = <<>> -> <<>>
    [] args # <<>> /\ args[1] = EndOfOptions -> Tail(args)
    [] args # <<>> /\ args[1] # EndOfOptions /\ IsOption(args[1]) ->
         Positionals(From(args, Taken(args, valued)), valued)
    [] OTHER -> <<args[1]>> \o Positionals(Tail(args), valued)

\* skipOptions: up to the first operand, assignments too.
RECURSIVE SkipOptions(_, _)
SkipOptions(args, valued) ==
  IF args = <<>> THEN <<>>
  ELSE IF args[1] = EndOfOptions THEN Tail(args)
  ELSE IF IsAssignment(args[1]) THEN SkipOptions(Tail(args), valued)
  ELSE IF IsOption(args[1]) THEN SkipOptions(From(args, Taken(args, valued)), valued)
  ELSE args

\* Up to the first word that is no option, or to "--".
RECURSIVE SkipFlags(_, _)
SkipFlags(args, valued) ==
  IF args = <<>> \/ args[1] = EndOfOptions \/ ~IsOption(args[1]) THEN args
  ELSE SkipFlags(From(args, Taken(args, valued)), valued)

DropOptions(args, valued) ==
  LET rest == SkipFlags(args, valued)
  IN  IF rest # <<>> /\ rest[1] = EndOfOptions THEN Tail(rest) ELSE rest

\* hasShortFlag
HasLetter(args, letters) ==
  \E i \in DOMAIN args :
    /\ \A j \in 1..i : args[j] # EndOfOptions
    /\ Len(args[i]) > 1 /\ args[i][1] = "-" /\ Range(Tail(args[i])) \cap letters # {}

Valued(tool) ==
  CASE tool = "sudo"     -> Short({"u", "g", "h", "p", "C", "D"}) \cup Long({"user", "group", "chdir"})
    [] tool = "env"      -> Short({"u", "C"}) \cup Long({"unset", "chdir"})
    [] tool = "nice"     -> Short({"n"}) \cup Long({"adjustment"})
    [] tool = "exec"     -> Short({"a"})
    [] tool = "stdbuf"   -> Short({"i", "o", "e"}) \cup Long({"input", "output", "error"})
    [] tool = "timeout"  -> Short({"s", "k"}) \cup Long({"signal", "kill-after"})
    [] tool = "xargs"    -> Short({"I", "n", "P", "L", "E", "d", "s", "a"}) \cup Long({"arg-file", "max-args"})
    [] tool = "ssh"      -> Short({"b", "c", "e", "F", "i", "J", "L", "l", "m", "o", "p", "R", "W"})
    [] tool = "scp"      -> Short({"c", "D", "F", "i", "J", "l", "o", "P", "S", "X"})
    [] tool = "sftp"     -> Short({"B", "b", "c", "D", "F", "i", "J", "l", "o", "P", "R", "S", "s", "X"})
    [] tool = "rsync"    -> Short({"e", "f", "M", "T", "B"})
                            \cup Long({"rsh", "exclude", "files-from", "rsync-path", "remote-option", "port"})
    [] tool = "cp"       -> Short({"S", "m", "o", "g"}) \cup Long({"suffix", "mode", "owner", "group"})
    [] tool = "mv"       -> Short({"S"}) \cup Long({"suffix"})
    [] tool = "shred"    -> Short({"n", "s"}) \cup Long({"iterations", "size"})
    [] tool = "truncate" -> Short({"s", "r"}) \cup Long({"size", "reference"})
    [] tool = "docker"   -> Short({"H", "c", "l", "f", "p"}) \cup Long({"host", "context", "file", "project-name"})
    [] tool = "docker exec" -> Short({"e", "u", "w"}) \cup Long({"env", "user", "workdir"})
    [] tool = "kubectl"  -> Short({"n", "s", "c", "f", "v"}) \cup Long({"namespace", "context", "container"})
    [] tool = "git"      -> Short({"C", "c"}) \cup Long({"git-dir", "work-tree"})
    [] tool = "pulumi"   -> Short({"C", "s"}) \cup Long({"cwd", "stack"})
    [] tool = "helm"     -> Short({"n"}) \cup Long({"namespace", "kube-context"})
    [] tool = "systemctl" -> Short({"H", "M", "t", "p", "s", "n", "o"}) \cup Long({"host", "type", "root"})
    [] tool = "restic"   -> Short({"r", "p", "o"}) \cup Long({"repo", "password-file", "option"})
    [] tool = "borg"     -> Short({"r"}) \cup Long({"repo", "lock-wait"})
    [] tool = "rclone"   -> Long({"config", "transfers", "filter", "timeout"})
    [] tool = "aws"      -> Long({"profile", "region", "endpoint-url", "output"})
    [] tool = "gsutil"   -> Short({"o", "h", "u"})
    [] tool = "gh"       -> Short({"R"}) \cup Long({"repo", "hostname"})
    [] OTHER             -> {}

-----------------------------------------------------------------------------
(* Operands on other hosts                                                 *)

NoEnd == [ok |-> TRUE, remote |-> FALSE, host |-> <<>>, from |-> 1, to |-> 1,
          path |-> <<>>, daemon |-> FALSE]

\* What the parser leaves unexpanded.
Unexpanded == {"$", "tick", "*", "?", "[", "]", "{", "}", "~", " "}

Unbracketed(h) == IF Len(h) > 2 /\ h[1] = "[" /\ h[Len(h)] = "]" THEN SubSeq(h, 2, Len(h) - 1) ELSE h

\* newEnd: the host is operand[from .. to - 1].
End(a, from, to, path, daemon) ==
  LET host == Unbracketed(SubSeq(a, from, to - 1))
  IN  [ok |-> host # <<>> /\ Range(host) \cap Unexpanded = {}, remote |-> TRUE,
       host |-> host, from |-> from, to |-> to, path |-> path, daemon |-> daemon]

IsURI(a, scheme) == Starts(a, <<scheme, ":", "/", "/">>)

\* uriEnd: scheme://[user@]host[:port][/path]
UriHost(a, from, stop, daemon) ==
  LET ends  == {j \in from..(stop - 1) : IF At(a, from) = "[" THEN At(a, j - 1) = "]" ELSE a[j] = ":"}
      open  == At(a, from) = "[" /\ \A j \in from..(stop - 1) : a[j] # "]"
      to    == IF ends = {} THEN stop ELSE CHOOSE j \in ends : \A k \in ends : j <= k
  IN  IF open THEN [NoEnd EXCEPT !.ok = FALSE, !.remote = TRUE]
      ELSE End(a, from, to, From(a, stop + 1), daemon)

UriEnd(a, daemon) ==
  LET slash == Find(a, 5, {"/"})
      stop  == IF slash = 0 THEN Len(a) + 1 ELSE slash
      user  == LastOf(SubSeq(a, 1, stop - 1), {"@"})
  IN  UriHost(a, IF user >= 5 THEN user + 1 ELSE 5, stop, daemon)

\* scpColon: the colon that ends the host; 0 for a local path.
ScpColon(a) ==
  LET slash == Find(a, 1, {"/"})
      bracket(i) == a[1] = "[" \/ \E k \in 1..(i - 1) : a[k] = "@" /\ a[k + 1] = "["
      colons == {i \in 2..Len(a) : /\ a[i] = ":" /\ (slash = 0 \/ i < slash)
                                   /\ bracket(i) => a[i - 1] = "]"}
  IN  IF a = <<>> \/ colons = {} \/ At(a, 1) = ":" THEN 0
      ELSE CHOOSE i \in colons : \A k \in colons : i <= k

HostAt(a, colon) == LastOf(SubSeq(a, 1, colon - 1), {"@"}) + 1

ScpOperand(a) ==
  IF IsURI(a, "scp") THEN UriEnd(a, FALSE)
  ELSE LET colon == ScpColon(a)
       IN  IF colon = 0 THEN NoEnd ELSE End(a, HostAt(a, colon), colon, From(a, colon + 1), FALSE)

\* sftp's one operand is always a host.
SftpDestination(a) ==
  IF IsURI(a, "sftp") THEN UriEnd(a, FALSE)
  ELSE LET at    == ScpColon(a)
           colon == IF at = 0 THEN Len(a) + 1 ELSE at
       IN  End(a, HostAt(a, colon), colon, From(a, colon + 1), FALSE)

\* rsyncColon: a bracket has to begin the host.
RECURSIVE RsyncColon(_, _, _)
RsyncColon(a, i, start) ==
  LET close == Find(a, i, {"]", "/"})
  IN  CASE i > Len(a) \/ At(a, i) = "/" -> 0
        [] At(a, i) = ":" -> i
        [] At(a, i) = "@" -> RsyncColon(a, i + 1, i + 1)
        [] At(a, i) = "[" -> IF i # start \/ close = 0 \/ At(a, close) = "/" THEN 0
                             ELSE RsyncColon(a, close + 1, start)
        [] OTHER          -> RsyncColon(a, i + 1, start)

RsyncOperand(a) ==
  IF IsURI(a, "rsync") THEN UriEnd(a, TRUE)
  ELSE LET colon  == RsyncColon(a, 1, 1)
           daemon == At(a, colon + 1) = ":"
       IN  IF colon = 0 THEN NoEnd
           ELSE End(a, HostAt(a, colon), colon, From(a, colon + IF daemon THEN 2 ELSE 1), daemon)

-----------------------------------------------------------------------------
(* Commands whose operands are files                                       *)

Shape(action, paths, targets) == [action |-> action, paths |-> paths, targets |-> targets]
NoShape == Shape("", <<>>, <<>>)

\* pathsOp: no operand, no operation.
On(action, paths) == IF paths = <<>> THEN NoShape ELSE Shape(action, paths, <<>>)

Dev(n) == <<"/", "dev", "/", n>>
DevSink == {Dev("null"), Dev("stdout"), Dev("stderr"), Dev("tty")}
NoSinks(paths) == SelectSeq(paths, LAMBDA w : w \notin DevSink)

\* targetDir: -t DIR, --target-directory DIR; the last one counts.
RECURSIVE TargetDir(_)
TargetDir(args) ==
  LET rest(i) == TargetDir(From(args, i))
      given(dir, r) == IF r.ok THEN r ELSE [r EXCEPT !.dir = dir, !.ok = TRUE]
  IN  IF args = <<>> \/ args[1] = EndOfOptions THEN [dir |-> <<>>, rest |-> args, ok |-> FALSE]
      ELSE IF args[1] \in {<<"-", "t">>, <<"--", "target-directory">>} /\ Len(args) > 1
           THEN given(args[2], rest(3))
      ELSE IF Starts(args[1], <<"--", "target-directory", "=">>)
           THEN given(From(args[1], 4), rest(2))
      ELSE [rest(2) EXCEPT !.rest = <<args[1]>> \o @]

MoveShape(args) ==
  LET t   == TargetDir(args)
      pos == Positionals(t.rest, Valued("mv"))
  IN  IF t.ok THEN (IF pos = <<>> THEN NoShape ELSE Shape("move_file", pos, <<t.dir>>))
      ELSE IF Len(pos) < 2 THEN NoShape ELSE Shape("move_file", Front(pos), <<pos[Len(pos)]>>)

\* transferShape: what scp and sftp write here.
TransferShape(name, pos) ==
  IF name = "sftp"
  THEN CASE Len(pos) = 1 -> Shape("run_command", <<>>, <<>>)
         [] Len(pos) = 2 -> Shape("modify_file", Tail(pos), <<>>)
         [] OTHER        -> NoShape
  ELSE IF Len(pos) < 2 THEN NoShape
  ELSE IF ScpOperand(pos[Len(pos)]).remote THEN Shape("run_command", <<>>, <<>>)
  ELSE Shape("modify_file", <<pos[Len(pos)]>>, <<>>)

\* cp, install and rsync write their destination.
Copies(name, t, pos) ==
  LET to(dst) == IF Range(dst) \cap {":"} # {} THEN Shape("run_command", <<>>, <<>>)
                 ELSE Shape("modify_file", <<dst>>, <<>>)
  IN  IF t.ok THEN to(t.dir)
      ELSE IF Len(pos) >= 2 THEN to(pos[Len(pos)])
      ELSE IF name = "rsync" /\ Len(pos) = 1 /\ RsyncOperand(pos[1]).remote
           THEN Shape("run_command", <<>>, <<>>)
      ELSE NoShape

CopyShape(name, args) ==
  LET t == IF name = "rsync" THEN [dir |-> <<>>, rest |-> args, ok |-> FALSE] ELSE TargetDir(args)
  IN  IF name = "install" /\ HasLetter(args, {"d"}) THEN NoShape
      ELSE Copies(name, t, Positionals(t.rest, Valued(IF name = "rsync" THEN name ELSE "cp")))

\* chmod's -x is a mode, no option.
IsMode(a) == /\ Len(a) >= 2 /\ a[1] \in {"-", "+"}
             /\ Range(Tail(a)) \subseteq {"r", "w", "x", "X", "s", "t", "u", "g", "o"}

OwnershipShape(name, args) ==
  LET reference == \E i \in DOMAIN args : Starts(args[i], <<"--", "reference">>)
      modes == {i \in DOMAIN args : IsMode(args[i])}
      mode  == IF name = "chmod" /\ ~reference /\ modes # {}
               THEN CHOOSE i \in modes : \A j \in modes : i <= j ELSE 0
      pos   == Positionals(IF mode = 0 THEN args ELSE RemoveAt(args, mode), Long({"reference"}))
  IN  On("modify_file", IF reference \/ mode # 0 \/ pos = <<>> THEN pos ELSE Tail(pos))

Deleters == {"rm", "shred", "unlink", "rmdir"}

\* find: global options, roots, then the expression.
RECURSIVE FindShape(_, _)
FindShape(args, roots) ==
  LET a == args[1]
      destroys == \E j \in DOMAIN args :
                    \/ args[j] = <<"-", "delete">>
                    \/ /\ args[j] \in Short({"exec", "execdir", "ok", "okdir"}) /\ j < Len(args)
                       /\ Is(BaseName(args[j + 1]), Deleters)
  IN  IF args # <<>> /\ roots = <<>> /\ a \in Short({"H", "L", "P"}) THEN FindShape(Tail(args), roots)
      ELSE IF args # <<>> /\ a[1] # "-" /\ ~Is(a, {"(", "!"}) THEN FindShape(Tail(args), Append(roots, a))
      ELSE IF ~destroys THEN NoShape
      ELSE Shape("delete_file", IF roots = <<>> THEN <<<<".">>>> ELSE roots, <<>>)

\* dd writes what the last of= names.
DdShape(args) ==
  LET of == {i \in DOMAIN args : /\ Starts(args[i], <<"of", "=">>) /\ Len(args[i]) > 2
                                 /\ From(args[i], 3) \notin DevSink}
  IN  IF of = {} THEN NoShape
      ELSE Shape("modify_file", <<From(args[CHOOSE i \in of : \A j \in of : j <= i], 3)>>, <<>>)

FileShape(name, args) ==
  CASE name \in {"rm", "unlink", "rmdir"}        -> On("delete_file", Positionals(args, {}))
    [] name = "shred"                            -> On("delete_file", Positionals(args, Valued("shred")))
    [] name = "find"                             -> FindShape(args, <<>>)
    [] name = "mv"                               -> MoveShape(args)
    [] name = "truncate"                         -> On("modify_file", Positionals(args, Valued("truncate")))
    [] name = "dd"                               -> DdShape(args)
    [] name = "tee"                              -> On("modify_file", NoSinks(Positionals(args, {})))
    [] name \in {"cp", "install", "rsync"}       -> CopyShape(name, args)
    [] name \in {"scp", "sftp"}                  -> TransferShape(name, Positionals(args, Valued(name)))
    [] name \in {"chmod", "chown", "chgrp"}      -> OwnershipShape(name, args)
    [] OTHER                                     -> NoShape

-----------------------------------------------------------------------------
(* Commands that destroy without naming a file                             *)

FirstIs(pos, i, names) == i <= Len(pos) /\ Is(pos[i], names)

\* The verb may be one place further on.
EarlyIs(pos, names) == FirstIs(pos, 1, names) \/ FirstIs(pos, 2, names)

\* gitSubcommand: the words from the subcommand on.
RECURSIVE GitSubcommand(_)
GitSubcommand(args) ==
  IF args = <<>> THEN <<>>
  ELSE IF args[1] # <<>> /\ args[1][1] \in {"-", "--"}
       THEN GitSubcommand(From(args, IF args[1] \in Valued("git") THEN 3 ELSE 2))
  ELSE args

GitDestructive(git) ==
  LET rest == Tail(git)
      sub  == git[1][1]
  IN  /\ git # <<>> /\ Len(git[1]) = 1
      /\ CASE sub = "push"   -> \/ \E i \in DOMAIN rest :
                                     \/ rest[i] \in Long({"force", "force-if-includes"})
                                     \/ Starts(rest[i], <<"--", "force-with-lease">>)
                                     \/ (Len(rest[i]) > 1 /\ rest[i][1] = "+")
                                \/ HasLetter(rest, {"f"})
           [] sub = "branch" -> \/ HasLetter(rest, {"D"})
                                \/ /\ (Has(rest, Long({"delete"})) \/ HasLetter(rest, {"d"}))
                                   /\ (Has(rest, Long({"force"})) \/ HasLetter(rest, {"f"}))
           [] sub = "reset"  -> Has(rest, Long({"hard"}))
           [] sub = "clean"  -> /\ ~(Has(rest, Long({"dry-run"})) \/ HasLetter(rest, {"n"}))
                                /\ (Has(rest, Long({"force"})) \/ HasLetter(rest, {"f", "x", "d", "X"}))
           [] sub = "stash"  -> FirstIs(Positionals(rest, {}), 1, {"drop", "clear"})
           [] sub \in {"checkout", "restore"} -> Has(rest, {<<".">>})
           [] OTHER          -> FALSE

GitReadOnly(git) ==
  LET rest == Tail(git)
      sub  == git[1][1]
  IN  /\ git # <<>> /\ Len(git[1]) = 1
      /\ CASE sub \in {"status", "log", "diff", "show", "rev-parse", "fetch", "ls-files", "grep",
                       "blame", "describe"} -> TRUE
           [] sub = "branch" -> ~HasLetter(rest, {"d", "D"}) /\ ~Has(rest, Long({"delete"}))
           [] sub = "tag"    -> ~HasLetter(rest, {"d"}) /\ ~Has(rest, Long({"delete"}))
           [] sub = "remote" -> Range(rest) \subseteq {<<"-", "v">>, <<"--", "verbose">>}
           [] sub = "stash"  -> FirstIs(Positionals(rest, {}), 1, {"list"})
           [] OTHER          -> FALSE

SqlDestructive(w) ==
  \/ Range(w) \cap {"drop", "truncate"} # {}
  \/ \E i \in DOMAIN w : Starts(From(w, i), <<"delete", " ", "from">>)

\* sqlHasDestructive: what -c, -e, --command and --execute carry; sqlite3 takes
\* statements as operands behind the file.
SqlHasDestructive(name, args) ==
  LET carried == Short({"c", "e", "cmd"}) \cup Long({"command", "execute"})
      after(p) == {From(args[i], Len(p) + 1) : i \in {j \in DOMAIN args : Starts(args[j], p)}}
      pos == Positionals(args, {})
  IN  \/ \E i \in 2..Len(args) : args[i - 1] \in carried /\ SqlDestructive(args[i])
      \/ \E p \in {<<"-", "c">>, <<"-", "e">>, <<"--", "command", "=">>, <<"--", "execute", "=">>} :
           \E w \in after(p) : SqlDestructive(w)
      \/ name = "sqlite3" /\ \E i \in 2..Len(pos) : SqlDestructive(pos[i])

ContainerDestructive(name, args) ==
  LET pos   == Positionals(args, Valued("docker"))
      on(a, names) == FirstIs(pos, 1, {a}) /\ FirstIs(pos, 2, names)
  IN  IF name = "docker-compose" THEN FirstIs(pos, 1, {"down"})
      ELSE \/ FirstIs(pos, 1, {"rm"}) \/ on("container", {"rm", "remove", "prune"})
           \/ on("volume", {"rm", "remove", "prune"}) \/ on("system", {"prune"})
           \/ on("compose", {"down"}) \/ on("stack", {"rm", "remove", "down"})

\* unwrapPrefix: the words behind a transparent prefix; the same words if
\* there is none.
BehindPrefix(name, args) ==
  CASE Is(name, {"sudo", "doas"}) -> SkipOptions(args, Valued("sudo"))
    [] Is(name, {"env", "nice", "exec", "stdbuf"}) -> SkipOptions(args, Valued(name[1]))
    [] Is(name, {"nohup", "time", "builtin"}) -> SkipOptions(args, {})
    [] Is(name, {"command"}) ->
         IF args # <<>> /\ args[1] \in Short({"v", "V"}) THEN <<>> ELSE SkipOptions(args, {})
    [] Is(name, {"timeout"}) -> From(SkipOptions(args, Valued("timeout")), 2)
    [] OTHER -> <<>>

\* From the first word of rest that is a command; <<>> if there is none.
FromCommand(rest) ==
  LET run == {i \in DOMAIN rest : ~IsAssignment(rest[i])}
  IN  IF run = {} THEN <<>> ELSE From(rest, CHOOSE i \in run : \A j \in run : i <= j)

RECURSIVE Unwrap(_)
Unwrap(words) ==
  LET inner == IF words = <<>> THEN <<>> ELSE FromCommand(BehindPrefix(BaseName(words[1]), Tail(words)))
  IN  IF inner = <<>> THEN words ELSE Unwrap(inner)

Removes(run) == run # <<>> /\ Is(BaseName(run[1]), Deleters)

\* pos: the operands.
Destroys(name, args, pos) ==
      CASE name = "git"                        -> GitDestructive(GitSubcommand(args))
        [] name \in {"terraform", "tofu"}      ->
             \/ FirstIs(pos, 1, {"destroy"})
             \/ FirstIs(pos, 1, {"apply"}) /\ Has(args, {<<"-", "destroy">>, <<"--", "destroy">>})
        [] name \in {"pulumi", "zfs", "zpool"} -> FirstIs(pos, 1, {"destroy"})
        [] name \in {"dropdb", "lvremove", "vgremove", "wipefs", "mkfs"} -> TRUE
        [] name \in {"psql", "mysql", "mariadb", "sqlite3"} -> SqlHasDestructive(name, args)
        [] name = "redis-cli"                  -> \E i \in DOMAIN args : Is(args[i], {"flushall", "flushdb"})
        [] name \in {"docker", "podman", "docker-compose"} -> ContainerDestructive(name, args)
        [] name = "kubectl"                    -> FirstIs(pos, 1, {"delete"})
        [] name = "helm"                       -> FirstIs(pos, 1, {"uninstall", "delete", "un"})
        [] name = "systemctl"                  -> FirstIs(pos, 1, {"disable", "mask"})
        [] name = "btrfs"                      -> FirstIs(pos, 1, {"subvolume"}) /\ FirstIs(pos, 2, {"delete", "del"})
        [] name = "sgdisk"                     -> \/ \E i \in DOMAIN args : Starts(args[i], <<"--", "zap">>)
                                                  \/ HasLetter(args, {"z", "Z"})
        [] name = "parted"                     -> \E i \in DOMAIN args : Is(args[i], {"rm", "mklabel", "mktable"})
        [] name = "restic"                     -> EarlyIs(pos, {"forget", "prune"})
        [] name = "borg"                       -> EarlyIs(pos, {"prune", "delete", "compact"})
        [] name = "rclone"                     -> EarlyIs(pos, {"delete", "purge", "sync", "move"})
        [] name = "aws"                        ->
             /\ FirstIs(pos, 1, {"s3"})
             /\ \/ FirstIs(pos, 2, {"rm", "rb"})
                \/ FirstIs(pos, 2, {"sync"}) /\ Has(args, Long({"delete"}))
        [] name = "gsutil"                     -> FirstIs(pos, 1, {"rm", "rb"})
        [] name = "crontab"                    -> HasLetter(args, {"r"})
        [] name = "launchctl"                  -> FirstIs(pos, 1, {"bootout", "remove"})
        [] name = "gh"                         -> FirstIs(pos, 1, {"repo", "release"}) /\ FirstIs(pos, 2, {"delete"})
        [] name = "xargs"                      -> Removes(Unwrap(SkipOptions(args, Valued("xargs"))))
        [] OTHER                               -> FALSE

RunShape(name, args) == Destroys(name, args, Positionals(args, Valued(name)))

-----------------------------------------------------------------------------
(* What is left                                                            *)

Builtins == {"cd", "pushd", "popd", "echo", "printf", "true", "false", "test", "[", "[[", "export",
             "unset", "set", "read", "type", "which", "pwd", "exit", "return", "source", "."}
ReadOnly == {"ls", "cat", "head", "tail", "less", "more", "wc", "sort", "uniq", "cut", "tr", "grep",
             "egrep", "fgrep", "rg", "awk", "diff", "stat", "file", "du", "df", "date", "uname",
             "hostname", "whoami", "id", "sleep"}

Benign(name, args) ==
  CASE name \in Builtins \cup ReadOnly -> TRUE
    [] name = "command" -> args # <<>> /\ args[1] \in Short({"v", "V"})
    [] name = "env"     -> SkipOptions(args, Valued("env")) = <<>>
    [] name = "sed"     -> /\ \A i \in DOMAIN args : ~Starts(args[i], <<"--", "in-place">>)
                           /\ ~HasLetter(args, {"i"})
    [] name = "find"    -> ~Has(args, Short({"delete", "exec", "execdir", "ok", "okdir", "fprint",
                                             "fprint0", "fprintf", "fls"}))
    [] name = "git"     -> GitReadOnly(GitSubcommand(args))
    [] OTHER            -> FALSE

RepoScoped == {"git", "terraform", "tofu", "pulumi", "dropdb"}

\* Words joined by single blanks.
RECURSIVE Join(_)
Join(words) == IF Len(words) <= 1 THEN FlattenSeq(words)
               ELSE Head(words) \o <<" ">> \o Join(Tail(words))

Op(action, paths, targets, words) ==
  [action |-> action, paths |-> paths, targets |-> targets, command |-> Join(words),
   remote |-> <<>>, dir |-> <<>>, benign |-> FALSE, repo |-> FALSE]

Classified(words, name, args, file) ==
  IF file.action # "" THEN Op(file.action, file.paths, file.targets, words)
  ELSE IF RunShape(name, args)
       THEN [Op("run_command", <<>>, <<>>, words) EXCEPT !.repo = name \in RepoScoped]
  ELSE [Op("", <<>>, <<>>, words) EXCEPT !.benign = Benign(name, args)]

Classify(words) ==
  LET base == BaseName(words[1])
      \* mkfs.ext4 is as mkfs
      name == IF Len(base) = 1 \/ At(base, 1) = "mkfs" THEN base[1] ELSE ""
  IN  Classified(words, name, Tail(words), FileShape(name, Tail(words)))
=============================================================================
