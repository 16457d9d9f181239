-------------------------------- MODULE Shell --------------------------------
(***************************************************************************)
(* shellintent.Parse: from a command line to the operations that it would    *)
(* run.  A command is unwrapped from sudo and its like, from `bash -c`, and   *)
(* from ssh and docker exec, whose commands run elsewhere; the words of what  *)
(* is left go to Classify.                                                 *)
(*                                                                         *)
(* An operation has the words of its command with the wrappers before it, the  *)
(* host it runs on (<<>>: here) and the directory it starts in (<<>>: that of  *)
(* the hook).  The parse stops at the first thing it cannot read.             *)
(***************************************************************************)
EXTENDS Hosts

CONSTANTS MaxDepth,     \* maxDepth
          MaxSpellings  \* maxSpellings

ASSUME LimitAssumption == MaxDepth \in Nat /\ MaxSpellings \in Nat

-----------------------------------------------------------------------------
(* Where a command runs: the host, what restores it in the text, and the     *)
(* same in other spellings                                                 *)

Here == [remote |-> <<>>, prefix |-> <<>>, alts |-> <<>>]

Spelling(remote, prefix) == [remote |-> remote, prefix |-> prefix]
Outer(s, host) == IF s.remote = <<>> THEN host ELSE s.remote

\* with: inside a container, a service or a pod.
Inside(w, target, more) ==
  LET into(s) == Spelling(Outer(s, target), s.prefix \o more)
  IN  [remote |-> Outer(w, target), prefix |-> w.prefix \o more,
       alts |-> [i \in DOMAIN w.alts |-> Spelling(w.alts[i].remote, w.alts[i].prefix \o more)]]

\* withSSH: every spelling of the host under every spelling so far.
WithHosts(w, host, hosts) ==
  LET typed == Append(Append(w.prefix, <<"ssh">>), host)
      bases == {Spelling(w.remote, w.prefix)} \cup ToSet(w.alts)
      all   == {Spelling(Outer(b, h), Append(Append(b.prefix, <<"ssh">>), h)) : b \in bases, h \in hosts}
  IN  [remote |-> Outer(w, host), prefix |-> typed,
       alts |-> SetToSeq({s \in all : s.prefix # typed})]

WithSSH(w, host, also) ==
  WithHosts(w, host, UNION {ToSet(HostSpellings(h)) : h \in {host, also} \ {<<>>}})

Parsed == [ops |-> <<>>, fail |-> ""]
Record(p, op)   == [p EXCEPT !.ops = Append(@, op)]
Stop(p, reason) == [p EXCEPT !.fail = reason]

\* remoteOp: once for every spelling.
RemoteOp(p, w, tail) ==
  LET all == <<Spelling(w.remote, w.prefix)>> \o w.alts
      op(s) == [Op("run_command", <<>>, <<>>, s.prefix \o tail) EXCEPT !.remote = s.remote]
  IN  [p EXCEPT !.ops = @ \o [i \in DOMAIN all |-> op(all[i])]]

UnsupportedOptions == <<<<"[unsupported-options]">>>>

-----------------------------------------------------------------------------
(* Wrappers                                                                *)

NoWrapper == [ok |-> FALSE]

\* parseSSH. also: the host inside an ssh:// destination.
SSHTarget(rest) ==
  LET dest == rest[1]
      host == From(dest, LastOf(dest, {"@"}) + 1)
      uri  == UriEnd(dest, FALSE)
  IN  IF rest = <<>> THEN NoWrapper
      ELSE IF host = <<>> THEN NoWrapper
      ELSE [ok |-> TRUE, host |-> host, inner |-> Tail(rest),
            also |-> IF IsURI(dest, "ssh") /\ uri.ok THEN uri.host ELSE <<>>]

ParseSSH(words) == SSHTarget(DropOptions(Tail(words), Valued("ssh")))

SafeFlags == Short({"4", "6", "a", "C", "q", "t", "T", "v", "x", "b", "c", "e", "i", "l", "m", "p"})
SafeSetting(value) == Len(value) > 1 /\ value[2] = "="
                      /\ value[1] \in {"BatchMode", "ConnectTimeout", "StrictHostKeyChecking"}

\* The options of ssh, scp, sftp and rsync, in order: letter or name, value.
\* Only rsync has long ones; options that follow the operands count, but for ssh.
RECURSIVE OptionsFrom(_, _, _)
OptionsFrom(tool, valued, args) ==
  LET a      == args[1]
      eq     == Find(a, 1, {"="})
      wants  == {j \in 2..Len(a) : <<"-", a[j]>> \in valued}
      first  == IF wants = {} THEN 0 ELSE CHOOSE j \in wants : \A k \in wants : j <= k
      flags(to) == [j \in 1..(to - 2) |-> [flag |-> <<"-", a[j + 1]>>, value |-> <<>>]]
      more(seen, i) == LET r == OptionsFrom(tool, valued, From(args, i)) IN [r EXCEPT !.seen = seen \o @]
  IN  IF args = <<>> \/ args[1] = EndOfOptions THEN [seen |-> <<>>, ok |-> TRUE]
      ELSE IF ~IsOption(a)
           THEN IF tool = "ssh" THEN [seen |-> <<>>, ok |-> TRUE] ELSE more(<<>>, 2)
      ELSE IF a[1] = "--"
           THEN IF tool # "rsync" THEN [seen |-> <<>>, ok |-> FALSE]
                ELSE IF eq # 0
                     THEN more(<<[flag |-> SubSeq(a, 1, eq - 1), value |-> From(a, eq + 1)]>>, 2)
                ELSE IF a \in valued /\ Len(args) > 1
                     THEN more(<<[flag |-> a, value |-> args[2]]>>, 3)
                ELSE more(<<[flag |-> a, value |-> <<>>]>>, 2)
      ELSE IF first = 0 THEN more(flags(Len(a) + 1), 2)
      ELSE IF first < Len(a)
           THEN more(Append(flags(first), [flag |-> <<"-", a[first]>>, value |-> From(a, first + 1)]), 2)
      ELSE IF Len(args) > 1
           THEN more(Append(flags(first), [flag |-> <<"-", a[first]>>, value |-> args[2]]), 3)
      ELSE [seen |-> flags(first), ok |-> tool = "rsync"]

Options(tool, args) == OptionsFrom(tool, Valued(tool), args)

\* sshHasUnsupportedOptions and its like for scp and sftp: what cannot be
\* dropped from the text without losing what it does.
Unsafe(o, safe) ==
  \/ ~o.ok
  \/ \E i \in DOMAIN o.seen :
       IF o.seen[i].flag = <<"-", "o">> THEN ~SafeSetting(o.seen[i].value)
       ELSE o.seen[i].flag \notin safe

Unsupported(tool, args, safe) == Unsafe(Options(tool, args), safe)

SshHasUnsupportedOptions(words) == Unsupported("ssh", Tail(words), SafeFlags)

Shells == {"bash", "sh", "zsh", "dash", "ksh"}

\* shellDashC: what follows the option word with the c.
RECURSIVE ShellDashC(_)
ShellDashC(args) ==
  LET a == args[1]
  IN  IF args = <<>> \/ args[1] = EndOfOptions THEN NoWrapper
      ELSE IF a \in {<<"-", "o">>, <<"+", "o">>, <<"-", "O">>, <<"+", "O">>}
           THEN ShellDashC(From(args, 3))
      ELSE IF a # <<>> /\ a[1] = "--" THEN ShellDashC(Tail(args))
      ELSE IF Len(a) < 2 \/ a[1] \notin {"-", "+"} \/ Range(a) \cap Digits # {} THEN NoWrapper
      ELSE IF a[1] = "-" /\ Range(a) \cap {"c"} # {}
           THEN (IF Len(args) > 1 THEN [ok |-> TRUE, script |-> args[2]] ELSE NoWrapper)
      ELSE ShellDashC(Tail(args))

Containers == {"docker", "podman", "docker-compose", "kubectl"}

ParseKubectlExec(args) ==
  LET pos  == Positionals(args, Valued("kubectl"))
      ends == {i \in DOMAIN args : args[i] = EndOfOptions}
      pods == {i \in DOMAIN args : args[i] = pos[2]}
      at(S) == CHOOSE i \in S : \A j \in S : i <= j
      inner == IF ends # {} THEN From(args, at(ends) + 1)
               ELSE DropOptions(From(args, at(pods) + 1), Valued("kubectl"))
  IN  IF Len(pos) < 2 THEN NoWrapper
      ELSE IF ~Is(pos[1], {"exec"}) \/ inner = <<>> THEN NoWrapper
      ELSE [ok |-> TRUE, target |-> pos[2], inner |-> inner,
            prefix |-> <<<<"kubectl">>, <<"exec">>, pos[2]>>]

\* parseExec: [client options] [container | compose] exec [options] TARGET command
ExecTarget(prefix, rest) ==
  IF Len(rest) < 2 THEN NoWrapper
  ELSE [ok |-> TRUE, target |-> rest[1], inner |-> Tail(rest),
        prefix |-> prefix \o <<<<"exec">>, rest[1]>>]

ExecVerb(prefix, exec) ==
  IF exec = <<>> THEN NoWrapper
  ELSE IF ~Is(exec[1], {"exec"}) THEN NoWrapper
  ELSE ExecTarget(prefix, DropOptions(Tail(exec), Valued("docker exec")))

ExecGroup(name, verb) ==
  LET is(names) == verb # <<>> /\ Is(verb[1], names)
      also == IF is({"compose"}) /\ name # "docker-compose" THEN <<<<"compose">>>> ELSE <<>>
  IN  IF is({"container", "compose"})
      THEN ExecVerb(<<<<name>>>> \o also, SkipFlags(Tail(verb), Valued("docker")))
      ELSE ExecVerb(<<<<name>>>>, verb)

ParseExec(name, args) ==
  IF name = "kubectl" THEN ParseKubectlExec(args) ELSE ExecGroup(name, SkipFlags(args, Valued("docker")))

-----------------------------------------------------------------------------
(* scp, sftp and rsync, run here                                           *)

Verbs(words) == [i \in DOMAIN words |-> <<words[i]>>]
OrDot(path)  == IF path = <<>> THEN <<".">> ELSE path

\* transferEnds: the operands on other hosts, each with what ssh would be
\* asked to run there.
EndOf(name, pos, i) ==
  CASE name = "scp"   -> ScpOperand(pos[i])
    [] name = "rsync" -> RsyncOperand(pos[i])
    [] name = "sftp"  -> IF i = 1 THEN SftpDestination(pos[1]) ELSE NoEnd

\* Options that make it speak to a server of its own.
Direct(name, args) ==
  name # "rsync" /\ LET opts == Options(name, args).seen
                    IN  \E i \in DOMAIN opts :
                          opts[i].flag \in Short(IF name = "scp" THEN {"D", "t", "f"} ELSE {"D"})

RemoteEnds(name, pos, end) ==
  LET n    == Len(pos)
      verb(i) == CASE name = "scp"  -> Verbs(<<"scp">>) \o <<<<"-", IF i = n THEN "t" ELSE "f">>>>
                                       \o <<OrDot(end[i].path)>>
                   [] name = "sftp" -> Verbs(<<"sftp">>) \o (IF end[1].path = <<>> THEN <<>> ELSE <<end[1].path>>)
                   [] name = "rsync" -> <<<<"rsync">>, <<"--", "server">>>>
                        \o (IF i < n \/ n = 1 THEN <<<<"--", "sender">>>> ELSE <<>>)
                        \o (IF end[i].daemon THEN <<<<"--", "daemon">>>> ELSE <<>>)
                        \o <<<<".">>, OrDot(end[i].path)>>
      remote == SelectSeq([i \in 1..n |-> i], LAMBDA i : end[i].remote)
  IN  [ok |-> /\ \A i \in 1..n : end[i].ok
              /\ CASE name = "sftp" -> n \in 1..2 [] name = "scp" -> n >= 2 [] name = "rsync" -> TRUE,
       ends |-> [k \in DOMAIN remote |->
                   [operand |-> pos[remote[k]], end |-> end[remote[k]], verb |-> verb(remote[k])]]]

TransferOperands(name, pos) == RemoteEnds(name, pos, [i \in DOMAIN pos |-> EndOf(name, pos, i)])
TransferEnds(name, args) == TransferOperands(name, Positionals(args, Valued(name)))

\* rsyncShell and rsyncSSH: the remote shell, if it is ssh and its options.
RsyncShells(args) ==
  LET o == Options("rsync", args).seen
      at == {i \in DOMAIN o : o[i].flag \in {<<"-", "e">>, <<"--", "rsh">>}}
  IN  IF at = {} THEN {} ELSE {o[CHOOSE i \in at : \A j \in at : j <= i].value}

SSHWords(x) ==
  LET words == [i \in DOMAIN x.toks |-> x.toks[i].text]
      RECURSIVE onlyOptions(_)
      onlyOptions(args) ==
        \/ args = <<>>
        \/ /\ IsOption(args[1]) /\ args[1] # EndOfOptions
           /\ TakesNext(args[1], Valued("ssh")) => Len(args) > 1
           /\ onlyOptions(From(args, Taken(args, Valued("ssh"))))
  IN  IF /\ x.fail = "" /\ words # <<>> /\ \A i \in DOMAIN x.toks : x.toks[i].kind = "word"
         /\ Is(BaseName(words[1]), {"ssh"}) /\ onlyOptions(Tail(words))
      THEN {words} ELSE {}

RsyncSSH(shell) == SSHWords(Tokenize(shell))

SafeTransfer(name) ==
  IF name = "scp" THEN Short({"3", "4", "6", "B", "C", "O", "p", "q", "R", "r", "s", "T", "v", "c", "i", "l", "P"})
  ELSE Short({"4", "6", "a", "C", "f", "N", "p", "q", "r", "v", "B", "c", "i", "l", "P", "R"})

TransferHasUnsupportedOptions(name, args, shells) ==
  LET o == Options("rsync", args).seen
  IN  IF name # "rsync" THEN Unsupported(name, args, SafeTransfer(name))
      ELSE \/ \E i \in DOMAIN o : o[i].flag \in {<<"--", "rsync-path">>, <<"-", "M">>, <<"--", "remote-option">>}
           \/ \E ssh \in shells : \A words \in ssh : SshHasUnsupportedOptions(words)

\* respellTransfer: the command with its hosts in their k-th other spelling.
UpTo(s, k)   == s[IF k < Len(s) THEN k ELSE Len(s)]
Bracketed(h) == IF Range(h) \cap {":"} # {} THEN <<"[">> \o h \o <<"]">> ELSE h

Renamed(e, k) ==
  SubSeq(e.operand, 1, e.end.from - 1)
    \o Bracketed(UpTo(HostSpellings(e.end.host), k)) \o From(e.operand, e.end.to)

Respelled(words, ends, k) ==
  LET at(j) == {i \in DOMAIN ends : ends[i].operand = words[j]}
  IN  [j \in DOMAIN words |-> IF j = 1 \/ at(j) = {} THEN words[j]
                              ELSE Renamed(ends[CHOOSE i \in at(j) : TRUE], k + 1)]

\* transfer: the command as a copy, and every operand on another host as the
\* ssh session that it is.
Opened(p, w, flagged, verb) ==
  RemoteOp(IF flagged THEN RemoteOp(p, w, UnsupportedOptions) ELSE p, w, verb)

\* As many forms as the host with most spellings has.
Forms(words, ends) ==
  {Respelled(words, ends, k) :
     k \in 0..(Max({Len(HostSpellings(ends[i].end.host)) : i \in DOMAIN ends} \cup {1}) - 1)}

Copy(p, words, ends, flagged, dir) ==
  FoldLeft(LAMBDA q, e : Opened(q, WithSSH(Here, e.end.host, <<>>), flagged, e.verb),
           [p EXCEPT !.ops = @ \o SetToSeq({[Classify(f) EXCEPT !.dir = dir] : f \in Forms(words, ends)})],
           ends)

Transferred(p, name, words, t, shells, dir) ==
  LET args == Tail(words)
  IN  IF ~t.ok \/ Direct(name, args) THEN Stop(p, "transfer destination could not be determined")
      ELSE IF name = "rsync" /\ t.ends # <<>> /\ {} \in shells
           THEN Stop(p, "rsync remote shell is not ssh")
      ELSE Copy(p, words, t.ends, TransferHasUnsupportedOptions(name, args, shells), dir)

Transfer(p, name, words, dir) ==
  LET args == Tail(words)
  IN  Transferred(p, name, words, TransferEnds(name, args),
                  {RsyncSSH(shell) : shell \in RsyncShells(args)}, dir)

-----------------------------------------------------------------------------
(* Directories and redirections                                            *)

\* path.Clean
Clean(w) ==
  LET rooted == w # <<>> /\ w[1] = "/"
      step(s, x) == IF x \in {<<>>, <<".">>} THEN s
                    ELSE IF x # <<"..">> THEN Append(s, x)
                    ELSE IF s # <<>> /\ s[Len(s)] # <<"..">> THEN Front(s)
                    ELSE IF rooted THEN s ELSE Append(s, x)
      segs == FoldLeft(step, <<>>, Split(w, "/"))
  IN  IF segs = <<>> /\ ~rooted THEN <<".">>
      ELSE (IF rooted THEN <<"/">> ELSE <<>>) \o Between(segs, "/")

\* changeDir: what cannot be known from the text falls back to the hook's own
\* directory.
Moves(words) == Is(words[1], {"cd", "pushd", "popd"})
ChangeDir(words, cwd) ==
  LET pos == Positionals(Tail(words), {})
      to  == IF pos = <<>> THEN <<>> ELSE pos[1]
  IN  IF \/ words[1] = <<"popd">> \/ to \in {<<>>, <<"~">>, <<"-">>}
         \/ Range(to) \cap {"$", "tick", "*", "?", "["} # {} \/ At(to, 1) = "+"
      THEN <<>>
      ELSE IF to[1] = "/" \/ Starts(to, <<"~", "/">>) \/ cwd = <<>> THEN Clean(to)
      ELSE Clean(cwd \o <<"/">> \o to)

\* writesFile: a descriptor or a terminal is no file.
WritesFile(r) ==
  /\ \/ r.op \in {">", ">>", ">|", "&>", "&>>", "<>"}
     \/ r.op = ">&" /\ r.target # <<"-">> /\ \E i \in DOMAIN r.target : r.target[i] \notin Digits
  /\ r.target \notin DevSink \cup {<<>>} /\ ~Starts(r.target, <<"/", "dev", "/", "fd", "/">>)

RedirectOp(p, words, r, w, cwd) ==
  LET text == r.fd \o <<r.op, " ">> \o r.target
      all  == IF words = <<>> THEN text ELSE Join(words) \o <<" ">> \o text
  IN  IF w.remote # <<>> THEN RemoteOp(p, w, <<text>>)
      ELSE Record(p, [Op("modify_file", <<r.target>>, <<>>, <<all>>) EXCEPT !.dir = cwd])

-----------------------------------------------------------------------------
(* The parser                                                              *)

Reserved == {"if", "then", "else", "elif", "do", "while", "until", "!", "fi", "done", "esac"}

StripLeading(words) ==
  LET run == {i \in DOMAIN words : ~IsAssignment(words[i]) /\ ~Is(words[i], Reserved)}
  IN  IF run = {} THEN <<>> ELSE From(words, CHOOSE i \in run : \A j \in run : i <= j)

\* plain: reading the words again would change nothing.
IsPlain(words) ==
  \A i \in DOMAIN words : Range(words[i]) \cap
    ({"#", "'", "\"", "\\", "$", "tick", "\n"} \cup Blank \cup Separator \cup Redirect
       \cup {"<<", "<<-", "&>", "&>>"}) = {}

RECURSIVE ParseString(_, _, _, _, _), Simple(_, _, _, _, _)

\* A command that is no wrapper.
Bare(p, words, name, w, dir) ==
  IF w.remote # <<>> THEN RemoteOp(p, w, words)
  ELSE IF name \in {"scp", "sftp", "rsync"} THEN Transfer(p, name, words, dir)
  ELSE Record(p, [Classify(words) EXCEPT !.dir = dir])

\* What a wrapper runs elsewhere.
Session(p, inner, there, depth) ==
  IF inner = <<>> THEN RemoteOp(p, there, <<>>)
  ELSE IF IsPlain(inner) THEN Simple(p, inner, there, depth, <<>>)
  ELSE ParseString(p, Join(inner), there, depth + 1, <<>>)

OverSSH(p, flagged, inner, there, depth) ==
  IF Len(there.alts) > MaxSpellings THEN Stop(p, "too many spellings of nested ssh hosts")
  ELSE Session(IF flagged THEN RemoteOp(p, there, UnsupportedOptions) ELSE p,
               inner, there, depth)

Stripped(p, words, w, depth, dir) ==
  LET name  == LET b == BaseName(words[1]) IN IF Len(b) = 1 THEN b[1] ELSE ""
      ssh   == IF name = "ssh" THEN ParseSSH(words) ELSE NoWrapper
      exec  == IF name \in Containers THEN ParseExec(name, Tail(words)) ELSE NoWrapper
      dashC == IF name \in Shells THEN ShellDashC(Tail(words)) ELSE NoWrapper
  IN  CASE ssh.ok   -> OverSSH(p, SshHasUnsupportedOptions(words), ssh.inner, WithSSH(w, ssh.host, ssh.also), depth)
        [] dashC.ok -> ParseString(p, dashC.script, w, depth + 1, dir)
        [] exec.ok  -> Simple(p, exec.inner, Inside(w, exec.target, exec.prefix), depth, <<>>)
        [] OTHER    -> Bare(p, words, name, w, dir)

\* simple, behind the transparent prefixes (at most 32 of them).
Simple(p, line, w, depth, dir) == Stripped(p, Unwrap(line), w, depth, dir)

\* command: the simple command, then what its redirections write.
Command(p, line, redirs, w, depth, cwd) ==
  LET stripped == StripLeading(line)
      words == IF stripped = <<<<":">>>> THEN <<>> ELSE stripped
      moved == words # <<>> /\ w.remote = <<>> /\ Moves(words)
      write(r, x) == IF WritesFile(x) THEN RedirectOp(r, words, x, w, cwd) ELSE r
  IN  [p |-> FoldLeft(write, IF words = <<>> THEN p ELSE Simple(p, words, w, depth, cwd), redirs),
       moved |-> moved,
       cwd |-> IF moved THEN ChangeDir(words, cwd) ELSE cwd]

\* Mutant: a cd before a pipe or in the background moves the line.
CarriesAlways(before, after) == TRUE

\* Does a cd reach the commands behind it?  Beside a pipe, and before "&", it
\* runs in a subshell.
CarriesOn(before, after) == before # "|" /\ after \notin {"|", "&"}

\* end of parseString
Ended(a, sep, c) ==
  LET cwd == IF CarriesOn(a.sep, sep) THEN c.cwd ELSE a.cwd
      out == sep = ")" /\ a.saved # <<>>
  IN  [p |-> c.p, words |-> <<>>, redirs |-> <<>>, awaits |-> FALSE, sep |-> sep,
       cwd |-> IF out THEN a.saved[Len(a.saved)] ELSE cwd,
       saved |-> IF sep = "(" THEN Append(a.saved, cwd) ELSE IF out THEN Front(a.saved) ELSE a.saved]

EndCommand(a, sep, w, depth) == Ended(a, sep, Command(a.p, a.words, a.redirs, w, depth, a.cwd))

TakeToken(a, t, w, depth) ==
  CASE a.p.fail # ""  -> a
    [] t.kind = "sep" -> EndCommand(a, t.text[1], w, depth)
    [] t.kind = "sub" -> [a EXCEPT !.p = ParseString(@, t.text, w, depth + 1, a.cwd)]
    [] t.kind = "redir" -> [a EXCEPT !.awaits = TRUE,
                              !.redirs = Append(@, [op |-> t.text[1], fd |-> t.fd, target |-> <<>>])]
    [] t.kind = "word" ->
         IF a.awaits THEN [a EXCEPT !.awaits = FALSE, !.redirs[Len(a.redirs)].target = t.text]
         ELSE IF ~t.quoted /\ Is(t.text, {"{", "}"}) THEN a
         ELSE [a EXCEPT !.words = Append(@, t.text)]

ParseTokens(p, x, w, depth, dir) ==
  LET a == [p |-> p, words |-> <<>>, redirs |-> <<>>, awaits |-> FALSE, sep |-> "",
            cwd |-> dir, saved |-> <<>>]
  IN  IF x.fail # "" THEN Stop(p, x.fail) ELSE FoldLeft(LAMBDA b, t : TakeToken(b, t, w, depth), a, Append(x.toks, Token("sep", <<"">>))).p

ParseString(p, s, w, depth, dir) ==
  IF p.fail # "" THEN p
  ELSE IF depth > MaxDepth THEN Stop(p, "nesting deeper than the limit")
  ELSE ParseTokens(p, Tokenize(s), w, depth, dir)

\* A failed parse never yields a partial guess.
WholeOrNothing(p) == IF p.fail = "" THEN p ELSE Stop(Parsed, p.fail)
Parse(line) == WholeOrNothing(ParseString(Parsed, line, Here, 0, <<>>))
=============================================================================
