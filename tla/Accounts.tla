------------------------------ MODULE Accounts ------------------------------
(***************************************************************************)
(* Who may do what in Restore Gap Cloud: sign-in links, sessions, the form    *)
(* token of every page, push tokens and share links                        *)
(* (internal/cloud/server/auth.go and settings.go over the tables of          *)
(* internal/cloud/store, and the commands of cmd/restoregap-cloud/admin.go).  *)
(*                                                                         *)
(* A secret is the position of its row.  Asking for a link, pressing its button  *)
(* and the operator's command are several calls, one step each, and other        *)
(* requests, a failure or a restart may come between them.  The handlers behind  *)
(* a session are one step each: what they do after looking the session up         *)
(* depends on nothing but its workspace, and no row ever changes workspace.       *)
(***************************************************************************)
EXTENDS Naturals, Sequences, SequencesExt, FiniteSets

CONSTANTS
  Emails, Browsers, Requests,
  Limit, Window,   \* loginLimit, loginWindow
  TrackMax,        \* loginTrackMax
  LinkTTL, AdminTTL, SessionTTL,
  Sizes            \* bounds: the instances looked at; who takes part, and how many of what there may be

ASSUME AccountsAssumption ==
         /\ {Limit, Window, TrackMax, LinkTTL, AdminTTL, SessionTTL} \subseteq Nat
         /\ \A z \in Sizes : /\ z.asking \cup z.granted \subseteq Emails
                            /\ z.browsers \subseteq Browsers /\ z.requests \subseteq Requests

VARIABLES
  size,        \* the instance this behaviour belongs to
  now,
  signup,      \* AllowSignup of the running process
  boot,        \* restarts so far, and how many links existed at the last
  users,       \* the addresses with an account
  asks,        \* handleLogin in progress: the address, and what the limiter counts
  hits,        \* loginHits: address -> its recent requests
  links,       \* login_tokens
  operator,    \* admin workspace create in progress, in a process of its own
  workspaces,  \* oldest first; signup: created by the sign-in page, not the operator
  sessions,
  auth,        \* handleAuth in progress in a browser
  jar,         \* a browser's cookies; 0 is none
  page,        \* the form a browser still shows: its token and the workspace it is about
  forms,       \* form tokens made so far
  grants,      \* api_tokens and share_links
  hosts,       \* the workspace of each host row
  acted        \* history: the workspaces shown, acted in and touched by accepted forms

clock   == <<size, now, signup, boot>>
limiter == <<asks, hits>>
login   == <<users, limiter, links>>
signin  == <<operator, workspaces, sessions, auth>>
browser == <<jar, page, forms>>
owned   == <<grants, hosts, acted>>
vars    == <<clock, login, signin, browser, owned>>

Idle     == [pc |-> "idle", link |-> 0, user |-> "", ws |-> 0]
Answered == [pc |-> "idle", email |-> "", hit |-> [at |-> 0, n |-> 0]]
Done     == [pc |-> "idle", email |-> ""]

Init ==
  /\ size \in Sizes
  /\ now = 0 /\ signup \in BOOLEAN /\ boot = [n |-> 0, links |-> 0]
  /\ users = {} /\ asks = [q \in Requests |-> Answered] /\ hits = <<>> /\ links = <<>>
  /\ operator = Done /\ workspaces = <<>> /\ sessions = <<>> /\ auth = [b \in Browsers |-> Idle]
  /\ jar = [b \in Browsers |-> [session |-> 0, csrf |-> 0]]
  /\ page = [b \in Browsers |-> [csrf |-> 0, ws |-> 0]] /\ forms = 0
  /\ grants = <<>> /\ hosts = <<>> /\ acted = {}

-----------------------------------------------------------------------------
(* Asking for a link. *)

NextAsk(q, ask) == asks' = [asks EXCEPT ![q] = ask]

\* POST /login.  The limiter reads the clock before it takes its lock.
Ask(q, e) ==
  /\ asks[q].pc = "idle" /\ NextAsk(q, [pc |-> "limiter", email |-> e, hit |-> [at |-> now, n |-> 0]])
  /\ UNCHANGED <<clock, users, hits, links, signin, browser, owned>>

\* A remembered request: when it came, and what tells it from the others of the address.
RecentHitsWider(ts, at) == {h \in ts : at > h.at + Window}           \* mutant: the test reversed
RecentHits(ts, at) == {h \in ts : at < h.at + Window}

HitsOf(e, at) == IF e \in DOMAIN hits THEN RecentHits(hits[e], at) ELSE {}
Hit(e, at) == [at |-> at, n |-> CHOOSE n \in 1..Limit : \A h \in HitsOf(e, at) : h.n # n]

\* The map past its bound: addresses without a recent request are forgotten.
Tracked(at) == {e \in DOMAIN hits : \/ Cardinality(DOMAIN hits) < TrackMax
                                    \/ RecentHits(hits[e], at) # {}}

SetHits(e, at, ts) == hits' = [x \in Tracked(at) \cup {e} |-> IF x = e THEN ts ELSE hits[x]]

Room(at) == Cardinality(Tracked(at)) < TrackMax

\* allowLogin, under its lock.  The answer is the same page whatever happens.
AllowLogin(q) ==
  LET e == asks[q].email  at == asks[q].hit.at  recent == HitsOf(e, at) IN
  /\ asks[q].pc = "limiter"
  /\ \/ /\ ~Room(at) /\ hits' = [x \in Tracked(at) |-> hits[x]]
        /\ NextAsk(q, Answered)
     \/ /\ Room(at) /\ Cardinality(recent) >= Limit /\ SetHits(e, at, recent)
        /\ NextAsk(q, Answered)
     \/ /\ Room(at) /\ Cardinality(recent) < Limit /\ SetHits(e, at, recent \cup {Hit(e, at)})
        /\ NextAsk(q, [pc |-> IF signup THEN "send" ELSE "lookup", email |-> e, hit |-> Hit(e, at)])
  /\ UNCHANGED <<clock, users, links, signin, browser, owned>>

\* UserByEmail: a closed instance sends no link to an unknown address.
LookUp(q) ==
  /\ asks[q].pc = "lookup"
  /\ NextAsk(q, IF asks[q].email \in users THEN [asks[q] EXCEPT !.pc = "send"] ELSE Answered)
  /\ UNCHANGED <<clock, users, hits, links, signin, browser, owned>>

\* hit is history: what the limiter counted the request for the link as.
Link(e, ttl, by, hit) == [email |-> e, until |-> now + ttl, used |-> FALSE, by |-> by, hit |-> hit]

\* The store reads the clock again.
CreateLoginToken(e, ttl, by, hit) ==
  Len(links) < size.links /\ links' = Append(links, Link(e, ttl, by, hit))

SendLogin(q) ==
  /\ asks[q].pc = "send" /\ CreateLoginToken(asks[q].email, LinkTTL, "login", asks[q].hit)
  /\ NextAsk(q, Answered)
  /\ UNCHANGED <<clock, users, hits, signin, browser, owned>>

\* A call of the store fails: the request has been counted, and nothing is sent.
LoginFails(q) ==
  /\ asks[q].pc \in {"lookup", "send"} /\ NextAsk(q, Answered)
  /\ UNCHANGED <<clock, users, hits, links, signin, browser, owned>>

-----------------------------------------------------------------------------
(* Pressing the button of a link: POST /auth/{token}. *)

NextCall(b, call) == auth' = [auth EXCEPT ![b] = call]

LiveOnly(l) == now < links[l].until            \* mutant: used_at not looked at
Consumable(l) == ~links[l].used /\ now < links[l].until

\* ConsumeLoginToken: one transaction burns the link and makes the account.
Consume(b, l) ==
  /\ auth[b].pc = "idle" /\ Consumable(l)
  /\ links' = [links EXCEPT ![l].used = TRUE]
  /\ users' = users \cup {links[l].email}
  /\ NextCall(b, [pc |-> "list", link |-> l, user |-> links[l].email, ws |-> 0])
  /\ UNCHANGED <<clock, limiter, operator, workspaces, sessions, browser, owned>>

WorkspacesForUser(e) == {w \in DOMAIN workspaces : workspaces[w].owner = e}
Oldest(W) == CHOOSE w \in W : \A v \in W : w <= v

\* The account's oldest workspace, or a new one, or a closed door.
ListWorkspaces(b) ==
  LET mine == WorkspacesForUser(auth[b].user) IN
  /\ auth[b].pc = "list"
  /\ \/ mine # {} /\ NextCall(b, [auth[b] EXCEPT !.pc = "session", !.ws = Oldest(mine)])
     \/ mine = {} /\ signup /\ NextCall(b, [auth[b] EXCEPT !.pc = "create"])
     \/ mine = {} /\ ~signup /\ NextCall(b, Idle)
  /\ UNCHANGED <<clock, login, operator, workspaces, sessions, browser, owned>>

CreateWorkspace(e, bySignup) ==
  /\ Len(workspaces) < size.workspaces
  /\ workspaces' = Append(workspaces, [owner |-> e, signup |-> bySignup, hook |-> FALSE])

CreateWorkspaceFor(b) ==
  /\ auth[b].pc = "create" /\ CreateWorkspace(auth[b].user, TRUE)
  /\ NextCall(b, [auth[b] EXCEPT !.pc = "session", !.ws = Len(workspaces) + 1])
  /\ UNCHANGED <<clock, login, operator, sessions, browser, owned>>

NewCookies(b) == [session |-> Len(sessions) + 1, csrf |-> forms + 1]

\* The session and both cookies.
CreateSession(b) ==
  /\ auth[b].pc = "session" /\ Len(sessions) < size.sessions /\ forms < size.forms
  /\ sessions' = Append(sessions, [user |-> auth[b].user, ws |-> auth[b].ws, link |-> auth[b].link,
                                   until |-> now + SessionTTL, open |-> TRUE])
  /\ jar' = [jar EXCEPT ![b] = NewCookies(b)] /\ forms' = forms + 1
  /\ NextCall(b, Idle)
  /\ UNCHANGED <<clock, login, operator, workspaces, page, owned>>

\* A call of the store fails: the request ends where it stands.
AuthFails(b) ==
  /\ auth[b].pc # "idle" /\ NextCall(b, Idle)
  /\ UNCHANGED <<clock, login, operator, workspaces, sessions, browser, owned>>

-----------------------------------------------------------------------------
(* Pages and forms. *)

\* lookupSession.
SignedIn(b) ==
  LET s == jar[b].session IN
  s # 0 /\ sessions[s].open /\ now < sessions[s].until /\ workspaces[sessions[s].ws].owner = sessions[s].user
WS(b) == sessions[jar[b].session].ws

\* The app wrapper makes a form token for a session whose cookie is gone.
Csrf(b) == IF jar[b].csrf = 0 THEN forms + 1 ELSE jar[b].csrf
Minted(b) ==
  /\ (jar[b].csrf = 0) => (forms < size.forms)
  /\ forms' = IF jar[b].csrf = 0 THEN forms + 1 ELSE forms
  /\ jar' = [jar EXCEPT ![b].csrf = Csrf(b)]

\* GET of a page of the app.
Get(b) ==
  /\ SignedIn(b) /\ Minted(b)
  /\ page' = [page EXCEPT ![b] = [csrf |-> Csrf(b), ws |-> WS(b)]]
  /\ UNCHANGED <<clock, login, signin, owned>>

AnyForm(b) == jar[b].csrf # 0 /\ page[b].csrf # 0    \* mutant: a token is asked for, not compared
CheckCSRF(b) == jar[b].csrf # 0 /\ page[b].csrf # 0 /\ page[b].csrf = jar[b].csrf

\* A POST whose token is missing or stale: nothing but, perhaps, a new cookie.
Refused(b) ==
  /\ SignedIn(b) /\ ~CheckCSRF(b) /\ Minted(b)
  /\ UNCHANGED <<clock, login, signin, page, owned>>

\* A POST that is let through, about something of workspace w.
Acts(b, w) ==
  /\ SignedIn(b) /\ CheckCSRF(b)
  /\ acted' = acted \cup {[shown |-> page[b].ws, in |-> WS(b), of |-> w]}
  /\ UNCHANGED <<clock, login, operator, sessions, auth, browser, hosts>>

Grant(kind, w, host, until) == [kind |-> kind, ws |-> w, host |-> host, until |-> until, revoked |-> FALSE]
AddGrant(g) == Len(grants) < size.grants /\ grants' = Append(grants, g)

\* 0 for until: it never expires; 0 for host: the whole fleet.
CreateToken(b) ==
  /\ Acts(b, WS(b)) /\ AddGrant(Grant("token", WS(b), 0, 0)) /\ UNCHANGED workspaces

ScopeHosts(b) == {h \in DOMAIN hosts : hosts[h] = WS(b)}
CreateShareLink(b) ==
  SignedIn(b) /\ \E h \in {0} \cup ScopeHosts(b), until \in {0, now + 1} :
    /\ Acts(b, IF h = 0 THEN WS(b) ELSE hosts[h])
    /\ AddGrant(Grant("share", WS(b), h, until)) /\ UNCHANGED workspaces

OwnRows(b) == {g \in DOMAIN grants : grants[g].ws = WS(b)}
\* Any id may be posted; another workspace's is not found.
Revoke(b) ==
  SignedIn(b) /\ \E g \in OwnRows(b) :
    /\ Acts(b, grants[g].ws) /\ grants' = [grants EXCEPT ![g].revoked = TRUE] /\ UNCHANGED workspaces

\* Where alerts go: a URL always has a secret to sign with (typed, kept or
\* generated), and no URL leaves none behind.
Notify(b) ==
  /\ size.grants > 0 /\ Acts(b, WS(b))
  /\ \E url \in BOOLEAN : workspaces' = [workspaces EXCEPT ![WS(b)].hook = url]
  /\ UNCHANGED grants

Logout(b) ==
  /\ SignedIn(b) /\ CheckCSRF(b)
  /\ \/ sessions' = [sessions EXCEPT ![jar[b].session].open = FALSE]
     \/ UNCHANGED sessions                                     \* the delete failed and is logged
  /\ jar' = [jar EXCEPT ![b] = [session |-> 0, csrf |-> 0]]
  /\ UNCHANGED <<clock, login, operator, workspaces, auth, page, forms, owned>>

\* The browser drops the cookie of the form token.
DropCookie(b) ==
  /\ jar[b].csrf # 0 /\ forms < size.forms
  /\ jar' = [jar EXCEPT ![b].csrf = 0]
  /\ UNCHANGED <<clock, login, signin, page, forms, owned>>

-----------------------------------------------------------------------------
(* The rest of the world. *)

Live(g) == ~grants[g].revoked /\ (grants[g].until = 0 \/ now < grants[g].until)

\* A push with a live token brings a host into the token's workspace.
Push ==
  /\ Len(hosts) < size.hosts
  /\ \E g \in DOMAIN grants : /\ grants[g].kind = "token" /\ Live(g)
                              /\ hosts' = Append(hosts, grants[g].ws)
  /\ UNCHANGED <<clock, login, signin, browser, grants, acted>>

\* admin workspace create: the user, then the workspace, then a link for a day.
EnsureUser(e) ==
  /\ operator.pc = "idle" /\ operator' = [pc |-> "workspace", email |-> e]
  /\ users' = users \cup {e}
  /\ UNCHANGED <<clock, limiter, links, workspaces, sessions, auth, browser, owned>>

AdminWorkspace ==
  /\ operator.pc = "workspace" /\ operator' = [operator EXCEPT !.pc = "link"]
  /\ CreateWorkspace(operator.email, FALSE)
  /\ UNCHANGED <<clock, login, sessions, auth, browser, owned>>

AdminLink ==
  /\ operator.pc = "link" /\ operator' = Done
  /\ CreateLoginToken(operator.email, AdminTTL, "admin", Answered.hit)
  /\ UNCHANGED <<clock, users, limiter, workspaces, sessions, auth, browser, owned>>

\* A call of the store fails: what the calls before it made stays.
AdminFails ==
  /\ operator.pc # "idle" /\ operator' = Done
  /\ UNCHANGED <<clock, login, workspaces, sessions, auth, browser, owned>>

\* The server starts again: requests under way and the limiter's memory are gone.
Restart ==
  /\ signup' \in BOOLEAN /\ boot.n < size.boots /\ boot' = [n |-> boot.n + 1, links |-> Len(links)]
  /\ asks' = [q \in Requests |-> Answered] /\ hits' = <<>> /\ auth' = [b \in Browsers |-> Idle]
  /\ UNCHANGED <<size, now, users, links, operator, workspaces, sessions, browser, owned>>

Tick ==
  /\ now < size.now /\ now' = now + 1
  /\ UNCHANGED <<size, signup, boot, login, signin, browser, owned>>

Next ==
  \/ \E q \in size.requests :
       (\E e \in size.asking : Ask(q, e)) \/ AllowLogin(q) \/ LookUp(q) \/ SendLogin(q) \/ LoginFails(q)
  \/ (\E e \in size.granted : EnsureUser(e)) \/ AdminWorkspace \/ AdminLink \/ AdminFails
  \/ \E b \in size.browsers :
       \/ \E l \in DOMAIN links : Consume(b, l)
       \/ ListWorkspaces(b) \/ CreateWorkspaceFor(b) \/ CreateSession(b) \/ AuthFails(b)
       \/ Get(b) \/ Refused(b) \/ Logout(b) \/ DropCookie(b)
       \/ CreateToken(b) \/ CreateShareLink(b) \/ Revoke(b) \/ Notify(b)
  \/ Push \/ Restart \/ Tick

Spec == Init /\ [][Next]_vars

-----------------------------------------------------------------------------
(* Properties. *)

\* Every row and cookie is of its kind, and the limiter's map stays bounded.
TypeOK ==
  /\ Cardinality(DOMAIN hits) <= TrackMax /\ operator.pc \in {"idle", "workspace", "link"}
  /\ \A q \in Requests : asks[q].pc \in {"idle", "limiter", "lookup", "send"} /\ asks[q].hit.at \in 0..now
  /\ now \in 0..size.now /\ signup \in BOOLEAN /\ boot.links \in 0..Len(links) /\ users \subseteq Emails
  /\ \A l \in DOMAIN links : links[l].email \in Emails /\ links[l].by \in {"login", "admin"}
  /\ \A w \in DOMAIN workspaces : workspaces[w].owner \in users
  /\ \A s \in DOMAIN sessions : sessions[s].ws \in DOMAIN workspaces
  /\ \A b \in Browsers : jar[b].session \in 0..Len(sessions) /\ jar[b].csrf \in 0..forms
  /\ \A g \in DOMAIN grants : grants[g].ws \in DOMAIN workspaces /\ grants[g].host \in 0..Len(hosts)

\* A sign-in link is usable once (docs/CLOUD.md, "Signing in"): however two
\* browsers race over it, fail and retry, it starts at most one session, and that
\* session is of the address the link was sent to, in a workspace of that person.
SignsInOnce ==
  \A s, t \in DOMAIN sessions :
    /\ sessions[s].link = sessions[t].link => s = t
    /\ sessions[s].user = links[sessions[s].link].email
    /\ workspaces[sessions[s].ws].owner = sessions[s].user

\* Of the links that the life of one process sends an address, no stretch of
\* loginWindow has more than loginLimit asked for and sent within it, however
\* requests overlap and whatever is forgotten at loginTrackMax (allowLogin).
LimitHolds ==
  \A e \in Emails, t \in 0..size.now :
    Cardinality({l \in DOMAIN links :
      /\ l > boot.links /\ links[l].email = e /\ links[l].by = "login"
      /\ links[l].hit.at >= t /\ links[l].until - LinkTTL < t + Window}) <= Limit

\* Links sent, whenever they were asked for.  Not so: a request that was counted may be
\* held up before the link is made, and come together with those of the next window.
LimitOnSent ==
  \A e \in Emails, t \in 0..size.now :
    Cardinality({l \in DOMAIN links :
      /\ l > boot.links /\ links[l].email = e /\ links[l].by = "login"
      /\ links[l].until - LinkTTL \in t..(t + Window - 1)}) <= Limit

\* An accepted form acts in the workspace its page was about, on something of
\* that workspace: not through a tab that an earlier sign-in left open, and not on
\* the id of another workspace's token, link or host.
ActsWhereShown == \A a \in acted : a.shown = a.in /\ a.of = a.in

\* docs/CLOUD.md, "Plans": one workspace per person.  Signing in gives a person at
\* most one (the operator may give more).
OneWorkspaceEach ==
  \A v, w \in DOMAIN workspaces :
    workspaces[v].signup /\ workspaces[w].signup /\ workspaces[v].owner = workspaces[w].owner => v = w
=============================================================================
