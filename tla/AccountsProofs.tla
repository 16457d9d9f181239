--------------------------- MODULE AccountsProofs ---------------------------
(***************************************************************************)
(* For any people, browsers, requests, limits and instances: a sign-in link    *)
(* starts at most one session, of the address it was sent to; an accepted form  *)
(* acts in the workspace that its page showed; and of the links an address is   *)
(* sent no window has more asked for and sent in it than the limiter allows.    *)
(***************************************************************************)
EXTENDS Accounts, FiniteSetTheorems, SequenceTheorems, WellFoundedInduction, TLAPS

Call      == [pc : {"idle", "list", "create", "session"}, link : Nat, user : Emails \cup {""}, ws : Nat]
Counting  == [at : Nat, n : Nat]
LinkRow   == [email : Emails, until : Nat, used : BOOLEAN, by : {"login", "admin"}, hit : Counting]
Workspace == [owner : Emails, signup : BOOLEAN, hook : BOOLEAN]
Session   == [user : Emails, ws : Nat, link : Nat, until : Nat, open : BOOLEAN]

Typed ==
  /\ size \in Sizes /\ now \in Nat /\ forms \in Nat
  /\ links \in Seq(LinkRow) /\ workspaces \in Seq(Workspace) /\ sessions \in Seq(Session)
  /\ auth \in [Browsers -> Call]
  /\ jar \in [Browsers -> [session : Nat, csrf : Nat]]
  /\ page \in [Browsers -> [csrf : Nat, ws : Nat]]

\* What a request that is under way may rely on between two of its calls: the
\* link it burnt is its own, and no session has come of it yet.
InHand(b) ==
  auth[b].pc # "idle" =>
    /\ auth[b].link \in DOMAIN links /\ links[auth[b].link].used
    /\ auth[b].user = links[auth[b].link].email
    /\ \A s \in DOMAIN sessions : sessions[s].link # auth[b].link
    /\ \A c \in Browsers : c # b /\ auth[c].pc # "idle" => auth[c].link # auth[b].link
    /\ auth[b].pc = "session" =>
         auth[b].ws \in DOMAIN workspaces /\ workspaces[auth[b].ws].owner = auth[b].user

\* A session came of a burnt link, and belongs to that link's person.
Founded ==
  \A s \in DOMAIN sessions :
    /\ sessions[s].link \in DOMAIN links /\ links[sessions[s].link].used
    /\ sessions[s].ws \in DOMAIN workspaces

SignIn == Founded /\ SignsInOnce /\ \A b \in Browsers : InHand(b)

\* The cookie of the form token is only ever that of one session: a page that
\* holds the same token was shown in that session.  Tokens to come are new.
Paired(b) ==
  /\ jar[b].session \in 0..Len(sessions)
  /\ jar[b].csrf <= forms /\ page[b].csrf <= forms
  /\ jar[b].session # 0 /\ jar[b].csrf # 0 /\ page[b].csrf = jar[b].csrf =>
       page[b].ws = sessions[jar[b].session].ws

IInv == Typed /\ SignIn /\ (\A b \in Browsers : Paired(b)) /\ ActsWhereShown

\* A request for a link, and the operator's command, hold a known address, and the
\* request a time that has been.
AskedWell(q) ==
  asks[q].pc # "idle" => asks[q].email \in Emails /\ asks[q].hit \in Counting /\ asks[q].hit.at <= now

\* No more requests of an address are remembered than a window allows.
FewRemembered(e) == IsFiniteSet(hits[e]) /\ hits[e] \subseteq Counting /\ Cardinality(hits[e]) <= Limit

Asking ==
  /\ size \in Sizes /\ now \in Nat
  /\ DOMAIN asks = Requests /\ \A q \in Requests : AskedWell(q)
  /\ \A e \in DOMAIN hits : FewRemembered(e)
  /\ operator.pc # "idle" => operator.email \in Emails

-----------------------------------------------------------------------------
(* Sequences.                                                              *)

LEMMA Appended ==
  ASSUME NEW S, NEW q \in Seq(S), NEW e \in S
  PROVE  /\ Len(q) \in Nat /\ Len(q) + 1 \notin DOMAIN q /\ DOMAIN q = 1 .. Len(q)
         /\ Append(q, e) \in Seq(S) /\ Len(Append(q, e)) = Len(q) + 1
         /\ DOMAIN Append(q, e) = DOMAIN q \cup {Len(q) + 1}
         /\ Append(q, e)[Len(q) + 1] = e
         /\ \A i \in DOMAIN q : Append(q, e)[i] = q[i]
<1>1. Len(q) \in Nat /\ DOMAIN q = 1 .. Len(q)
  BY LenProperties
<1>2. DOMAIN Append(q, e) = 1 .. Len(q) + 1
  BY AppendProperties, LenProperties
<1> QED BY <1>1, <1>2, AppendProperties

LEMMA Updated ==
  ASSUME NEW S, NEW q \in Seq(S), NEW i \in DOMAIN q, NEW e \in S
  PROVE  /\ [q EXCEPT ![i] = e] \in Seq(S) /\ DOMAIN [q EXCEPT ![i] = e] = DOMAIN q
         /\ Len([q EXCEPT ![i] = e]) = Len(q)
         /\ \A j \in DOMAIN q : [q EXCEPT ![i] = e][j] = IF j = i THEN e ELSE q[j]
BY LenProperties, ExceptSeq

LEMMA Element == ASSUME NEW S, NEW q \in Seq(S), NEW i \in DOMAIN q PROVE q[i] \in S
BY LenProperties, ElementOfSeq

\* The rows are numbered in the order they were made, so one is the oldest.
LEMMA OldestIs ==
  ASSUME NEW W \in SUBSET Nat, W # {}
  PROVE  Oldest(W) \in W
<1>1. PICK w \in W : \A v \in W : ~(<<v, w>> \in OpToRel(<, Nat))
  BY NatLessThanWellFounded, WFMin
<1>2. \A v \in W : ~(v < w)
  BY <1>1 DEF OpToRel
<1>3. \E x \in W : \A v \in W : x <= v
  BY <1>2
<1> QED BY <1>3 DEF Oldest

-----------------------------------------------------------------------------
(* The start.                                                              *)

LEMMA InitIInv == Init => IInv
<1> SUFFICES ASSUME Init PROVE IInv
  OBVIOUS
<1> USE DEF Init
<1>1. DOMAIN links = {} /\ DOMAIN sessions = {} /\ Len(sessions) = 0 /\ acted = {}
  OBVIOUS
<1>2. Typed
  <2>1. links \in Seq(LinkRow) /\ workspaces \in Seq(Workspace) /\ sessions \in Seq(Session)
    OBVIOUS
  <2>2. Idle \in Call
    BY DEF Idle, Call
  <2> QED BY <2>1, <2>2 DEF Typed
<1>3. ASSUME NEW b \in Browsers PROVE InHand(b) /\ Paired(b)
  <2>1. auth[b].pc = "idle"
    BY DEF Idle
  <2>2. jar[b].session = 0 /\ jar[b].csrf = 0 /\ page[b].csrf = 0
    OBVIOUS
  <2> QED BY <1>1, <2>1, <2>2 DEF InHand, Paired
<1>4. Founded /\ SignsInOnce /\ ActsWhereShown
  BY <1>1 DEF Founded, SignsInOnce, ActsWhereShown
<1> QED BY <1>2, <1>3, <1>4 DEF IInv, SignIn

-----------------------------------------------------------------------------
(* What the tables never lose.                                             *)

LinksGrow ==
  /\ links' \in Seq(LinkRow) /\ DOMAIN links \subseteq DOMAIN links'
  /\ \A l \in DOMAIN links : /\ links'[l].email = links[l].email
                             /\ links[l].used => links'[l].used
WorkspacesGrow ==
  /\ workspaces' \in Seq(Workspace) /\ DOMAIN workspaces \subseteq DOMAIN workspaces'
  /\ \A w \in DOMAIN workspaces : workspaces'[w].owner = workspaces[w].owner
SessionsStay ==
  /\ sessions' \in Seq(Session) /\ DOMAIN sessions' = DOMAIN sessions /\ Len(sessions') = Len(sessions)
  /\ \A s \in DOMAIN sessions : /\ sessions'[s].user = sessions[s].user
                                /\ sessions'[s].ws = sessions[s].ws
                                /\ sessions'[s].link = sessions[s].link

LEMMA LinksStill == ASSUME Typed, UNCHANGED links PROVE LinksGrow
BY DEF Typed, LinksGrow
LEMMA WorkspacesStill == ASSUME Typed, UNCHANGED workspaces PROVE WorkspacesGrow
BY DEF Typed, WorkspacesGrow
LEMMA SessionsStill == ASSUME Typed, UNCHANGED sessions PROVE SessionsStay
BY DEF Typed, SessionsStay

\* A link for a person and a time to live.
LEMMA LinkMade ==
  ASSUME Typed, NEW e \in Emails, NEW ttl \in {LinkTTL, AdminTTL}, NEW by \in {"login", "admin"},
         NEW h \in Counting, CreateLoginToken(e, ttl, by, h)
  PROVE  LinksGrow
<1>1. Link(e, ttl, by, h) \in LinkRow
  BY AccountsAssumption DEF Link, LinkRow, Typed
<1> QED BY <1>1, Appended DEF CreateLoginToken, LinksGrow, Typed

LEMMA WorkspaceMade ==
  ASSUME Typed, NEW e \in Emails, NEW bySignup \in BOOLEAN, CreateWorkspace(e, bySignup)
  PROVE  /\ WorkspacesGrow /\ Len(workspaces) + 1 \in DOMAIN workspaces'
         /\ workspaces'[Len(workspaces) + 1].owner = e /\ Len(workspaces) + 1 \in Nat
<1> DEFINE w == [owner |-> e, signup |-> bySignup, hook |-> FALSE]
<1>1. w \in Workspace
  BY DEF Workspace
<1> HIDE DEF w
<1>2. workspaces' = Append(workspaces, w)
  BY DEF w, CreateWorkspace
<1>3. w.owner = e
  BY DEF w
<1> QED BY <1>1, <1>2, <1>3, Appended DEF WorkspacesGrow, Typed

\* What was true of the sessions stays true of them while the tables grow.
LEMMA StillOnce ==
  ASSUME Typed, Founded, SignsInOnce, LinksGrow, WorkspacesGrow, SessionsStay
  PROVE  Founded' /\ SignsInOnce'
<1>1. Founded'
  BY DEF Founded, LinksGrow, WorkspacesGrow, SessionsStay
<1>2. ASSUME NEW s \in DOMAIN sessions', NEW t \in DOMAIN sessions'
      PROVE  /\ sessions'[s].link = sessions'[t].link => s = t
             /\ sessions'[s].user = links'[sessions'[s].link].email
             /\ workspaces'[sessions'[s].ws].owner = sessions'[s].user
  <2>1. s \in DOMAIN sessions /\ t \in DOMAIN sessions
    BY DEF SessionsStay
  <2>2. /\ sessions'[s].link = sessions[s].link /\ sessions'[t].link = sessions[t].link
        /\ sessions'[s].user = sessions[s].user /\ sessions'[s].ws = sessions[s].ws
    BY <2>1 DEF SessionsStay
  <2>3. /\ links'[sessions[s].link].email = links[sessions[s].link].email
        /\ workspaces'[sessions[s].ws].owner = workspaces[sessions[s].ws].owner
    BY <2>1 DEF Founded, LinksGrow, WorkspacesGrow
  <2> QED BY <2>1, <2>2, <2>3 DEF SignsInOnce
<1> QED BY <1>1, <1>2 DEF SignsInOnce

\* Whatever grows, a request that is under way, or ends, may rely on what it did.
LEMMA GrowthKeepsSignIn ==
  ASSUME Typed, SignIn, LinksGrow, WorkspacesGrow, SessionsStay,
         \A b \in Browsers : auth'[b] = auth[b] \/ auth'[b] = Idle
  PROVE  SignIn'
<1>1. Founded' /\ SignsInOnce'
  BY StillOnce DEF SignIn
<1>3. Idle.pc = "idle"
  BY DEF Idle
<1>4. ASSUME NEW b \in Browsers, auth'[b].pc # "idle" PROVE InHand(b)'
  <2>1. auth'[b] = auth[b] /\ InHand(b)
    BY <1>3, <1>4 DEF SignIn
  <2>2. \A c \in Browsers : c # b /\ auth'[c].pc # "idle" => auth'[c].link # auth'[b].link
    BY <1>3, <1>4, <2>1 DEF InHand
  <2> QED BY <1>4, <2>1, <2>2 DEF InHand, LinksGrow, WorkspacesGrow, SessionsStay
<1>5. \A b \in Browsers : InHand(b)'
  BY <1>4 DEF InHand
<1> QED BY <1>1, <1>5 DEF SignIn

\* A step that leaves a browser's cookies and page alone keeps them paired.
LEMMA StillPaired ==
  ASSUME Typed, SessionsStay, NEW b \in Browsers, Paired(b), forms' \in Nat, forms <= forms',
         jar'[b] = jar[b], page'[b] = page[b]
  PROVE  Paired(b)'
<1>1. Len(sessions) \in Nat /\ DOMAIN sessions = 1 .. Len(sessions)
  BY LenProperties DEF Typed
<1>2. /\ jar[b].session \in Nat /\ jar[b].csrf \in Nat /\ page[b].csrf \in Nat /\ forms \in Nat
  BY DEF Typed
<1>3. jar[b].session # 0 => jar[b].session \in DOMAIN sessions
  BY <1>1, <1>2 DEF Paired
<1> QED BY <1>1, <1>2, <1>3 DEF Paired, SessionsStay

\* The steps that neither sign in nor touch a browser: people, tokens and time.
LEMMA ElsewhereKeepsIInv ==
  ASSUME IInv, size' = size, now' \in Nat, LinksGrow, WorkspacesGrow, SessionsStay,
         \A b \in Browsers : auth'[b] = auth[b] \/ auth'[b] = Idle, auth' \in [Browsers -> Call],
         UNCHANGED browser, ActsWhereShown'
  PROVE  IInv'
<1> USE DEF IInv
<1>1. Typed'
  BY DEF Typed, LinksGrow, WorkspacesGrow, SessionsStay, browser
<1>2. SignIn'
  BY GrowthKeepsSignIn
<1>3. ASSUME NEW b \in Browsers PROVE Paired(b)'
  BY StillPaired DEF browser, Typed
<1> QED BY <1>1, <1>2, <1>3

-----------------------------------------------------------------------------
(* Asking for a link, pushing, the operator, a restart, the clock.          *)

LEMMA WorldKeepsIInv ==
  ASSUME IInv, Asking,
         \/ \E q \in Requests :
              (\E e \in size.asking : Ask(q, e)) \/ AllowLogin(q) \/ LookUp(q) \/ SendLogin(q) \/ LoginFails(q)
         \/ (\E e \in size.granted : EnsureUser(e)) \/ AdminWorkspace \/ AdminLink \/ AdminFails
         \/ Push \/ Restart \/ Tick
  PROVE  IInv'
<1> USE DEF IInv
<1>1. auth \in [Browsers -> Call] /\ Idle \in Call
  BY DEF Typed, Idle, Call
<1>2. acted' = acted => ActsWhereShown'
  BY DEF ActsWhereShown
<1>3. now \in Nat
  BY DEF Typed
<1>4. ASSUME LinksGrow, WorkspacesGrow, UNCHANGED <<clock, sessions, auth, browser, owned>> PROVE IInv'
  BY <1>1, <1>2, <1>3, <1>4, SessionsStill, ElsewhereKeepsIInv DEF clock, owned
<1>5. CASE \E q \in Requests : (\E e \in size.asking : Ask(q, e)) \/ AllowLogin(q) \/ LookUp(q) \/ LoginFails(q)
  <2>1. UNCHANGED <<links, workspaces>> /\ UNCHANGED <<clock, sessions, auth, browser, owned>>
    BY <1>5 DEF Ask, AllowLogin, LookUp, LoginFails, signin
  <2> QED BY <1>4, <2>1, LinksStill, WorkspacesStill
<1>6. ASSUME NEW q \in Requests, SendLogin(q) PROVE IInv'
  <2>1. /\ CreateLoginToken(asks[q].email, LinkTTL, "login", asks[q].hit) /\ asks[q].pc # "idle"
        /\ UNCHANGED workspaces /\ UNCHANGED <<clock, sessions, auth, browser, owned>>
    BY <1>6 DEF SendLogin, signin
  <2>2. asks[q].email \in Emails /\ asks[q].hit \in Counting
    BY <2>1 DEF Asking, AskedWell
  <2>3. LinksGrow
    BY <2>1, <2>2, LinkMade
  <2> QED BY <1>4, <2>1, <2>3, WorkspacesStill
<1>7. CASE (\E e \in size.granted : EnsureUser(e)) \/ AdminFails
  <2>1. UNCHANGED <<links, workspaces>> /\ UNCHANGED <<clock, sessions, auth, browser, owned>>
    BY <1>7 DEF EnsureUser, AdminFails, login
  <2> QED BY <1>4, <2>1, LinksStill, WorkspacesStill
<1>8. CASE AdminWorkspace
  <2>1. /\ operator.pc # "idle" /\ CreateWorkspace(operator.email, FALSE) /\ UNCHANGED links
        /\ UNCHANGED <<clock, sessions, auth, browser, owned>>
    BY <1>8 DEF AdminWorkspace, login
  <2>2. operator.email \in Emails
    BY <2>1 DEF Asking
  <2> QED BY <1>4, <2>1, <2>2, LinksStill, WorkspaceMade
<1>9. CASE AdminLink
  <2>1. /\ operator.pc # "idle" /\ CreateLoginToken(operator.email, AdminTTL, "admin", Answered.hit)
        /\ UNCHANGED workspaces /\ UNCHANGED <<clock, sessions, auth, browser, owned>>
    BY <1>9 DEF AdminLink
  <2>2. operator.email \in Emails
    BY <2>1 DEF Asking
  <2>3. Answered.hit \in Counting
    BY DEF Answered, Counting
  <2>4. LinksGrow
    BY <2>1, <2>2, <2>3, LinkMade
  <2> QED BY <1>4, <2>1, <2>4, WorkspacesStill
<1>10. CASE Push
  BY <1>1, <1>2, <1>3, <1>10, LinksStill, WorkspacesStill, SessionsStill, ElsewhereKeepsIInv
  DEF Push, clock, login, signin, browser
<1>11. CASE Restart
  BY <1>1, <1>2, <1>3, <1>11, LinksStill, WorkspacesStill, SessionsStill, ElsewhereKeepsIInv
  DEF Restart, browser, owned
<1>12. CASE Tick
  BY <1>1, <1>2, <1>3, <1>12, LinksStill, WorkspacesStill, SessionsStill, ElsewhereKeepsIInv
  DEF Tick, login, signin, browser, owned
<1> QED BY <1>5, <1>6, <1>7, <1>8, <1>9, <1>10, <1>11, <1>12

-----------------------------------------------------------------------------
(* Pressing the button of a link.                                          *)

LEMMA ConsumeKeepsIInv ==
  ASSUME IInv, NEW b \in Browsers, NEW l \in DOMAIN links, Consume(b, l)
  PROVE  IInv'
<1> USE DEF IInv, Consume, NextCall
<1> DEFINE burnt == [links[l] EXCEPT !.used = TRUE]
           call == [pc |-> "list", link |-> l, user |-> links[l].email, ws |-> 0]
<1>1. links[l] \in LinkRow /\ l \in Nat
  BY Element, LenProperties DEF Typed
<1>2. burnt \in LinkRow /\ burnt.email = links[l].email /\ burnt.used
  BY <1>1 DEF LinkRow
<1>3. call \in Call
  BY <1>1 DEF Call, LinkRow
<1>4. links' = [links EXCEPT ![l] = burnt] /\ auth' = [auth EXCEPT ![b] = call]
  OBVIOUS
<1>5. call.pc = "list" /\ call.link = l /\ call.user = links[l].email
  OBVIOUS
<1> HIDE DEF burnt, call, Consume, NextCall
<1>6. LinksGrow /\ links'[l] = burnt /\ DOMAIN links' = DOMAIN links
  <2>1. links \in Seq(LinkRow)
    BY DEF Typed
  <2>2. /\ links' \in Seq(LinkRow) /\ DOMAIN links' = DOMAIN links
        /\ \A j \in DOMAIN links : links'[j] = IF j = l THEN burnt ELSE links[j]
    BY <1>2, <1>4, <2>1, Updated
  <2> QED BY <1>2, <2>2 DEF LinksGrow
<1>7. Typed'
  BY <1>3, <1>4, <1>6 DEF Consume, Typed, LinksGrow, clock, browser, owned
<1>8. WorkspacesGrow /\ SessionsStay
  BY WorkspacesStill, SessionsStill DEF Consume
<1>9. /\ auth'[b] = call /\ \A c \in Browsers : c # b => auth'[c] = auth[c]
  BY <1>4 DEF Typed
<1>10. \A s \in DOMAIN sessions : sessions[s].link # l
  BY DEF SignIn, Founded, Consume, Consumable
<1>11. \A c \in Browsers : auth[c].pc # "idle" => auth[c].link # l
  BY DEF SignIn, InHand, Consume, Consumable
<1>12. Founded' /\ SignsInOnce'
  <2>1. \A s \in DOMAIN sessions : links'[sessions[s].link].email = links[sessions[s].link].email
    BY <1>6 DEF SignIn, Founded, LinksGrow
  <2> QED BY <1>6, <2>1 DEF Consume, SignIn, Founded, SignsInOnce, LinksGrow
<1>13. InHand(b)'
  BY <1>2, <1>5, <1>6, <1>9, <1>10, <1>11 DEF Consume, InHand
<1>14. ASSUME NEW c \in Browsers, c # b PROVE InHand(c)'
  <2>1. auth'[c] = auth[c] /\ InHand(c)
    BY <1>9, <1>14 DEF SignIn
  <2>2. ASSUME auth[c].pc # "idle", NEW d \in Browsers, d # c, auth'[d].pc # "idle"
        PROVE  auth'[d].link # auth[c].link
    BY <1>5, <1>9, <1>11, <2>1, <2>2 DEF InHand
  <2> QED BY <1>6, <2>1, <2>2 DEF Consume, InHand, LinksGrow
<1>15. ASSUME NEW c \in Browsers PROVE Paired(c)'
  <2>1. Typed /\ Paired(c) /\ forms \in Nat
    BY DEF Typed
  <2>2. UNCHANGED <<jar, page, forms>>
    BY DEF Consume, browser
  <2> QED BY <1>8, <2>1, <2>2, StillPaired
<1>16. ActsWhereShown'
  BY DEF Consume, ActsWhereShown, owned
<1> QED BY <1>7, <1>12, <1>13, <1>14, <1>15, <1>16 DEF SignIn

\* A request goes on with its link and its person, or ends.
LEMMA GoesOnKeepsIInv ==
  ASSUME IInv, NEW b \in Browsers, NEW call \in Call, NextCall(b, call), auth[b].pc # "idle",
         \/ call = Idle
         \/ /\ call.link = auth[b].link /\ call.user = auth[b].user
            /\ call.pc = "session" =>
                 call.ws \in DOMAIN workspaces' /\ workspaces'[call.ws].owner = call.user,
         LinksGrow, WorkspacesGrow, SessionsStay, UNCHANGED <<size, now, browser, acted>>
  PROVE  IInv'
<1> USE DEF IInv
<1>0. Idle.pc = "idle"
  BY DEF Idle
<1>1. auth'[b] = call /\ \A c \in Browsers : c # b => auth'[c] = auth[c]
  BY DEF Typed, NextCall
<1>2. Typed'
  BY DEF Typed, NextCall, LinksGrow, WorkspacesGrow, SessionsStay, browser
<1>3. Founded' /\ SignsInOnce'
  BY StillOnce DEF SignIn
<1>4. ASSUME NEW c \in Browsers, auth'[c].pc # "idle" PROVE InHand(c)'
  <2>1. auth[c].pc # "idle" /\ auth'[c].link = auth[c].link /\ auth'[c].user = auth[c].user
    BY <1>0, <1>1, <1>4
  <2>2. InHand(c)
    BY DEF SignIn
  <2>3. ASSUME NEW d \in Browsers, d # c, auth'[d].pc # "idle" PROVE auth'[d].link # auth'[c].link
    <3>1. auth[d].pc # "idle" /\ auth'[d].link = auth[d].link
      BY <1>0, <1>1, <2>3
    <3> QED BY <2>1, <2>2, <2>3, <3>1 DEF InHand
  <2>4. auth'[c].pc = "session" =>
          auth'[c].ws \in DOMAIN workspaces' /\ workspaces'[auth'[c].ws].owner = auth'[c].user
    <3>1. CASE c = b
      BY <1>0, <1>1, <3>1
    <3>2. CASE c # b
      BY <1>1, <2>1, <2>2, <3>2 DEF InHand, WorkspacesGrow
    <3> QED BY <3>1, <3>2
  <2> QED BY <2>1, <2>2, <2>3, <2>4 DEF InHand, LinksGrow, SessionsStay
<1>5. \A c \in Browsers : InHand(c)'
  BY <1>4 DEF InHand
<1>6. \A c \in Browsers : Paired(c)'
  BY StillPaired DEF browser, Typed
<1>7. ActsWhereShown'
  BY DEF ActsWhereShown
<1> QED BY <1>2, <1>3, <1>5, <1>6, <1>7 DEF SignIn

LEMMA CallKeepsIInv ==
  ASSUME IInv, NEW b \in Browsers, ListWorkspaces(b) \/ CreateWorkspaceFor(b) \/ AuthFails(b)
  PROVE  IInv'
<1> USE DEF IInv
<1>1. auth[b] \in Call /\ Idle \in Call
  BY DEF Typed, Idle, Call
<1>2. CASE ListWorkspaces(b)
  <2> DEFINE mine == WorkspacesForUser(auth[b].user)
             found == [auth[b] EXCEPT !.pc = "session", !.ws = Oldest(mine)]
             create == [auth[b] EXCEPT !.pc = "create"]
  <2>1. mine \subseteq Nat /\ \A w \in mine : w \in DOMAIN workspaces /\ workspaces[w].owner = auth[b].user
    BY LenProperties DEF Typed, WorkspacesForUser
  <2>2. CASE mine # {} /\ NextCall(b, found)
    <3>1. Oldest(mine) \in mine
      BY <2>1, <2>2, OldestIs
    <3>2. Oldest(mine) \in Nat
      BY <2>1, <3>1
    <3>3. found \in Call /\ found.link = auth[b].link /\ found.user = auth[b].user /\ found.ws = Oldest(mine)
      BY <1>1, <3>2 DEF Call
    <3>4. /\ auth[b].pc # "idle" /\ UNCHANGED <<size, now, browser, acted>>
          /\ UNCHANGED <<links, workspaces, sessions>>
      BY <1>2 DEF ListWorkspaces, clock, login, owned
    <3> HIDE DEF found
    <3> QED BY <2>1, <2>2, <3>1, <3>3, <3>4, GoesOnKeepsIInv, LinksStill, WorkspacesStill, SessionsStill
  <2>3. CASE NextCall(b, create) \/ NextCall(b, Idle)
    <3>1. create \in Call /\ create.link = auth[b].link /\ create.user = auth[b].user /\ create.pc = "create"
      BY <1>1 DEF Call
    <3>2. /\ auth[b].pc # "idle" /\ UNCHANGED <<size, now, browser, acted>>
          /\ UNCHANGED <<links, workspaces, sessions>>
      BY <1>2 DEF ListWorkspaces, clock, login, owned
    <3> HIDE DEF create
    <3> QED BY <1>1, <2>3, <3>1, <3>2, GoesOnKeepsIInv, LinksStill, WorkspacesStill, SessionsStill
  <2> QED BY <1>2, <2>2, <2>3 DEF ListWorkspaces
<1>3. CASE CreateWorkspaceFor(b)
  <2> DEFINE made == [auth[b] EXCEPT !.pc = "session", !.ws = Len(workspaces) + 1]
  <2>1. InHand(b) /\ auth[b].pc = "create"
    BY <1>3 DEF CreateWorkspaceFor, SignIn
  <2>2. auth[b].user \in Emails
    <3>1. auth[b].link \in DOMAIN links /\ auth[b].user = links[auth[b].link].email
      BY <2>1 DEF InHand
    <3>2. links[auth[b].link] \in LinkRow
      BY <3>1, Element DEF Typed
    <3> QED BY <3>1, <3>2 DEF LinkRow
  <2>3. /\ WorkspacesGrow /\ Len(workspaces) + 1 \in DOMAIN workspaces'
        /\ workspaces'[Len(workspaces) + 1].owner = auth[b].user /\ Len(workspaces) + 1 \in Nat
    BY <1>3, <2>2, WorkspaceMade DEF CreateWorkspaceFor
  <2>4. made \in Call /\ made.link = auth[b].link /\ made.user = auth[b].user /\ made.ws = Len(workspaces) + 1
    BY <1>1, <2>3 DEF Call
  <2>5. /\ NextCall(b, made) /\ UNCHANGED <<size, now, browser, acted>>
        /\ UNCHANGED <<links, sessions>>
    BY <1>3 DEF CreateWorkspaceFor, clock, login, owned
  <2> HIDE DEF made
  <2> QED BY <2>1, <2>3, <2>4, <2>5, GoesOnKeepsIInv, LinksStill, SessionsStill
<1>4. CASE AuthFails(b)
  BY <1>1, <1>4, GoesOnKeepsIInv, LinksStill, WorkspacesStill, SessionsStill
  DEF AuthFails, clock, login, owned
<1> QED BY <1>2, <1>3, <1>4

LEMMA SessionKeepsIInv == ASSUME IInv, NEW b \in Browsers, CreateSession(b) PROVE IInv'
<1> USE DEF IInv
<1> DEFINE new == Len(sessions) + 1
           row == [user |-> auth[b].user, ws |-> auth[b].ws, link |-> auth[b].link,
                   until |-> now + SessionTTL, open |-> TRUE]
<1>1. /\ auth[b].pc = "session" /\ auth[b].pc # "idle" /\ InHand(b) /\ auth[b] \in Call
      /\ UNCHANGED <<size, now, links, workspaces, page, acted>>
      /\ auth' = [auth EXCEPT ![b] = Idle] /\ forms' = forms + 1
      /\ jar' = [jar EXCEPT ![b] = NewCookies(b)]
  BY DEF CreateSession, NextCall, SignIn, Typed, clock, login, owned
<1>2. row \in Session
  <2>1. links[auth[b].link] \in LinkRow
    BY <1>1, Element DEF InHand, Typed
  <2>2. auth[b].user \in Emails
    BY <1>1, <2>1 DEF InHand, LinkRow
  <2>3. now + SessionTTL \in Nat
    <3>1. now \in Nat /\ SessionTTL \in Nat
      BY AccountsAssumption DEF Typed
    <3> QED BY <3>1
  <2>4. auth[b].ws \in Nat /\ auth[b].link \in Nat
    BY <1>1 DEF Call
  <2> QED BY <2>2, <2>3, <2>4 DEF Session
<1>3. /\ row.user = auth[b].user /\ row.ws = auth[b].ws /\ row.link = auth[b].link
      /\ sessions' = Append(sessions, row)
  BY DEF CreateSession
<1> HIDE DEF row
<1>4. /\ Len(sessions) \in Nat /\ new \notin DOMAIN sessions /\ DOMAIN sessions = 1 .. Len(sessions)
      /\ sessions' \in Seq(Session) /\ Len(sessions') = new /\ DOMAIN sessions' = DOMAIN sessions \cup {new}
      /\ sessions'[new] = row /\ \A s \in DOMAIN sessions : sessions'[s] = sessions[s]
  BY <1>2, <1>3, Appended DEF Typed
<1>5. Idle \in Call /\ Idle.pc = "idle"
  BY DEF Idle, Call
<1>6. /\ jar'[b].session = new /\ jar'[b].csrf = forms + 1 /\ forms \in Nat
      /\ \A c \in Browsers : c # b => jar'[c] = jar[c]
      /\ jar' \in [Browsers -> [session : Nat, csrf : Nat]]
  BY <1>1, <1>4 DEF Typed, NewCookies
<1>7. /\ auth'[b].pc = "idle" /\ \A c \in Browsers : c # b => auth'[c] = auth[c]
      /\ auth' \in [Browsers -> Call]
  BY <1>1, <1>5 DEF Typed
<1>8. Typed'
  BY <1>1, <1>4, <1>6, <1>7 DEF Typed
<1>9. Founded'
  <2>1. auth[b].link \in DOMAIN links /\ links[auth[b].link].used /\ auth[b].ws \in DOMAIN workspaces
    BY <1>1 DEF InHand
  <2> QED BY <1>1, <1>3, <1>4, <2>1 DEF SignIn, Founded
<1>10. SignsInOnce'
  <2>1. /\ auth[b].user = links[auth[b].link].email /\ workspaces[auth[b].ws].owner = auth[b].user
        /\ \A s \in DOMAIN sessions : sessions[s].link # auth[b].link
    BY <1>1 DEF InHand
  <2>2. ASSUME NEW s \in DOMAIN sessions', NEW t \in DOMAIN sessions', sessions'[s].link = sessions'[t].link
        PROVE  s = t
    BY <1>3, <1>4, <2>1, <2>2 DEF SignIn, SignsInOnce
  <2>3. ASSUME NEW s \in DOMAIN sessions'
        PROVE  /\ sessions'[s].user = links[sessions'[s].link].email
               /\ workspaces[sessions'[s].ws].owner = sessions'[s].user
    BY <1>3, <1>4, <2>1, <2>3 DEF SignIn, SignsInOnce
  <2> QED BY <1>1, <2>2, <2>3 DEF SignsInOnce
<1>11. ASSUME NEW c \in Browsers, auth'[c].pc # "idle" PROVE InHand(c)'
  <2>1. c # b /\ auth'[c] = auth[c] /\ InHand(c)
    BY <1>7, <1>11 DEF SignIn
  <2>2. auth[c].link # auth[b].link
    BY <1>1, <1>11, <2>1 DEF InHand
  <2>3. \A s \in DOMAIN sessions' : sessions'[s].link # auth[c].link
    BY <1>3, <1>4, <1>11, <2>1, <2>2 DEF InHand
  <2>4. \A d \in Browsers : d # c /\ auth'[d].pc # "idle" => auth'[d].link # auth[c].link
    BY <1>7, <1>11, <2>1 DEF InHand
  <2> QED BY <1>1, <1>11, <2>1, <2>3, <2>4 DEF InHand
<1>12. \A c \in Browsers : InHand(c)'
  BY <1>11 DEF InHand
<1>13. ASSUME NEW c \in Browsers PROVE Paired(c)'
  <2>1. /\ Paired(c) /\ page'[c] = page[c] /\ jar[c].session \in Nat /\ page[c].csrf \in Nat
        /\ jar[c].csrf \in Nat
    BY <1>1 DEF Typed
  <2>2. CASE c = b
    BY <1>1, <1>4, <1>6, <2>1, <2>2 DEF Paired
  <2>3. CASE c # b
    <3>1. jar'[c] = jar[c] /\ (jar[c].session # 0 => jar[c].session \in DOMAIN sessions)
      BY <1>4, <1>6, <2>1, <2>3 DEF Paired
    <3> QED BY <1>1, <1>4, <1>6, <2>1, <3>1 DEF Paired
  <2> QED BY <2>2, <2>3
<1>14. ActsWhereShown'
  BY <1>1 DEF ActsWhereShown
<1> QED BY <1>8, <1>9, <1>10, <1>12, <1>13, <1>14 DEF SignIn

-----------------------------------------------------------------------------
(* Pages and forms.                                                        *)

\* A step of one signed-in browser, whose cookies and page stay paired.
LEMMA BrowserKeepsIInv ==
  ASSUME IInv, NEW b \in Browsers, SessionsStay, WorkspacesGrow, UNCHANGED <<size, now, links, auth>>,
         jar' \in [Browsers -> [session : Nat, csrf : Nat]], page' \in [Browsers -> [csrf : Nat, ws : Nat]],
         forms' \in Nat, forms <= forms', Paired(b)', ActsWhereShown',
         \A c \in Browsers : c # b => jar'[c] = jar[c] /\ page'[c] = page[c]
  PROVE  IInv'
<1> USE DEF IInv
<1>1. Typed'
  BY DEF Typed, SessionsStay, WorkspacesGrow
<1>2. SignIn'
  BY LinksStill, GrowthKeepsSignIn
<1>3. \A c \in Browsers : Paired(c)'
  BY StillPaired
<1> QED BY <1>1, <1>2, <1>3

\* The workspace of a session that is signed in is a number.
LEMMA SessionOf ==
  ASSUME IInv, NEW b \in Browsers, jar[b].session # 0
  PROVE  jar[b].session \in DOMAIN sessions /\ WS(b) \in Nat /\ WS(b) = sessions[jar[b].session].ws
<1>1. Len(sessions) \in Nat /\ DOMAIN sessions = 1 .. Len(sessions)
  BY LenProperties DEF IInv, Typed
<1>2. jar[b].session \in DOMAIN sessions
  BY <1>1 DEF IInv, Paired
<1>3. sessions[jar[b].session] \in Session
  BY <1>2, Element DEF IInv, Typed
<1> QED BY <1>2, <1>3 DEF WS, Session

LEMMA MintedPairs ==
  ASSUME IInv, NEW b \in Browsers, Minted(b)
  PROVE  /\ jar' \in [Browsers -> [session : Nat, csrf : Nat]] /\ forms' \in Nat /\ forms <= forms'
         /\ \A c \in Browsers : c # b => jar'[c] = jar[c]
         /\ jar'[b].session = jar[b].session /\ jar'[b].csrf = Csrf(b) /\ Csrf(b) \in Nat /\ Csrf(b) <= forms'
         /\ jar[b].csrf = 0 => Csrf(b) = forms + 1
         /\ jar[b].csrf # 0 => Csrf(b) = jar[b].csrf
<1>1. /\ jar \in [Browsers -> [session : Nat, csrf : Nat]] /\ forms \in Nat /\ jar[b].csrf <= forms
      /\ jar[b].csrf \in Nat
  BY DEF IInv, Typed, Paired
<1>2. /\ Csrf(b) \in Nat /\ (jar[b].csrf = 0 => Csrf(b) = forms + 1)
      /\ (jar[b].csrf # 0 => Csrf(b) = jar[b].csrf)
  BY <1>1 DEF Csrf
<1> QED BY <1>1, <1>2 DEF Minted

LEMMA PageKeepsIInv ==
  ASSUME IInv, NEW b \in Browsers, Get(b) \/ Refused(b) \/ Logout(b) \/ DropCookie(b)
  PROVE  IInv'
<1> USE DEF IInv
<1>0. /\ Typed /\ Paired(b) /\ jar[b].session \in Nat /\ jar[b].csrf \in Nat /\ page[b].csrf \in Nat
      /\ Len(sessions) \in Nat
  BY LenProperties DEF Typed
<1>1. UNCHANGED acted => ActsWhereShown'
  BY DEF ActsWhereShown
<1>2. CASE Get(b)
  <2>1. /\ SignedIn(b) /\ Minted(b) /\ page' = [page EXCEPT ![b] = [csrf |-> Csrf(b), ws |-> WS(b)]]
        /\ UNCHANGED <<size, now, links, workspaces, sessions, auth, acted>>
    BY <1>2 DEF Get, clock, login, signin, owned
  <2>2. jar[b].session # 0
    BY <2>1 DEF SignedIn
  <2>3. page' \in [Browsers -> [csrf : Nat, ws : Nat]] /\ page'[b] = [csrf |-> Csrf(b), ws |-> WS(b)]
        /\ \A c \in Browsers : c # b => page'[c] = page[c]
    BY <1>0, <2>1, <2>2, SessionOf, MintedPairs DEF Typed
  <2>4. Paired(b)'
    BY <1>0, <2>1, <2>2, <2>3, SessionOf, MintedPairs DEF Paired
  <2> QED BY <1>0, <1>1, <2>1, <2>3, <2>4, MintedPairs, WorkspacesStill, SessionsStill, BrowserKeepsIInv
<1>3. CASE Refused(b)
  <2>1. Minted(b) /\ UNCHANGED <<size, now, links, workspaces, sessions, auth, page, acted>>
    BY <1>3 DEF Refused, clock, login, signin, owned
  <2>2. forms \in Nat
    BY <1>0 DEF Typed
  <2>3. Paired(b)'
    BY <1>0, <2>1, <2>2, MintedPairs DEF Paired
  <2> QED
    BY <1>0, <1>1, <2>1, <2>3, MintedPairs, WorkspacesStill, SessionsStill, BrowserKeepsIInv DEF Typed
<1>4. CASE Logout(b)
  <2>1. /\ jar' = [jar EXCEPT ![b] = [session |-> 0, csrf |-> 0]]
        /\ UNCHANGED <<size, now, links, workspaces, auth, page, forms, acted>>
        /\ SignedIn(b)
    BY <1>4 DEF Logout, clock, login, owned
  <2>2. SessionsStay
    <3>1. CASE UNCHANGED sessions
      BY <1>0, <3>1, SessionsStill
    <3>2. CASE sessions' = [sessions EXCEPT ![jar[b].session].open = FALSE]
      <4> DEFINE i == jar[b].session
                 closed == [sessions[i] EXCEPT !.open = FALSE]
      <4>1. i \in DOMAIN sessions
        BY <2>1, SessionOf DEF SignedIn
      <4>2. sessions[i] \in Session
        BY <1>0, <4>1, Element DEF Typed
      <4>3. /\ closed \in Session /\ closed.user = sessions[i].user /\ closed.ws = sessions[i].ws
            /\ closed.link = sessions[i].link
        BY <4>2 DEF Session
      <4>4. sessions' = [sessions EXCEPT ![i] = closed] /\ sessions \in Seq(Session)
        BY <1>0, <3>2 DEF Typed
      <4> HIDE DEF closed, i
      <4> QED BY <4>1, <4>3, <4>4, Updated DEF SessionsStay
    <3> QED BY <1>4, <3>1, <3>2 DEF Logout
  <2>3. /\ jar' \in [Browsers -> [session : Nat, csrf : Nat]] /\ jar'[b].session = 0 /\ jar'[b].csrf = 0
        /\ \A c \in Browsers : c # b => jar'[c] = jar[c]
    BY <1>0, <2>1 DEF Typed
  <2>4. forms \in Nat /\ Len(sessions') \in Nat
    BY <1>0, <2>2 DEF Typed, SessionsStay
  <2>5. Paired(b)'
    BY <1>0, <2>1, <2>3, <2>4 DEF Paired
  <2>6. forms' \in Nat /\ forms <= forms' /\ page' \in [Browsers -> [csrf : Nat, ws : Nat]]
    BY <1>0, <2>1, <2>4 DEF Typed
  <2> QED
    BY <1>0, <1>1, <2>1, <2>2, <2>3, <2>5, <2>6, WorkspacesStill, BrowserKeepsIInv
<1>5. CASE DropCookie(b)
  <2>1. /\ jar' = [jar EXCEPT ![b].csrf = 0]
        /\ UNCHANGED <<size, now, links, workspaces, sessions, auth, page, forms, acted>>
    BY <1>5 DEF DropCookie, clock, login, signin, owned
  <2>2. /\ jar' \in [Browsers -> [session : Nat, csrf : Nat]]
        /\ jar'[b].session = jar[b].session /\ jar'[b].csrf = 0
        /\ \A c \in Browsers : c # b => jar'[c] = jar[c]
    BY <1>0, <2>1 DEF Typed
  <2>3. forms \in Nat
    BY <1>0 DEF Typed
  <2>4. Paired(b)'
    BY <1>0, <2>1, <2>2, <2>3 DEF Paired
  <2>5. forms' \in Nat /\ forms <= forms' /\ page' \in [Browsers -> [csrf : Nat, ws : Nat]]
    BY <1>0, <2>1, <2>3 DEF Typed
  <2> QED
    BY <1>0, <1>1, <2>1, <2>2, <2>4, <2>5, WorkspacesStill, SessionsStill, BrowserKeepsIInv
<1> QED BY <1>2, <1>3, <1>4, <1>5

\* A form that is let through was shown in the session that sends it.
LEMMA ActsKeepIInv ==
  ASSUME IInv, NEW b \in Browsers, NEW w, w = WS(b), Acts(b, w), WorkspacesGrow
  PROVE  IInv'
<1> USE DEF IInv
<1>1. /\ SignedIn(b) /\ CheckCSRF(b) /\ UNCHANGED <<size, now, links, sessions, auth, jar, page, forms>>
      /\ acted' = acted \cup {[shown |-> page[b].ws, in |-> WS(b), of |-> w]}
  BY DEF Acts, clock, login, browser
<1>2. page[b].ws = WS(b)
  BY <1>1 DEF SignedIn, CheckCSRF, Paired, WS
<1>3. ActsWhereShown'
  BY <1>1, <1>2 DEF ActsWhereShown
<1>4. SessionsStay
  BY <1>1, SessionsStill
<1>5. Paired(b)'
  BY <1>1 DEF Paired
<1>6. /\ forms' \in Nat /\ forms <= forms' /\ page' \in [Browsers -> [csrf : Nat, ws : Nat]]
      /\ jar' \in [Browsers -> [session : Nat, csrf : Nat]]
  BY <1>1 DEF Typed
<1> QED BY <1>1, <1>3, <1>4, <1>5, <1>6, BrowserKeepsIInv

LEMMA PostKeepsIInv ==
  ASSUME IInv, NEW b \in Browsers, CreateToken(b) \/ CreateShareLink(b) \/ Revoke(b) \/ Notify(b)
  PROVE  IInv'
<1>0. Typed
  BY DEF IInv
<1>1. CASE CreateToken(b)
  BY <1>0, <1>1, WorkspacesStill, ActsKeepIInv DEF CreateToken
<1>2. CASE CreateShareLink(b)
  <2>1. PICK h \in {0} \cup ScopeHosts(b) : Acts(b, IF h = 0 THEN WS(b) ELSE hosts[h])
    BY <1>2 DEF CreateShareLink
  <2>2. (IF h = 0 THEN WS(b) ELSE hosts[h]) = WS(b)
    BY <2>1 DEF ScopeHosts
  <2> QED BY <1>0, <1>2, <2>1, <2>2, WorkspacesStill, ActsKeepIInv DEF CreateShareLink
<1>3. CASE Revoke(b)
  <2>1. PICK g \in OwnRows(b) : Acts(b, grants[g].ws) /\ UNCHANGED workspaces
    BY <1>3 DEF Revoke
  <2>2. grants[g].ws = WS(b)
    BY DEF OwnRows
  <2> QED BY <1>0, <2>1, <2>2, WorkspacesStill, ActsKeepIInv
<1>4. CASE Notify(b)
  <2>1. PICK url \in BOOLEAN : workspaces' = [workspaces EXCEPT ![WS(b)].hook = url]
    BY <1>4 DEF Notify
  <2>2. SignedIn(b) /\ Acts(b, WS(b))
    BY <1>4 DEF Notify, Acts
  <2>3. WS(b) \in DOMAIN workspaces
    BY <2>2, SessionOf DEF SignedIn, IInv, SignIn, Founded
  <2> DEFINE w == WS(b)
             row == [workspaces[w] EXCEPT !.hook = url]
  <2>4. workspaces[w] \in Workspace
    BY <1>0, <2>3, Element DEF Typed
  <2>5. row \in Workspace /\ row.owner = workspaces[w].owner
    BY <2>4 DEF Workspace
  <2>6. workspaces' = [workspaces EXCEPT ![w] = row] /\ workspaces \in Seq(Workspace)
    BY <1>0, <2>1 DEF Typed
  <2> HIDE DEF row
  <2>7. WorkspacesGrow
    <3> HIDE DEF w
    <3>1. w \in DOMAIN workspaces
      BY <2>3 DEF w
    <3> QED BY <2>5, <2>6, <3>1, Updated DEF WorkspacesGrow
  <2> QED BY <2>2, <2>7, ActsKeepIInv
<1> QED BY <1>1, <1>2, <1>3, <1>4

-----------------------------------------------------------------------------
(* Every step.                                                             *)

LEMMA StutterKeepsIInv == ASSUME IInv, UNCHANGED vars PROVE IInv'
<1>1. UNCHANGED <<size, now, links, workspaces, sessions, auth, jar, page, forms, acted>>
  BY DEF vars, clock, login, signin, browser, owned
<1> QED
  BY <1>1 DEF IInv, Typed, SignIn, Founded, SignsInOnce, InHand, Paired, ActsWhereShown

LEMMA NextIInv == IInv /\ Asking /\ [Next]_vars => IInv'
<1> SUFFICES ASSUME IInv, Asking, Next PROVE IInv'
  BY StutterKeepsIInv
<1>1. size.browsers \subseteq Browsers /\ size.requests \subseteq Requests
  BY AccountsAssumption DEF IInv, Typed
<1>2. CASE \E b \in size.browsers : \E l \in DOMAIN links : Consume(b, l)
  BY <1>1, <1>2, ConsumeKeepsIInv
<1>3. CASE \E b \in size.browsers : ListWorkspaces(b) \/ CreateWorkspaceFor(b) \/ AuthFails(b)
  BY <1>1, <1>3, CallKeepsIInv
<1>4. CASE \E b \in size.browsers : CreateSession(b)
  BY <1>1, <1>4, SessionKeepsIInv
<1>5. CASE \E b \in size.browsers : Get(b) \/ Refused(b) \/ Logout(b) \/ DropCookie(b)
  BY <1>1, <1>5, PageKeepsIInv
<1>6. CASE \E b \in size.browsers : CreateToken(b) \/ CreateShareLink(b) \/ Revoke(b) \/ Notify(b)
  BY <1>1, <1>6, PostKeepsIInv
<1> QED BY <1>1, <1>2, <1>3, <1>4, <1>5, <1>6, WorldKeepsIInv DEF Next

-----------------------------------------------------------------------------
(* The limiter.                                                            *)

\* Requests of an address that are told apart leave a number for one more.
LEMMA FreeNumber ==
  ASSUME NEW H, H \subseteq Counting, IsFiniteSet(H), Cardinality(H) < Limit
  PROVE  \E n \in 1..Limit : \A h \in H : h.n # n
<1> DEFINE N == {h.n : h \in H}
<1>1. Limit \in Nat /\ Cardinality(H) \in Nat
  BY FS_CardinalityType, AccountsAssumption
<1>2. IsFiniteSet(N) /\ Cardinality(N) <= Cardinality(H) /\ Cardinality(N) \in Nat
  <2>1. N \subseteq Nat /\ [h \in H |-> h.n] \in Surjection(H, N)
    BY DEF Counting, Surjection
  <2> QED BY <2>1, FS_Surjection, FS_CardinalityType
<1>3. IsFiniteSet(1..Limit) /\ Cardinality(1..Limit) = Limit
  BY <1>1, FS_Interval
<1>4. ~(1..Limit \subseteq N)
  BY <1>1, <1>2, <1>3, FS_Subset
<1> QED BY <1>4

\* What is remembered and recent.
Fresh(h) == now < h.at + Window

\* allowLogin: what is recent stays remembered, whatever is forgotten, and the
\* request it counts is told apart from the recent ones.
LEMMA Allowed ==
  ASSUME Asking, NEW q \in Requests, AllowLogin(q)
  PROVE  /\ UNCHANGED <<size, now, operator, links, boot>>
         /\ \A e \in DOMAIN hits' : FewRemembered(e)'
         /\ \A e \in DOMAIN hits : \A h \in hits[e] : Fresh(h) => e \in DOMAIN hits' /\ h \in hits'[e]
         /\ asks[q].pc # "idle"
         /\ \/ NextAsk(q, Answered)
            \/ \E c \in Counting, pc \in {"lookup", "send"} :
                 /\ c.at = asks[q].hit.at /\ asks[q].email \in DOMAIN hits' /\ c \in hits'[asks[q].email]
                 /\ c \notin HitsOf(asks[q].email, c.at)
                 /\ NextAsk(q, [pc |-> pc, email |-> asks[q].email, hit |-> c])
<1> DEFINE e == asks[q].email
           at == asks[q].hit.at
           H == HitsOf(e, at)
           c == Hit(e, at)
<1>1. asks[q].pc = "limiter" /\ UNCHANGED <<size, now, operator, links, boot>>
  BY DEF AllowLogin, clock, signin
<1>2. e \in Emails /\ at \in Nat /\ at <= now /\ now \in Nat /\ Window \in Nat /\ Limit \in Nat
  <2>1. asks[q].hit \in Counting /\ asks[q].hit.at <= now /\ e \in Emails
    BY <1>1 DEF Asking, AskedWell
  <2> QED BY <2>1, AccountsAssumption DEF Asking, Counting
<1>3. \A d \in DOMAIN hits : \A h \in hits[d] : h.at \in Nat /\ (Fresh(h) => h \in RecentHits(hits[d], at))
  <2>1. ASSUME NEW d \in DOMAIN hits, NEW h \in hits[d] PROVE h.at \in Nat
    BY DEF Asking, FewRemembered, Counting
  <2> QED BY <1>2, <2>1 DEF Fresh, RecentHits
<1>4. H \subseteq Counting /\ IsFiniteSet(H) /\ Cardinality(H) \in Nat /\ Cardinality(H) <= Limit
  <2>1. CASE e \in DOMAIN hits
    <3>1. FewRemembered(e) /\ H \in SUBSET hits[e]
      BY <2>1 DEF Asking, HitsOf, RecentHits
    <3>2. IsFiniteSet(H) /\ Cardinality(H) \in Nat /\ Cardinality(hits[e]) \in Nat
          /\ Cardinality(H) <= Cardinality(hits[e])
      BY <3>1, FS_Subset, FS_CardinalityType DEF FewRemembered
    <3> HIDE DEF H, e
    <3> QED BY <1>2, <3>1, <3>2 DEF FewRemembered
  <2>2. CASE e \notin DOMAIN hits
    <3>1. H = {}
      BY <2>2 DEF HitsOf
    <3> QED BY <1>2, <3>1, FS_EmptySet
  <2> QED BY <2>1, <2>2
<1>5. ASSUME Cardinality(H) < Limit
      PROVE  /\ c \in Counting /\ c.at = at /\ c \notin H /\ IsFiniteSet(H \cup {c})
             /\ Cardinality(H \cup {c}) <= Limit
  <2>1. \E n \in 1..Limit : \A h \in H : h.n # n
    BY <1>4, <1>5, FreeNumber
  <2>2. c = [at |-> at, n |-> CHOOSE n \in 1..Limit : \A h \in H : h.n # n]
    BY DEF Hit
  <2>3. PICK n \in 1..Limit : c = [at |-> at, n |-> n] /\ \A h \in H : h.n # n
    <3> HIDE DEF H, c, at
    <3> QED BY <2>1, <2>2
  <2>4. c \in Counting /\ c.at = at /\ c.n = n
    <3> HIDE DEF c, at, H
    <3>1. at \in Nat
      BY <1>2 DEF at
    <3> QED BY <1>2, <2>3, <3>1 DEF Counting
  <2> HIDE DEF H, c, at
  <2>5. c \notin H
    BY <2>3, <2>4
  <2>6. IsFiniteSet(H \cup {c}) /\ Cardinality(H \cup {c}) = Cardinality(H) + 1
    BY <1>4, <2>5, FS_AddElement
  <2> QED BY <1>2, <1>4, <1>5, <2>4, <2>5, <2>6
<1>6. Tracked(at) \subseteq DOMAIN hits
  BY DEF Tracked
<1>7. \A d \in DOMAIN hits : \A h \in hits[d] : Fresh(h) => d \in Tracked(at)
  BY <1>3 DEF Tracked
<1>8. \A h : e \in DOMAIN hits /\ h \in hits[e] /\ Fresh(h) => h \in H
  BY <1>3 DEF HitsOf
<1>9. CASE hits' = [x \in Tracked(at) |-> hits[x]] /\ NextAsk(q, Answered)
  <2>1. DOMAIN hits' = Tracked(at) /\ \A d \in Tracked(at) : hits'[d] = hits[d]
    BY <1>9
  <2>2. \A d \in DOMAIN hits' : FewRemembered(d)'
    BY <1>6, <2>1 DEF Asking, FewRemembered
  <2>3. \A d \in DOMAIN hits : \A h \in hits[d] : Fresh(h) => d \in DOMAIN hits' /\ h \in hits'[d]
    BY <1>7, <2>1
  <2> QED BY <1>1, <1>9, <2>2, <2>3
<1>10. ASSUME NEW ts, SetHits(e, at, ts), H \subseteq ts, ts \subseteq Counting, IsFiniteSet(ts),
              Cardinality(ts) <= Limit
       PROVE  /\ \A d \in DOMAIN hits' : FewRemembered(d)'
              /\ \A d \in DOMAIN hits : \A h \in hits[d] : Fresh(h) => d \in DOMAIN hits' /\ h \in hits'[d]
              /\ e \in DOMAIN hits' /\ hits'[e] = ts
  <2>1. /\ DOMAIN hits' = Tracked(at) \cup {e} /\ hits'[e] = ts
        /\ \A d \in Tracked(at) : d # e => hits'[d] = hits[d]
    BY <1>10 DEF SetHits
  <2> HIDE DEF e, at, H
  <2>2. \A d \in DOMAIN hits' : FewRemembered(d)'
    BY <1>6, <1>10, <2>1 DEF Asking, FewRemembered
  <2>3. \A d \in DOMAIN hits : \A h \in hits[d] : Fresh(h) => d \in DOMAIN hits' /\ h \in hits'[d]
    BY <1>7, <1>8, <1>10, <2>1
  <2> QED BY <2>1, <2>2, <2>3
<1>11. CASE SetHits(e, at, H) /\ NextAsk(q, Answered)
  <2> HIDE DEF e, at, H
  <2> QED BY <1>1, <1>4, <1>10, <1>11
<1>12. CASE /\ Cardinality(H) < Limit /\ SetHits(e, at, H \cup {c})
            /\ NextAsk(q, [pc |-> IF signup THEN "send" ELSE "lookup", email |-> e, hit |-> c])
  <2>1. PICK pc \in {"lookup", "send"} : NextAsk(q, [pc |-> pc, email |-> e, hit |-> c])
    <3> HIDE DEF e, at, c
    <3> QED BY <1>12
  <2>2. /\ \A d \in DOMAIN hits' : FewRemembered(d)'
        /\ \A d \in DOMAIN hits : \A h \in hits[d] : Fresh(h) => d \in DOMAIN hits' /\ h \in hits'[d]
        /\ e \in DOMAIN hits' /\ c \in hits'[e] /\ c \in Counting /\ c.at = at /\ c \notin H
    <3> HIDE DEF e, at, H, c
    <3> QED BY <1>4, <1>5, <1>10, <1>12
  <2>3. c \notin HitsOf(e, c.at)
    <3> HIDE DEF c, e, at
    <3> QED BY <2>2 DEF H
  <2> HIDE DEF c, at, H
  <2> QED BY <1>1, <2>1, <2>2, <2>3 DEF at
<1> QED BY <1>9, <1>11, <1>12 DEF AllowLogin

LEMMA InitAsking == Init => Asking
<1> SUFFICES ASSUME Init PROVE Asking
  OBVIOUS
<1>1. size \in Sizes /\ now \in Nat /\ DOMAIN asks = Requests /\ DOMAIN hits = {}
  BY DEF Init
<1>2. \A q \in Requests : asks[q].pc = "idle"
  BY DEF Init, Answered
<1>3. operator.pc = "idle"
  BY DEF Init, Done
<1> QED BY <1>1, <1>2, <1>3 DEF Asking, AskedWell

\* A request that goes on with its address and time, or is answered.
LEMMA NextAskKeeps ==
  ASSUME Asking, NEW q \in Requests, NEW a, NextAsk(q, a),
         a.pc # "idle" => a.email \in Emails /\ a.hit \in Counting /\ a.hit.at <= now,
         UNCHANGED <<size, now, operator>>, \A e \in DOMAIN hits' : FewRemembered(e)'
  PROVE  Asking'
<1>1. DOMAIN asks' = Requests /\ asks'[q] = a /\ \A p \in Requests : p # q => asks'[p] = asks[p]
  BY DEF NextAsk, Asking
<1>2. \A p \in Requests : AskedWell(p)'
  BY <1>1 DEF Asking, AskedWell
<1> QED BY <1>1, <1>2 DEF Asking

\* The steps of everybody else.
LEMMA ElsewhereKeepsAsking ==
  ASSUME Asking, UNCHANGED <<size, limiter, operator>>, now' \in Nat, now <= now'
  PROVE  Asking'
<1>1. UNCHANGED <<asks, hits>>
  BY DEF limiter
<1>2. ASSUME NEW q \in Requests PROVE AskedWell(q)'
  <2>1. asks[q].hit \in Counting => asks[q].hit.at \in Nat
    BY DEF Counting
  <2> QED BY <1>1, <2>1 DEF Asking, AskedWell
<1>3. ASSUME NEW e \in DOMAIN hits' PROVE FewRemembered(e)'
  BY <1>1 DEF Asking, FewRemembered
<1> QED BY <1>1, <1>2, <1>3 DEF Asking

LEMMA NextAsking == Asking /\ [Next]_vars => Asking'
<1> SUFFICES ASSUME Asking, [Next]_vars PROVE Asking'
  OBVIOUS
<1>0. /\ now \in Nat /\ Answered.pc = "idle" /\ Done.pc = "idle" /\ size.requests \subseteq Requests
      /\ \A e \in size.asking \cup size.granted : e \in Emails
  BY AccountsAssumption DEF Asking, Answered, Done
<1>1. ASSUME UNCHANGED hits PROVE \A e \in DOMAIN hits' : FewRemembered(e)'
  BY <1>1 DEF Asking, FewRemembered
<1>2. ASSUME NEW q \in Requests, NEW e \in size.asking, Ask(q, e) PROVE Asking'
  <2> DEFINE a == [pc |-> "limiter", email |-> e, hit |-> [at |-> now, n |-> 0]]
  <2>1. NextAsk(q, a) /\ UNCHANGED <<size, now, operator, hits>>
    BY <1>2 DEF Ask, clock, signin
  <2>2. a.email \in Emails /\ a.hit \in Counting /\ a.hit.at <= now
    BY <1>0 DEF Counting
  <2> HIDE DEF a
  <2> QED BY <1>1, <2>1, <2>2, NextAskKeeps
<1>3. ASSUME NEW q \in Requests, AllowLogin(q) PROVE Asking'
  <2>1. /\ UNCHANGED <<size, now, operator>> /\ asks[q].pc # "idle"
        /\ \A e \in DOMAIN hits' : FewRemembered(e)'
    BY <1>3, Allowed
  <2>2. CASE NextAsk(q, Answered)
    BY <1>0, <2>1, <2>2, NextAskKeeps
  <2>3. CASE ~NextAsk(q, Answered)
    <3>1. PICK c \in Counting, pc \in {"lookup", "send"} :
            c.at = asks[q].hit.at /\ NextAsk(q, [pc |-> pc, email |-> asks[q].email, hit |-> c])
      BY <1>3, <2>3, Allowed
    <3>2. asks[q].email \in Emails /\ c.at <= now
      BY <2>1, <3>1 DEF Asking, AskedWell
    <3> DEFINE a == [pc |-> pc, email |-> asks[q].email, hit |-> c]
    <3>3. a.email \in Emails /\ a.hit \in Counting /\ a.hit.at <= now
      BY <3>2
    <3> HIDE DEF a
    <3> QED BY <2>1, <3>1, <3>3, NextAskKeeps DEF a
  <2> QED BY <2>2, <2>3
<1>4. ASSUME NEW q \in Requests, LookUp(q) PROVE Asking'
  <2> DEFINE a == [asks[q] EXCEPT !.pc = "send"]
  <2>1. /\ NextAsk(q, a) \/ NextAsk(q, Answered)
        /\ UNCHANGED <<size, now, operator, hits>> /\ asks[q].pc # "idle"
    BY <1>4 DEF LookUp, clock, signin
  <2>2. a.email = asks[q].email /\ a.hit = asks[q].hit
    OBVIOUS
  <2>3. a.email \in Emails /\ a.hit \in Counting /\ a.hit.at <= now
    BY <2>1, <2>2 DEF Asking, AskedWell
  <2> HIDE DEF a
  <2> QED BY <1>0, <1>1, <2>1, <2>3, NextAskKeeps
<1>5. ASSUME NEW q \in Requests, SendLogin(q) \/ LoginFails(q) PROVE Asking'
  <2>1. NextAsk(q, Answered) /\ UNCHANGED <<size, now, operator, hits>>
    BY <1>5 DEF SendLogin, LoginFails, clock, signin
  <2> QED BY <1>0, <1>1, <2>1, NextAskKeeps
<1>6. ASSUME UNCHANGED <<size, now, limiter>>, operator'.pc # "idle" => operator'.email \in Emails
      PROVE  Asking'
  <2>1. UNCHANGED <<asks, hits>>
    BY <1>6 DEF limiter
  <2>2. \A q \in Requests : AskedWell(q)'
    BY <1>6, <2>1 DEF Asking, AskedWell
  <2> QED BY <1>1, <1>6, <2>1, <2>2 DEF Asking
<1>7. ASSUME NEW e \in size.granted, EnsureUser(e) PROVE Asking'
  BY <1>0, <1>6, <1>7 DEF EnsureUser, clock
<1>8. CASE AdminWorkspace
  <2>1. UNCHANGED <<size, now, limiter>> /\ operator'.email = operator.email /\ operator.pc # "idle"
    BY <1>8 DEF AdminWorkspace, clock, login
  <2> QED BY <1>6, <2>1 DEF Asking
<1>9. CASE AdminLink \/ AdminFails
  BY <1>0, <1>6, <1>9 DEF AdminLink, AdminFails, clock, login
<1>10. CASE Restart
  <2>1. DOMAIN asks' = Requests /\ DOMAIN hits' = {} /\ UNCHANGED <<size, now, operator>>
    BY <1>10 DEF Restart
  <2>2. \A q \in Requests : asks'[q].pc = "idle"
    BY <1>0, <1>10 DEF Restart
  <2> QED BY <2>1, <2>2 DEF Asking, AskedWell
<1>11. CASE Tick
  BY <1>0, <1>11, ElsewhereKeepsAsking DEF Tick, login, signin
<1>12. ASSUME NEW b \in Browsers,
              \/ \E l \in DOMAIN links : Consume(b, l)
              \/ ListWorkspaces(b) \/ CreateWorkspaceFor(b) \/ CreateSession(b) \/ AuthFails(b)
              \/ Get(b) \/ Refused(b) \/ Logout(b) \/ DropCookie(b)
              \/ CreateToken(b) \/ CreateShareLink(b) \/ Revoke(b) \/ Notify(b)
       PROVE  UNCHANGED <<size, now, limiter, operator>>
  BY <1>12 DEF Consume, ListWorkspaces, CreateWorkspaceFor, CreateSession, AuthFails, Get, Refused, Logout,
       DropCookie, CreateToken, CreateShareLink, Revoke, Notify, Acts, clock, login, signin
<1>13. CASE Push \/ UNCHANGED vars
  <2>1. UNCHANGED <<size, now, limiter, operator>>
    BY <1>13 DEF Push, vars, clock, login, signin
  <2> QED BY <1>0, <2>1, ElsewhereKeepsAsking
<1>14. ASSUME UNCHANGED <<size, now, limiter, operator>> PROVE Asking'
  BY <1>0, <1>14, ElsewhereKeepsAsking
<1>15. size.browsers \subseteq Browsers
  BY AccountsAssumption DEF Asking
<1> QED
  BY <1>0, <1>2, <1>3, <1>4, <1>5, <1>7, <1>8, <1>9, <1>10, <1>11, <1>12, <1>13, <1>14, <1>15 DEF Next

\* What the requests under way, the sessions and the pages rely on of each other
\* holds in every state.
THEOREM Invariance == Spec => [](IInv /\ Asking)
BY InitIInv, InitAsking, NextIInv, NextAsking, PTL DEF Spec

\* A sign-in link starts at most one session, of the person it was sent to, in a
\* workspace of that person, however many browsers race over it, fail and retry.
THEOREM LinkOnce == Spec => []SignsInOnce
<1>1. IInv => SignsInOnce
  BY DEF IInv, SignIn
<1> QED BY <1>1, Invariance, PTL

\* An accepted form acts in the workspace that its page was about, on something
\* of that workspace, however many tabs are open and whoever signs in between.
THEOREM FormsActWhereShown == Spec => []ActsWhereShown
<1>1. IInv => ActsWhereShown
  BY DEF IInv
<1> QED BY <1>1, Invariance, PTL

-----------------------------------------------------------------------------
(* How many links an address is sent.                                      *)


\* Recent after the step.
FreshNext(h) == now' < h.at + Window

\* The links that the running process has sent from the sign-in page, and the
\* requests that the limiter has counted and that no link has come of yet.
Sent    == {l \in DOMAIN links : l > boot.links /\ links[l].by = "login"}
Counted == {q \in Requests : asks[q].pc \in {"lookup", "send"}}

\* A recent request is remembered until it is recent no more.
Remembers(e, h) == Fresh(h) => e \in DOMAIN hits /\ h \in hits[e]

Remembered ==
  /\ \A l \in Sent : Remembers(links[l].email, links[l].hit)
  /\ \A q \in Counted : Remembers(asks[q].email, asks[q].hit)

\* And it stands for one link, sent or to come.
LinksApart ==
  \A l, m \in Sent : links[l].email = links[m].email /\ links[l].hit = links[m].hit /\ Fresh(links[l].hit) => l = m
AsksApart ==
  \A p, q \in Counted : asks[p].email = asks[q].email /\ asks[p].hit = asks[q].hit /\ Fresh(asks[p].hit) => p = q
LinksAndAsksApart ==
  \A l \in Sent, q \in Counted :
    ~(links[l].email = asks[q].email /\ links[l].hit = asks[q].hit /\ Fresh(links[l].hit))

Separate == Remembered /\ LinksApart /\ AsksApart /\ LinksAndAsksApart

Limited == Separate /\ LimitHolds

SentIn(e, t) == {l \in Sent : links[l].email = e /\ links[l].hit.at >= t /\ links[l].until - LinkTTL < t + Window}

LEMMA LimitIs == LimitHolds <=> \A e \in Emails, t \in 0..size.now : Cardinality(SentIn(e, t)) <= Limit
<1>1. ASSUME NEW e \in Emails, NEW t \in 0..size.now
      PROVE  SentIn(e, t) = {l \in DOMAIN links :
               /\ l > boot.links /\ links[l].email = e /\ links[l].by = "login"
               /\ links[l].hit.at >= t /\ links[l].until - LinkTTL < t + Window}
  BY DEF SentIn, Sent
<1> QED BY <1>1 DEF LimitHolds

LEMMA LimitIsNext ==
  ASSUME UNCHANGED size, \A e \in Emails, t \in 0..size.now : Cardinality(SentIn(e, t)') <= Limit
  PROVE  LimitHolds'
<1>1. ASSUME NEW e \in Emails, NEW t \in 0..size'.now
      PROVE  SentIn(e, t)' = {l \in DOMAIN links' :
               /\ l > boot'.links /\ links'[l].email = e /\ links'[l].by = "login"
               /\ links'[l].hit.at >= t /\ links'[l].until - LinkTTL < t + Window}
  BY DEF SentIn, Sent
<1> QED BY <1>1 DEF LimitHolds

\* As many as are told apart within a few are few.
LEMMA Few ==
  ASSUME NEW S, NEW H, IsFiniteSet(H), Cardinality(H) <= Limit, NEW g \in [S -> H],
         \A x, y \in S : g[x] = g[y] => x = y
  PROVE  Cardinality(S) <= Limit
<1>1. g \in Injection(S, H)
  BY DEF Injection, IsInjective
<1>2. Cardinality(S) <= Cardinality(H) /\ IsFiniteSet(S)
  BY <1>1, FS_Injection
<1>3. Cardinality(S) \in Nat /\ Cardinality(H) \in Nat
  BY <1>2, FS_CardinalityType
<1> QED BY <1>2, <1>3, AccountsAssumption

\* A step that makes no link and counts no request, and forgets nothing recent.
LEMMA QuietKeepsSeparate ==
  ASSUME Separate, now \in Nat, now' \in Nat, now <= now', links \in Seq(LinkRow), Asking,
         Sent' \subseteq Sent, \A l \in Sent' : links'[l].email = links[l].email /\ links'[l].hit = links[l].hit,
         Counted' \subseteq Counted,
         \A q \in Counted' : asks'[q].email = asks[q].email /\ asks'[q].hit = asks[q].hit,
         \A e \in DOMAIN hits : \A h \in hits[e] : FreshNext(h) => e \in DOMAIN hits' /\ h \in hits'[e]
  PROVE  Separate'
<1>1. \A h \in Counting : FreshNext(h) => Fresh(h)
  BY AccountsAssumption DEF Fresh, FreshNext, Counting
<1>2. \A l \in Sent : links[l].hit \in Counting
  <2>1. \A l \in Sent : links[l] \in LinkRow
    BY Element DEF Sent
  <2> QED BY <2>1 DEF LinkRow
<1>3. \A q \in Counted : asks[q].hit \in Counting
  BY DEF Asking, AskedWell, Counted
<1>4. Remembered'
  <2>1. ASSUME NEW l \in Sent', FreshNext(links'[l].hit)
        PROVE  links'[l].email \in DOMAIN hits' /\ links'[l].hit \in hits'[links'[l].email]
    <3>1. l \in Sent /\ links'[l].email = links[l].email /\ links'[l].hit = links[l].hit
      OBVIOUS
    <3>2. Fresh(links[l].hit)
      BY <1>1, <1>2, <2>1, <3>1 DEF Fresh, FreshNext
    <3>3. links[l].email \in DOMAIN hits /\ links[l].hit \in hits[links[l].email]
      BY <3>1, <3>2 DEF Separate, Remembered, Remembers
    <3> QED BY <2>1, <3>1, <3>3 DEF Fresh, FreshNext
  <2>2. ASSUME NEW q \in Counted', FreshNext(asks'[q].hit)
        PROVE  asks'[q].email \in DOMAIN hits' /\ asks'[q].hit \in hits'[asks'[q].email]
    <3>1. q \in Counted /\ asks'[q].email = asks[q].email /\ asks'[q].hit = asks[q].hit
      OBVIOUS
    <3>2. Fresh(asks[q].hit)
      BY <1>1, <1>3, <2>2, <3>1 DEF Fresh, FreshNext
    <3>3. asks[q].email \in DOMAIN hits /\ asks[q].hit \in hits[asks[q].email]
      BY <3>1, <3>2 DEF Separate, Remembered, Remembers
    <3> QED BY <2>2, <3>1, <3>3 DEF Fresh, FreshNext
  <2> QED BY <2>1, <2>2 DEF Remembered, Remembers, Fresh, FreshNext
<1>5. \A l \in Sent' : l \in Sent /\ (FreshNext(links'[l].hit) => Fresh(links[l].hit))
  BY <1>1, <1>2 DEF Fresh, FreshNext
<1>6. \A q \in Counted' : q \in Counted /\ (FreshNext(asks'[q].hit) => Fresh(asks[q].hit))
  BY <1>1, <1>3 DEF Fresh, FreshNext
<1>7. LinksApart'
  BY <1>5 DEF Separate, LinksApart, Fresh, FreshNext
<1>8. AsksApart'
  BY <1>6 DEF Separate, AsksApart, Fresh, FreshNext
<1>9. LinksAndAsksApart'
  BY <1>5, <1>6 DEF Separate, LinksAndAsksApart, Fresh, FreshNext
<1> QED BY <1>4, <1>7, <1>8, <1>9 DEF Separate

\* No link is made, so no stretch of time holds more of them.
LEMMA NoLinkSent ==
  ASSUME LimitHolds, UNCHANGED size, links \in Seq(LinkRow), Sent' \subseteq Sent,
         \A l \in Sent' : /\ links'[l].email = links[l].email /\ links'[l].hit = links[l].hit
                          /\ links'[l].until = links[l].until
  PROVE  LimitHolds'
<1>1. ASSUME NEW e \in Emails, NEW t \in 0..size.now PROVE Cardinality(SentIn(e, t)') <= Limit
  <2>1. SentIn(e, t)' \in SUBSET SentIn(e, t)
    BY DEF SentIn
  <2>2. IsFiniteSet(SentIn(e, t))
    <3>1. PICK n \in Nat : DOMAIN links = 1..n
      BY LenProperties
    <3>2. IsFiniteSet(1..n)
      BY FS_Interval
    <3> QED BY <3>1, <3>2, FS_Subset DEF SentIn, Sent
  <2>3. /\ Cardinality(SentIn(e, t)') \in Nat /\ Cardinality(SentIn(e, t)) \in Nat
        /\ Cardinality(SentIn(e, t)') <= Cardinality(SentIn(e, t))
    BY <2>1, <2>2, FS_Subset, FS_CardinalityType
  <2>4. Cardinality(SentIn(e, t)) <= Limit
    BY LimitIs
  <2> QED BY <2>3, <2>4, AccountsAssumption
<1> QED BY <1>1, LimitIsNext

\* The request that the limiter counts is told apart from whatever is recent.
LEMMA AllowKeepsLimited ==
  ASSUME Typed, Asking, Limited, NEW q \in Requests, AllowLogin(q)
  PROVE  Limited'
<1>0. /\ UNCHANGED <<size, now, operator, links, boot>> /\ now \in Nat /\ links \in Seq(LinkRow)
      /\ \A e \in DOMAIN hits : \A h \in hits[e] : Fresh(h) => e \in DOMAIN hits' /\ h \in hits'[e]
  BY Allowed DEF Typed
<1>1. /\ Sent' = Sent /\ \A l \in Sent : l \in DOMAIN links
      /\ \A h : FreshNext(h) <=> Fresh(h)
  BY <1>0 DEF Sent, Fresh, FreshNext
<1>2. LimitHolds'
  BY <1>0, <1>1, NoLinkSent DEF Limited
<1>3. \A p \in Requests : p # q => asks'[p] = asks[p]
  BY DEF AllowLogin, NextAsk, Asking
<1>4. CASE NextAsk(q, Answered)
  <2>1. asks'[q].pc = "idle"
    BY <1>4 DEF NextAsk, Asking, Answered
  <2>2. Counted' \subseteq Counted /\ \A p \in Counted' : asks'[p] = asks[p]
    BY <1>3, <2>1 DEF Counted
  <2>3. Separate'
    BY <1>0, <1>1, <2>2, QuietKeepsSeparate DEF Limited
  <2> QED BY <1>2, <2>3 DEF Limited
<1>5. CASE ~NextAsk(q, Answered)
  <2> DEFINE e == asks[q].email
  <2>1. PICK c \in Counting, pc \in {"lookup", "send"} :
          /\ c.at = asks[q].hit.at /\ e \in DOMAIN hits' /\ c \in hits'[e] /\ c \notin HitsOf(e, c.at)
          /\ NextAsk(q, [pc |-> pc, email |-> e, hit |-> c])
    BY <1>5, Allowed
  <2>2. asks'[q].email = e /\ asks'[q].hit = c
    BY <2>1 DEF NextAsk, Asking
  <2>3. c.at \in Nat /\ c.at <= now /\ Window \in Nat
    <3>1. asks[q].pc # "idle"
      BY Allowed
    <3> QED BY <2>1, <3>1, AccountsAssumption DEF Asking, AskedWell, Counting
  <2>4. \A h \in Counting : e \in DOMAIN hits /\ h \in hits[e] /\ Fresh(h) => h # c
    <3> HIDE DEF e
    <3>1. \A h \in Counting : e \in DOMAIN hits /\ h \in hits[e] /\ Fresh(h) => h \in HitsOf(e, c.at)
      BY <1>0, <2>3 DEF HitsOf, RecentHits, Fresh, Counting
    <3> QED BY <2>1, <3>1
  <2>5. \A p \in Counted' : p # q => p \in Counted /\ asks'[p] = asks[p]
    BY <1>3 DEF Counted
  <2>6. \A l \in Sent : links[l].hit \in Counting
    <3>1. \A l \in Sent : links[l] \in LinkRow
      BY <1>0, Element DEF Sent
    <3> QED BY <3>1 DEF LinkRow
  <2>7. \A p \in Counted : asks[p].hit \in Counting
    BY DEF Asking, AskedWell, Counted
  <2>8. \A l \in Sent : ~(links[l].email = e /\ links[l].hit = c /\ Fresh(links[l].hit))
    <3> HIDE DEF e
    <3> QED BY <2>4, <2>6 DEF Limited, Separate, Remembered, Remembers
  <2>9. \A p \in Counted : ~(asks[p].email = e /\ asks[p].hit = c /\ Fresh(asks[p].hit))
    <3> HIDE DEF e
    <3> QED BY <2>4, <2>7 DEF Limited, Separate, Remembered, Remembers
  <2> HIDE DEF e
  <2>10. Remembered'
    <3>1. \A l \in Sent : Fresh(links[l].hit) =>
            links[l].email \in DOMAIN hits' /\ links[l].hit \in hits'[links[l].email]
      BY <1>0 DEF Limited, Separate, Remembered, Remembers
    <3>2. \A p \in Counted : Fresh(asks[p].hit) =>
            asks[p].email \in DOMAIN hits' /\ asks[p].hit \in hits'[asks[p].email]
      BY <1>0 DEF Limited, Separate, Remembered, Remembers
    <3>3. \A p \in Counted' : Fresh(asks'[p].hit) =>
            asks'[p].email \in DOMAIN hits' /\ asks'[p].hit \in hits'[asks'[p].email]
      BY <2>1, <2>2, <2>5, <3>2
    <3> QED BY <1>0, <1>1, <3>1, <3>3 DEF Remembered, Remembers, Fresh
  <2>11. LinksApart'
    BY <1>0, <1>1 DEF Limited, Separate, LinksApart, Fresh
  <2>12. AsksApart'
    <3>1. ASSUME NEW p \in Counted', NEW r \in Counted', asks'[p].email = asks'[r].email,
                 asks'[p].hit = asks'[r].hit, Fresh(asks'[p].hit)
          PROVE  p = r
      <4>1. CASE p # q /\ r # q
        BY <2>5, <3>1, <4>1 DEF Limited, Separate, AsksApart
      <4>2. CASE p = q /\ r # q
        BY <2>2, <2>5, <2>9, <3>1, <4>2
      <4>3. CASE p # q /\ r = q
        BY <2>2, <2>5, <2>9, <3>1, <4>3
      <4> QED BY <4>1, <4>2, <4>3
    <3> QED BY <1>0, <3>1 DEF AsksApart, Fresh
  <2>13. LinksAndAsksApart'
    <3>1. ASSUME NEW l \in Sent, NEW p \in Counted', links[l].email = asks'[p].email,
                 links[l].hit = asks'[p].hit, Fresh(links[l].hit)
          PROVE  FALSE
      <4>1. CASE p = q
        BY <2>2, <2>8, <3>1, <4>1
      <4>2. CASE p # q
        BY <2>5, <3>1, <4>2 DEF Limited, Separate, LinksAndAsksApart
      <4> QED BY <4>1, <4>2
    <3> QED BY <1>0, <1>1, <3>1 DEF LinksAndAsksApart, Fresh
  <2> QED BY <1>2, <2>10, <2>11, <2>12, <2>13 DEF Limited, Separate
<1> QED BY <1>4, <1>5

\* A link takes over what the limiter counted its request as.
LEMMA SendKeepsSeparate ==
  ASSUME Typed, Asking, Limited, NEW q \in Requests, SendLogin(q)
  PROVE  /\ Separate' /\ Len(links) \in Nat
         /\ Sent' \subseteq Sent \cup {Len(links) + 1} /\ Len(links) + 1 \notin DOMAIN links
         /\ \A l \in DOMAIN links : links'[l] = links[l]
         /\ links' \in Seq(LinkRow) /\ links'[Len(links) + 1].until - LinkTTL = now
<1> DEFINE k == Len(links) + 1
           e == asks[q].email
           c == asks[q].hit
           row == Link(e, LinkTTL, "login", c)
<1>0. /\ UNCHANGED <<size, now, boot, hits>> /\ asks[q].pc = "send" /\ NextAsk(q, Answered)
      /\ links' = Append(links, row) /\ now \in Nat /\ links \in Seq(LinkRow)
  BY DEF SendLogin, CreateLoginToken, Typed, clock
<1>1. e \in Emails /\ c \in Counting
  BY <1>0 DEF Asking, AskedWell
<1>2. row \in LinkRow /\ row.email = e /\ row.hit = c /\ row.until - LinkTTL = now
  <2>1. LinkTTL \in Nat
    BY AccountsAssumption
  <2> HIDE DEF e, c
  <2>2. row.until = now + LinkTTL
    BY DEF Link
  <2> QED BY <1>0, <1>1, <2>1, <2>2 DEF Link, LinkRow
<1> HIDE DEF row, e, c
<1>3. /\ Len(links) \in Nat /\ k \notin DOMAIN links /\ links' \in Seq(LinkRow)
      /\ DOMAIN links' = DOMAIN links \cup {k} /\ links'[k] = row
      /\ \A l \in DOMAIN links : links'[l] = links[l]
  BY <1>0, <1>2, Appended
<1> HIDE DEF k
<1>4. Sent' \subseteq Sent \cup {k} /\ \A l \in Sent : l \in DOMAIN links /\ links'[l] = links[l]
  BY <1>0, <1>3 DEF Sent
<1>5. asks'[q].pc = "idle" /\ \A p \in Requests : p # q => asks'[p] = asks[p]
  BY <1>0 DEF NextAsk, Asking, Answered
<1>6. q \notin Counted' /\ q \in Counted /\ \A p \in Counted' : p \in Counted /\ p # q /\ asks'[p] = asks[p]
  BY <1>0, <1>5 DEF Counted
<1>7. \A h : FreshNext(h) <=> Fresh(h)
  BY <1>0 DEF Fresh, FreshNext
<1>8. \A l \in Sent' : \/ l \in Sent /\ links'[l] = links[l]
                       \/ l = k /\ links'[l].email = e /\ links'[l].hit = c
  BY <1>2, <1>3, <1>4
<1>9. Remembered'
  <2>1. \A l \in Sent' : Fresh(links'[l].hit) =>
          links'[l].email \in DOMAIN hits /\ links'[l].hit \in hits[links'[l].email]
    BY <1>6, <1>8 DEF Limited, Separate, Remembered, Remembers, e, c
  <2>2. \A p \in Counted' : Fresh(asks'[p].hit) =>
          asks'[p].email \in DOMAIN hits /\ asks'[p].hit \in hits[asks'[p].email]
    BY <1>6 DEF Limited, Separate, Remembered, Remembers
  <2> QED BY <1>0, <2>1, <2>2 DEF Remembered, Remembers, Fresh
<1>10. \A l \in Sent : ~(links[l].email = e /\ links[l].hit = c /\ Fresh(links[l].hit))
  BY <1>6 DEF Limited, Separate, LinksAndAsksApart, e, c
<1>11. \A p \in Counted' : ~(asks[p].email = e /\ asks[p].hit = c /\ Fresh(asks[p].hit))
  BY <1>6 DEF Limited, Separate, AsksApart, e, c
<1>12. LinksApart'
  <2>1. ASSUME NEW l \in Sent', NEW m \in Sent', links'[l].email = links'[m].email,
               links'[l].hit = links'[m].hit, Fresh(links'[l].hit)
        PROVE  l = m
    <3>1. CASE l \in Sent /\ links'[l] = links[l] /\ m \in Sent /\ links'[m] = links[m]
      BY <2>1, <3>1 DEF Limited, Separate, LinksApart
    <3>2. CASE ~(l \in Sent /\ links'[l] = links[l]) \/ ~(m \in Sent /\ links'[m] = links[m])
      BY <1>8, <1>10, <2>1, <3>2
    <3> QED BY <3>1, <3>2
  <2> QED BY <1>0, <2>1 DEF LinksApart, Fresh
<1>13. AsksApart'
  BY <1>0, <1>6 DEF Limited, Separate, AsksApart, Fresh
<1>14. LinksAndAsksApart'
  <2>1. ASSUME NEW l \in Sent', NEW p \in Counted', links'[l].email = asks'[p].email,
               links'[l].hit = asks'[p].hit, Fresh(links'[l].hit)
        PROVE  FALSE
    <3>1. CASE l \in Sent /\ links'[l] = links[l]
      BY <1>6, <2>1, <3>1 DEF Limited, Separate, LinksAndAsksApart
    <3>2. CASE ~(l \in Sent /\ links'[l] = links[l])
      BY <1>6, <1>8, <1>11, <2>1, <3>2
    <3> QED BY <3>1, <3>2
  <2> QED BY <1>0, <2>1 DEF LinksAndAsksApart, Fresh
<1> QED BY <1>2, <1>3, <1>4, <1>9, <1>12, <1>13, <1>14 DEF Separate, k

\* While a stretch lasts every link asked for in it is remembered, each as
\* another request; and once it is over no link is sent in it.
LEMMA SendKeepsLimited ==
  ASSUME Typed, Asking, Limited, NEW q \in Requests, SendLogin(q), Asking'
  PROVE  Limited'
<1> DEFINE k == Len(links) + 1
<1>1. /\ Separate' /\ Sent' \subseteq Sent \cup {k} /\ k \notin DOMAIN links
      /\ \A l \in DOMAIN links : links'[l] = links[l]
      /\ links' \in Seq(LinkRow) /\ links'[k].until - LinkTTL = now
      /\ \A l \in Sent : l \in DOMAIN links
  BY SendKeepsSeparate DEF Sent
<1>2. UNCHANGED <<size, now, boot, hits>> /\ now \in Nat /\ links \in Seq(LinkRow) /\ Window \in Nat
  BY AccountsAssumption DEF SendLogin, Typed, clock
<1> HIDE DEF k
<1>3. ASSUME NEW e \in Emails, NEW t \in 0..size.now PROVE Cardinality(SentIn(e, t)') <= Limit
  <2>1. t \in Nat
    BY <1>3
  <2> DEFINE S == SentIn(e, t)'
  <2>2. \A l \in S : /\ l \in Sent' /\ links'[l].email = e /\ links'[l].hit.at >= t
                     /\ links'[l].until - LinkTTL < t + Window
    BY DEF SentIn
  <2>3. \A l \in S : links'[l].hit.at \in Nat
    <3>1. \A l \in Sent' : links'[l] \in LinkRow
      BY <1>1, Element DEF Sent
    <3> QED BY <2>2, <3>1 DEF LinkRow, Counting
  <2>4. CASE now < t + Window
    <3>1. \A l \in S : FreshNext(links'[l].hit)
      BY <1>2, <2>1, <2>2, <2>3, <2>4 DEF FreshNext
    <3>2. \A l \in S : e \in DOMAIN hits' /\ links'[l].hit \in hits'[e]
      BY <1>1, <2>2, <3>1 DEF Separate, Remembered, Remembers, Fresh, FreshNext
    <3>3. \A l, m \in S : links'[l].hit = links'[m].hit => l = m
      BY <1>1, <2>2, <3>1 DEF Separate, LinksApart, Fresh, FreshNext
    <3>4. CASE S = {}
      BY <3>4, FS_EmptySet, AccountsAssumption
    <3>5. CASE S # {}
      <4>1. IsFiniteSet(hits'[e]) /\ Cardinality(hits'[e]) <= Limit
        BY <3>2, <3>5 DEF Asking, FewRemembered
      <4> DEFINE g == [l \in S |-> links'[l].hit]
      <4> HIDE DEF S
      <4>2. g \in [S -> hits'[e]] /\ \A l, m \in S : g[l] = g[m] => l = m
        BY <3>2, <3>3
      <4> HIDE DEF g
      <4> QED BY <4>1, <4>2, Few DEF S
    <3> QED BY <3>4, <3>5
  <2>5. CASE ~(now < t + Window)
    <3>1. \A l \in S : l # k
      BY <1>1, <2>2, <2>5
    <3>2. S \in SUBSET SentIn(e, t)
      BY <1>1, <2>2, <3>1 DEF SentIn
    <3>3. IsFiniteSet(SentIn(e, t))
      <4>1. DOMAIN links = 1..Len(links) /\ Len(links) \in Nat
        BY <1>2, LenProperties
      <4>2. IsFiniteSet(DOMAIN links)
        BY <4>1, FS_Interval
      <4> QED BY <4>2, FS_Subset DEF SentIn, Sent
    <3>4. /\ Cardinality(S) \in Nat /\ Cardinality(SentIn(e, t)) \in Nat
          /\ Cardinality(S) <= Cardinality(SentIn(e, t))
      BY <3>2, <3>3, FS_Subset, FS_CardinalityType
    <3>5. Cardinality(SentIn(e, t)) <= Limit
      BY LimitIs DEF Limited
    <3> HIDE DEF S
    <3> QED BY <3>4, <3>5, AccountsAssumption DEF S
  <2> QED BY <2>4, <2>5
<1> QED BY <1>1, <1>2, <1>3, LimitIsNext DEF Limited

\* A step that leaves the sign-in page's links as they are, but for being used.
LEMMA QuietKeepsLimited ==
  ASSUME Typed, Asking, Limited, UNCHANGED <<size, hits>>, now' \in Nat, now <= now',
         Sent' \subseteq Sent,
         \A l \in Sent' : /\ links'[l].email = links[l].email /\ links'[l].hit = links[l].hit
                          /\ links'[l].until = links[l].until,
         Counted' \subseteq Counted,
         \A q \in Counted' : asks'[q].email = asks[q].email /\ asks'[q].hit = asks[q].hit
  PROVE  Limited'
<1>1. now \in Nat /\ links \in Seq(LinkRow)
  BY DEF Typed
<1>2. Separate'
  BY <1>1, QuietKeepsSeparate DEF Limited
<1>3. LimitHolds'
  BY <1>1, NoLinkSent DEF Limited
<1> QED BY <1>2, <1>3 DEF Limited

\* A new process knows of no link, and has counted no request.
LEMMA RestartKeepsLimited == ASSUME Typed, Restart PROVE Limited'
<1>1. Sent' = {}
  <2>1. DOMAIN links = 1..Len(links) /\ Len(links) \in Nat /\ links' = links /\ boot'.links = Len(links)
    BY LenProperties DEF Restart, Typed
  <2> QED BY <2>1 DEF Sent
<1>2. Counted' = {}
  BY DEF Restart, Counted, Answered
<1>3. Separate'
  BY <1>1, <1>2 DEF Separate, Remembered, LinksApart, AsksApart, LinksAndAsksApart
<1>4. ASSUME NEW e \in Emails, NEW t \in 0..size.now PROVE Cardinality(SentIn(e, t)') <= Limit
  <2>1. SentIn(e, t)' = {}
    BY <1>1 DEF SentIn
  <2> QED BY <2>1, FS_EmptySet, AccountsAssumption
<1> QED BY <1>3, <1>4, LimitIsNext DEF Limited, Restart

LEMMA InitLimited == Init => Limited
<1> SUFFICES ASSUME Init PROVE Limited
  OBVIOUS
<1>1. Sent = {} /\ Counted = {}
  <2>1. DOMAIN links = {} /\ \A q \in Requests : asks[q] = Answered
    BY DEF Init
  <2>2. Answered.pc = "idle"
    BY DEF Answered
  <2> QED BY <2>1, <2>2 DEF Sent, Counted
<1>2. Separate
  BY <1>1 DEF Separate, Remembered, LinksApart, AsksApart, LinksAndAsksApart
<1>3. ASSUME NEW e \in Emails, NEW t \in 0..size.now PROVE Cardinality(SentIn(e, t)) <= Limit
  <2>1. SentIn(e, t) = {}
    BY <1>1 DEF SentIn
  <2> QED BY <2>1, FS_EmptySet, AccountsAssumption
<1> QED BY <1>2, <1>3, LimitIs DEF Limited

LEMMA NextLimited == IInv /\ Asking /\ Limited /\ Asking' /\ [Next]_vars => Limited'
<1> SUFFICES ASSUME IInv, Asking, Limited, Asking', [Next]_vars PROVE Limited'
  OBVIOUS
<1>0. /\ Typed /\ now \in Nat /\ Len(links) \in Nat /\ links \in Seq(LinkRow)
      /\ size.browsers \subseteq Browsers /\ size.requests \subseteq Requests
  BY LenProperties, AccountsAssumption DEF IInv, Typed
<1>1. UNCHANGED <<links, boot>> => Sent' = Sent
  BY DEF Sent
<1>2. UNCHANGED asks => Counted' = Counted
  BY DEF Counted
<1>3. ASSUME NEW q \in Requests, AllowLogin(q) PROVE Limited'
  BY <1>0, <1>3, AllowKeepsLimited
<1>4. ASSUME NEW q \in Requests, SendLogin(q) PROVE Limited'
  BY <1>0, <1>4, SendKeepsLimited
<1>5. ASSUME NEW q \in Requests, (\E e \in size.asking : Ask(q, e)) \/ LookUp(q) \/ LoginFails(q) PROVE Limited'
  <2>1. UNCHANGED <<size, now, boot, links, hits>> /\ \A p \in Requests : p # q => asks'[p] = asks[p]
    BY <1>5 DEF Ask, LookUp, LoginFails, NextAsk, Asking, clock
  <2>2. \/ asks'[q].pc \in {"idle", "limiter"}
        \/ q \in Counted /\ asks'[q].email = asks[q].email /\ asks'[q].hit = asks[q].hit
    <3>1. DOMAIN asks = Requests /\ Answered.pc = "idle"
      BY DEF Asking, Answered
    <3>2. CASE \E e \in size.asking : Ask(q, e)
      BY <3>1, <3>2 DEF Ask, NextAsk
    <3>3. CASE LookUp(q)
      <4>1. CASE NextAsk(q, Answered)
        BY <3>1, <4>1 DEF NextAsk
      <4>2. CASE NextAsk(q, [asks[q] EXCEPT !.pc = "send"]) /\ asks[q].pc = "lookup"
        BY <3>1, <4>2 DEF NextAsk, Counted
      <4> QED BY <3>3, <4>1, <4>2 DEF LookUp
    <3>4. CASE LoginFails(q)
      BY <3>1, <3>4 DEF LoginFails, NextAsk
    <3> QED BY <1>5, <3>2, <3>3, <3>4
  <2>3. Counted' \subseteq Counted /\ \A p \in Counted' : asks'[p].email = asks[p].email /\ asks'[p].hit = asks[p].hit
    BY <2>1, <2>2 DEF Counted
  <2> QED BY <1>0, <1>1, <2>1, <2>3, QuietKeepsLimited
<1>6. CASE (\E e \in size.granted : EnsureUser(e)) \/ AdminWorkspace \/ AdminFails \/ Push
  <2>1. UNCHANGED <<size, now, boot, links, asks, hits>>
    BY <1>6 DEF EnsureUser, AdminWorkspace, AdminFails, Push, clock, login, limiter
  <2> QED BY <1>0, <1>1, <1>2, <2>1, QuietKeepsLimited
<1>7. CASE AdminLink
  <2> DEFINE row == Link(operator.email, AdminTTL, "admin", Answered.hit)
  <2>1. UNCHANGED <<size, now, boot, asks, hits>> /\ links' = Append(links, row) /\ operator.email \in Emails
    BY <1>7 DEF AdminLink, CreateLoginToken, clock, limiter, Asking
  <2>2. row \in LinkRow /\ row.by # "login"
    <3>1. Answered.hit \in Counting /\ AdminTTL \in Nat
      BY AccountsAssumption DEF Answered, Counting
    <3> QED BY <1>0, <2>1, <3>1 DEF Link, LinkRow
  <2> HIDE DEF row
  <2>3. \A l \in Sent' : l \in Sent /\ links'[l] = links[l]
    <3>1. PICK k \in Nat : k = Len(links) + 1
      BY <1>0
    <3>2. /\ DOMAIN links' = DOMAIN links \cup {k} /\ links'[k] = row
          /\ \A l \in DOMAIN links : links'[l] = links[l]
      BY <1>0, <2>1, <2>2, <3>1, Appended
    <3> QED BY <2>1, <2>2, <3>2 DEF Sent
  <2>4. /\ Sent' \subseteq Sent
        /\ \A l \in Sent' : /\ links'[l].email = links[l].email /\ links'[l].hit = links[l].hit
                            /\ links'[l].until = links[l].until
    BY <2>3
  <2>5. /\ UNCHANGED <<size, hits>> /\ now' \in Nat /\ now <= now' /\ Counted' \subseteq Counted
        /\ \A q \in Counted' : asks'[q].email = asks[q].email /\ asks'[q].hit = asks[q].hit
    BY <1>0, <1>2, <2>1
  <2> QED BY <1>0, <2>4, <2>5, QuietKeepsLimited
<1>8. ASSUME NEW l \in DOMAIN links, NEW b \in Browsers, Consume(b, l) PROVE Limited'
  <2>1. UNCHANGED <<size, now, boot, asks, hits>> /\ links' = [links EXCEPT ![l].used = TRUE]
    BY <1>8 DEF Consume, clock, limiter
  <2>2. \A m \in DOMAIN links : links[m] \in LinkRow
    BY <1>0, Element
  <2>3. /\ DOMAIN links' = DOMAIN links
        /\ \A m \in DOMAIN links : /\ links'[m].email = links[m].email /\ links'[m].by = links[m].by
                                   /\ links'[m].until = links[m].until /\ links'[m].hit = links[m].hit
    BY <2>1, <2>2 DEF LinkRow
  <2>4. Sent' = Sent /\ \A m \in Sent : m \in DOMAIN links
    BY <2>1, <2>3 DEF Sent
  <2> QED BY <1>0, <1>2, <2>1, <2>3, <2>4, QuietKeepsLimited
<1>9. CASE Restart
  BY <1>0, <1>9, RestartKeepsLimited
<1>10. CASE Tick
  BY <1>0, <1>1, <1>2, <1>10, QuietKeepsLimited DEF Tick, login, limiter
<1>11. ASSUME UNCHANGED <<size, now, limiter, boot, links>> PROVE Limited'
  BY <1>0, <1>1, <1>2, <1>11, QuietKeepsLimited DEF limiter
<1>12. ASSUME NEW b \in Browsers,
              \/ ListWorkspaces(b) \/ CreateWorkspaceFor(b) \/ CreateSession(b) \/ AuthFails(b)
              \/ Get(b) \/ Refused(b) \/ Logout(b) \/ DropCookie(b)
              \/ CreateToken(b) \/ CreateShareLink(b) \/ Revoke(b) \/ Notify(b)
       PROVE  UNCHANGED <<size, now, limiter, boot, links>>
  BY <1>12 DEF ListWorkspaces, CreateWorkspaceFor, CreateSession, AuthFails, Get, Refused, Logout, DropCookie,
       CreateToken, CreateShareLink, Revoke, Notify, Acts, clock, login
<1>13. CASE UNCHANGED vars
  BY <1>11, <1>13 DEF vars, clock, login
<1> QED
  BY <1>0, <1>3, <1>4, <1>5, <1>6, <1>7, <1>8, <1>9, <1>10, <1>11, <1>12, <1>13 DEF Next

\* The limiter: in the life of one process no stretch of loginWindow has more than
\* loginLimit links of an address asked for and sent within it, whatever it forgets
\* at loginTrackMax and however long a request is held up between its calls.
THEOREM NoFlood == Spec => []LimitHolds
<1>1. Limited => LimitHolds
  BY DEF Limited
<1> QED BY <1>1, InitLimited, NextLimited, Invariance, PTL DEF Spec
=============================================================================
