------------------------------ MODULE WebConsole ------------------------------
(***************************************************************************)
(* Who is signed in, in the browser (apps/web/src): the persisted store    *)
(* (store/useAppStore.ts), the guard of the dashboard, the sign-out of the *)
(* sidebar, the login and sign-up forms, and the client that carries the   *)
(* forms to the auth service (lib/api.ts).                                 *)
(*                                                                         *)
(* A tab reads the store from localStorage when it loads and keeps its own *)
(* copy from then on: nothing listens for the writes of another tab.  A    *)
(* form's request, and the timer of the mocked single sign-on, outlive the *)
(* page that started them, for a move between pages loads nothing anew;    *)
(* a reload of the tab ends them.                                          *)
(***************************************************************************)
EXTENDS Naturals, FiniteSets

CONSTANTS Tabs,          \* the browser's tabs on the console
          Mails,         \* the addresses users type
          Registered,    \* those the auth service knows at first
          DemoMails,     \* those that contain "admin", "demo" or "test"
          MaxRequests,   \* bound: requests and timers started in one behaviour
          None

ASSUME MailsAssumption ==
    /\ Registered \subseteq Mails
    /\ DemoMails \subseteq Mails
    /\ MaxRequests \in Nat

(* No tab, token or answer is None. *)
ASSUME NoneAssumption ==
    /\ None \notin {"login", "register", "sso", "sent", "ok", "refused", "unreachable"}
    /\ None \notin {"service", "demo", "sso"} \X (Mails \cup {"sso-user"})

Forms == {"/login", "/signup"}
Dashboard == {"/overview"}           \* one page for all: the guard is theirs in common
Paths == Forms \cup Dashboard

Calls == 1..MaxRequests

VARIABLES
    stored,    \* the session in localStorage
    writer,    \* the tab that wrote it last
    sess,      \* sess[t]: the session tab t keeps in memory
    path,      \* path[t]: the page it shows
    mounted,   \* mounted[t]: AuthGuard's effect has run since the dashboard was entered
    busy,      \* busy[t]: what the form shown waits for, its request or the single sign-on
    flight,    \* flight[q]: request q; a timer is one of kind "sso"
    accounts   \* the addresses with an account at the auth service

consoleVars == <<stored, writer, sess, path, mounted, busy, flight, accounts>>

(***************************************************************************)
(* A session is the pair the store keeps; a token tells who made it.       *)
(***************************************************************************)
SignedOut == [token |-> None, user |-> None]
Session(by, mail) == [token |-> <<by, mail>>, user |-> mail]
SignedIn(s) == s.token # None /\ s.user # None

NoRequest == [kind |-> None, tab |-> None, mail |-> None, state |-> None, here |-> FALSE]

ConsoleInit ==
    /\ stored = SignedOut
    /\ writer = None
    /\ sess = [t \in Tabs |-> SignedOut]
    /\ path = [t \in Tabs |-> "/login"]
    /\ mounted = [t \in Tabs |-> FALSE]
    /\ busy = [t \in Tabs |-> {}]
    /\ flight = [q \in Calls |-> NoRequest]
    /\ accounts = Registered

(* Mutation of Persist: a sign-out is not written to localStorage. *)
PersistSignIns(t, s) ==
    /\ sess' = [sess EXCEPT ![t] = s]
    /\ stored' = IF SignedIn(s) THEN s ELSE stored
    /\ writer' = t

(***************************************************************************)
(* The store: every set() is written to localStorage at once.              *)
(***************************************************************************)
Persist(t, s) ==
    /\ sess' = [sess EXCEPT ![t] = s]
    /\ stored' = s
    /\ writer' = t

(* Mutation of SetAuth: a user already in the store is kept. *)
SetAuthKeepsUser(t, s) ==
    Persist(t, [token |-> s.token,
                user |-> IF sess[t].user = None THEN s.user ELSE sess[t].user])

SetAuth(t, s) == Persist(t, s)

StoreLogout(t) == Persist(t, SignedOut)

(***************************************************************************)
(* Moving to another page unmounts the form: what its request sets there   *)
(* later is lost.                                                          *)
(***************************************************************************)
Show(t, p, f) ==
    /\ path' = [path EXCEPT ![t] = p]
    /\ mounted' = [mounted EXCEPT ![t] = @ /\ path[t] \in Dashboard /\ p \in Dashboard]
    /\ busy' = [busy EXCEPT ![t] = IF p = path[t] THEN @ ELSE {}]
    /\ flight' = [q \in Calls |->
                    IF f[q].tab = t /\ p # path[t] THEN [f[q] EXCEPT !.here = FALSE] ELSE f[q]]

(* A link or the back button.  The landing page keeps nothing and is left out. *)
Visit(t, p) ==
    /\ p # path[t]
    /\ Show(t, p, flight)
    /\ UNCHANGED <<stored, writer, sess, accounts>>

(* What AuthGuard renders of a dashboard page: nothing else before it is mounted. *)
Shown(t) == path[t] \in Dashboard /\ mounted[t] /\ SignedIn(sess[t])

(***************************************************************************)
(* A load of the tab: rehydration reads the session and writes it back.    *)
(* Whatever was under way is forgotten here; a registration may have been  *)
(* served all the same.  A load that cuts another off before its effects   *)
(* ran is that other load taken later, and not a step of its own.          *)
(***************************************************************************)
Load(t) ==
    /\ path[t] \in Dashboard => Shown(t)
    /\ \E S \in SUBSET {flight[q].mail : q \in {r \in Calls : flight[r].tab = t
                                    /\ flight[r].kind = "register" /\ flight[r].state = "sent"}} :
          accounts' = accounts \cup S
    /\ sess' = [sess EXCEPT ![t] = stored]
    /\ mounted' = [mounted EXCEPT ![t] = FALSE]
    /\ busy' = [busy EXCEPT ![t] = {}]
    /\ flight' = [q \in Calls |-> IF flight[q].tab = t THEN [NoRequest EXCEPT !.kind = "lost"]
                                     ELSE flight[q]]
    /\ writer' = t
    /\ UNCHANGED <<stored, path>>

(***************************************************************************)
(* AuthGuard: children only once mounted and signed in; without a session  *)
(* its effect leaves for the login page, whose own effect leaves for the   *)
(* overview when there is one.                                             *)
(***************************************************************************)
Mount(t) ==
    /\ path[t] \in Dashboard /\ ~mounted[t]
    /\ mounted' = [mounted EXCEPT ![t] = TRUE]
    /\ UNCHANGED <<stored, writer, sess, path, busy, flight, accounts>>

Guard(t) ==
    /\ path[t] \in Dashboard /\ mounted[t] /\ ~SignedIn(sess[t])
    /\ Show(t, "/login", flight)
    /\ UNCHANGED <<stored, writer, sess, accounts>>

AlreadySignedIn(t) ==
    /\ path[t] = "/login" /\ SignedIn(sess[t])
    /\ Show(t, "/overview", flight)
    /\ UNCHANGED <<stored, writer, sess, accounts>>

SignOut(t) ==
    /\ Shown(t)
    /\ StoreLogout(t)
    /\ Show(t, "/login", flight)
    /\ UNCHANGED accounts

(***************************************************************************)
(* The forms.  A button is disabled while what it started is under way;    *)
(* the sign-in and the single sign-on of the login page do not disable     *)
(* each other.  A form that fails its checks (a missing field, a short     *)
(* password, the terms refused) sends nothing.  The errors shown and the   *)
(* fields' own state are left out.                                         *)
(***************************************************************************)
LoginForm(t) == path[t] = "/login" /\ "form" \notin busy[t]
SignupForm(t) == path[t] = "/signup" /\ "form" \notin busy[t]
SsoButtons(t) == path[t] = "/login" /\ "sso" \notin busy[t]

Request(t, kind, mail) ==
    \E q \in Calls :
        /\ flight[q] = NoRequest
        /\ \A r \in 1..(q - 1) : flight[r] # NoRequest
        /\ flight' = [flight EXCEPT ![q] = [kind |-> kind, tab |-> t, mail |-> mail,
                                            state |-> "sent", here |-> TRUE]]

Start(t, kind, mail, waits) ==
    /\ Request(t, kind, mail)
    /\ busy' = [busy EXCEPT ![t] = @ \cup {waits}]
    /\ UNCHANGED <<stored, writer, sess, path, mounted, accounts>>

SubmitLogin(t, mail) == LoginForm(t) /\ Start(t, "login", mail, "form")
SubmitSignup(t, mail) == SignupForm(t) /\ Start(t, "register", mail, "form")

(* The mocked GitHub or SAML sign-in: a timer of 600 ms and no service. *)
SsoLogin(t) == SsoButtons(t) /\ Start(t, "sso", None, "sso")

(***************************************************************************)
(* The auth service, or the lack of one: it accepts, refuses, or the fetch *)
(* fails.  An address can be registered once, and only one that is, with   *)
(* the right password, logs in.                                            *)
(***************************************************************************)
Serve(q) ==
    /\ flight[q].state = "sent" /\ flight[q].kind # "sso"
    /\ \E answer \in {"ok", "refused", "unreachable"} :
          /\ answer = "ok" => (flight[q].kind = "login" <=> flight[q].mail \in accounts)
          /\ flight' = [flight EXCEPT ![q].state = answer]
          /\ accounts' = IF answer = "ok" THEN accounts \cup {flight[q].mail} ELSE accounts
    /\ UNCHANGED <<stored, writer, sess, path, mounted, busy>>

Finished(q) == [flight EXCEPT ![q] = [NoRequest EXCEPT !.kind = "done"]]

(* The answer signs the tab in and moves it to the overview, wherever it is by now. *)
Enter(q, s) ==
    /\ SetAuth(flight[q].tab, s)
    /\ Show(flight[q].tab, "/overview", Finished(q))
    /\ UNCHANGED accounts

LoginAccepted(q) ==
    /\ flight[q].kind = "login" /\ flight[q].state = "ok"
    /\ Enter(q, Session("service", flight[q].mail))

SignupAccepted(q) ==
    /\ flight[q].kind = "register" /\ flight[q].state = "ok"
    /\ Enter(q, Session("service", flight[q].mail))

SsoTimer(q) ==
    /\ flight[q].kind = "sso" /\ flight[q].state = "sent"
    /\ Enter(q, Session("sso", "sso-user"))

(***************************************************************************)
(* The catch of the forms: any failure of a login with a demo address      *)
(* makes a demo session, and any failure of a registration does, for its   *)
(* e-mail field lets no address without an @ through.                      *)
(***************************************************************************)
Thrown(q) == flight[q].state \in {"refused", "unreachable"}
Excused(r) == r.kind = "register" \/ r.mail \in DemoMails

LoginFallsBack(q) ==
    /\ Thrown(q) /\ flight[q].kind = "login" /\ Excused(flight[q])
    /\ Enter(q, Session("demo", flight[q].mail))

SignupFallsBack(q) ==
    /\ Thrown(q) /\ flight[q].kind = "register"
    /\ Enter(q, Session("demo", flight[q].mail))

(* Mutation of LoginFails: the error path returns without the finally. *)
LoginFailsLoading(q) ==
    /\ Thrown(q) /\ ~Excused(flight[q])
    /\ flight' = Finished(q)
    /\ UNCHANGED <<stored, writer, sess, path, mounted, busy, accounts>>

LoginFails(q) ==
    /\ Thrown(q) /\ ~Excused(flight[q])
    /\ flight' = Finished(q)
    /\ busy' = [busy EXCEPT ![flight[q].tab] = IF flight[q].here THEN @ \ {"form"} ELSE @]
    /\ UNCHANGED <<stored, writer, sess, path, mounted, accounts>>

(***************************************************************************)
(* The user of a tab, and what the browser does by itself.                 *)
(***************************************************************************)
User(t) ==
    \/ \E p \in Paths : Visit(t, p)
    \/ Load(t)
    \/ SignOut(t)
    \/ \E m \in Mails : SubmitLogin(t, m) \/ SubmitSignup(t, m)
    \/ SsoLogin(t)

Effects(t) == Mount(t) \/ Guard(t) \/ AlreadySignedIn(t)

Answer(q) ==
    \/ Serve(q) \/ SsoTimer(q)
    \/ LoginAccepted(q) \/ LoginFallsBack(q) \/ LoginFails(q)
    \/ SignupAccepted(q) \/ SignupFallsBack(q)

ConsoleNext ==
    \/ \E t \in Tabs : User(t) \/ Effects(t)
    \/ \E q \in Calls : Answer(q)

(***************************************************************************)
(* React runs the effects of what it renders, a timer fires, and a fetch   *)
(* ends: the browser gives up on one that is not answered.                 *)
(***************************************************************************)
Fairness ==
    /\ \A t \in Tabs : WF_consoleVars(Effects(t))
    /\ \A q \in Calls : WF_consoleVars(Answer(q))

ConsoleSpec == ConsoleInit /\ [][ConsoleNext]_consoleVars /\ Fairness

-------------------------------------------------------------------------------
TabSessions == {SignedOut, Session("sso", "sso-user")}
              \cup {Session(by, m) : by \in {"service", "demo"}, m \in Mails}

(* Every variable has its type. *)
ConsoleOK ==
    /\ stored \in TabSessions /\ sess \in [Tabs -> TabSessions]
    /\ writer \in Tabs \cup {None}
    /\ path \in [Tabs -> Paths]
    /\ mounted \in [Tabs -> BOOLEAN]
    /\ busy \in [Tabs -> SUBSET {"form", "sso"}]
    /\ flight \in [Calls -> [kind : {None, "login", "register", "sso", "done", "lost"},
                                 tab : Tabs \cup {None}, mail : Mails \cup {None},
                                 state : {None, "sent", "ok", "refused", "unreachable"},
                                 here : BOOLEAN]]
    /\ accounts \subseteq Mails

(***************************************************************************)
(* The token and the user of a session, in a tab or in the store, come     *)
(* from one sign-in, and a token of the service is one of an account it    *)
(* has: two sign-ins of one tab can be answered in either order, and over  *)
(* a session that is already there (useAppStore.ts:47, api.ts:11).         *)
(***************************************************************************)
SessionWhole ==
    \A s \in {stored} \cup {sess[t] : t \in Tabs} :
        IF s.token = None THEN s.user = None
        ELSE /\ s.token[1] \in {"service", "demo"} => s.token[2] = s.user
             /\ s.token[1] = "service" => s.user \in accounts

(***************************************************************************)
(* A reload changes nothing in the tab that wrote the store last: what it  *)
(* would read is what it has.  After a sign-out in particular no session   *)
(* is left to be read (useAppStore.ts:48, Sidebar.tsx:30).  Of a tab that  *)
(* wrote earlier this does not hold.                                       *)
(***************************************************************************)
StoreFollowsWriter == writer # None => stored = sess[writer]

(***************************************************************************)
(* No screen waits for ever: the guard's spinner gives way to the page or  *)
(* to the login form, and a form that is loading stops, on every path of   *)
(* its request (AuthGuard.tsx:23, login/page.tsx:92, signup/page.tsx:128). *)
(***************************************************************************)
Spinning(t) == path[t] \in Dashboard /\ ~Shown(t)

EveryScreenSettles ==
    \A t \in Tabs : /\ busy[t] # {} ~> busy[t] = {}
                    /\ Spinning(t) ~> ~Spinning(t)

(***************************************************************************)
(* The comments of the forms allow a session that no service made when the *)
(* service is not running (login/page.tsx:78, signup/page.tsx:114).  A     *)
(* refusal, by a service that runs, makes one as well.                     *)
(***************************************************************************)
DemoOnlyWhenDown ==
    [][\A q \in Calls : flight[q].state = "refused" => ~(LoginFallsBack(q) \/ SignupFallsBack(q))]_consoleVars
===============================================================================
