------------------------------ MODULE WebScreens ------------------------------
(***************************************************************************)
(* What a signed-in tab shows (apps/web/src): the state each page of the   *)
(* dashboard keeps while it is mounted, and the theme of the document.     *)
(*                                                                         *)
(* The pages call no service.  Each starts from the lists in its own file  *)
(* and keeps what the user did to them until he leaves the page; the       *)
(* buttons Export, Rotate, Revoke, Invite and Delete do nothing.  A timer  *)
(* of an unmounted page or button changes nothing any more.                *)
(***************************************************************************)
EXTENDS Naturals

CONSTANTS Notices,     \* the alerts in the lists of the overview and of /alerts
          Severity,    \* Severity[n]
          ReadAtFirst, \* the notices that are read in the lists
          Periods,     \* what the selectors of the overview, cost and reports offer
          Keys,        \* the keys of /keys
          Terms,       \* the searches a user types
          MaxTimers,   \* bound: timers running at a time
          Unset

ASSUME ScreensAssumption ==
    /\ ReadAtFirst \subseteq Notices
    /\ MaxTimers \in Nat \ {0}
    /\ Periods # {} /\ "" \in Terms
    /\ Unset \notin {"dark", "light", "system"}

Severities == {"critical", "warning", "info"}
Statuses == {"success", "blocked", "error"}

VARIABLES
    page,        \* the page shown
    ui,          \* the state of that page
    saved,       \* localStorage's ai-gcm-theme, which the tabs share
    prefers,     \* what the system prefers, "dark" or "light"
    theme,       \* ThemeProvider's theme
    resolved,    \* and the one it resolved it to
    root,        \* the class of the document's root
    painted,     \* ThemeProvider's mounted: its effect has run
    ours         \* history: no other tab has written saved since this one read or wrote it

themeVars == <<saved, prefers, theme, resolved, root, painted, ours>>
screenVars == <<page, ui, themeVars>>

(***************************************************************************)
(* The pages of the sidebar that exist, and what each keeps when mounted.  *)
(***************************************************************************)
Pages == {"/overview", "/cost", "/usage", "/budgets", "/keys", "/alerts", "/audit",
          "/reports", "/settings"}

Listed == [n \in Notices |-> n \in ReadAtFirst]
AnyPeriod == CHOOSE p \in Periods : TRUE

Fresh(p) ==
    CASE p = "/overview" -> [period |-> AnyPeriod, drawer |-> FALSE, read |-> Listed]
      [] p = "/alerts"   -> [filter |-> "all", read |-> Listed]
      [] p = "/keys"     -> [modal |-> FALSE, show |-> FALSE, ticked |-> Unset, timers |-> 0]
      [] p = "/settings" -> [tab |-> "organization", newTeam |-> FALSE, ticked |-> Unset,
                             timers |-> 0]
      [] p = "/budgets"  -> [modal |-> FALSE]
      [] p = "/usage"    -> [groupBy |-> "User", search |-> ""]
      [] p = "/audit"    -> [search |-> "", status |-> "all", dlpOnly |-> FALSE]
      [] p = "/cost"     -> [range |-> "Last 14 Days"]
      [] p = "/reports"  -> [month |-> AnyPeriod]

ScreenInit ==
    /\ page = "/overview" /\ ui = Fresh("/overview")
    /\ saved \in {Unset, "dark", "light", "system"}
    /\ prefers \in {"dark", "light"}
    /\ theme = "dark" /\ resolved = "dark" /\ root = "dark"
    /\ painted = FALSE /\ ours = TRUE

Become(u) == ui' = u /\ UNCHANGED <<page, themeVars>>

(* A link of the sidebar, or the overview's links to the budgets and the alerts. *)
OpenPage(p) ==
    /\ page' = p /\ p # page
    /\ ui' = Fresh(p)
    /\ UNCHANGED themeVars

-------------------------------------------------------------------------------
(***************************************************************************)
(* /overview: the figures of the chosen period, the feed and the drawer.   *)
(***************************************************************************)
Unread(read) == {n \in DOMAIN read : ~read[n]}
Marked(read, S) == [n \in DOMAIN read |-> read[n] \/ n \in S]
Without(read, n) == [m \in DOMAIN read \ {n} |-> read[m]]

(* Every card, chart and table of the page reads the figures of the period. *)
ChoosePeriod == \E p \in Periods : Become([ui EXCEPT !.period = p])

(* A notice of the feed: it is marked, and the drawer opens. *)
OpenNotice(n) ==
    /\ n \in DOMAIN ui.read
    /\ Become([ui EXCEPT !.read = Marked(@, {n}), !.drawer = TRUE])

OpenDrawer == Become([ui EXCEPT !.drawer = TRUE])

(* Mutation of DrawerMarkAll: it starts from the page's first list. *)
DrawerMarkAllFresh ==
    /\ ui.drawer /\ Unread(ui.read) # {}
    /\ Become([ui EXCEPT !.read = Marked(Listed, Notices)])

DrawerMarkAll ==
    /\ ui.drawer /\ Unread(ui.read) # {}
    /\ Become([ui EXCEPT !.read = Marked(@, Notices)])

DrawerMark(n) ==
    /\ ui.drawer /\ n \in Unread(ui.read)
    /\ Become([ui EXCEPT !.read = Marked(@, {n})])

DrawerDismiss(n) ==
    /\ ui.drawer /\ n \in DOMAIN ui.read
    /\ Become([ui EXCEPT !.read = Without(@, n)])

CloseDrawer == ui.drawer /\ Become([ui EXCEPT !.drawer = FALSE])

Overview ==
    /\ page = "/overview"
    /\ \/ ChoosePeriod \/ OpenDrawer \/ DrawerMarkAll \/ CloseDrawer
       \/ \E n \in Notices : OpenNotice(n) \/ DrawerMark(n) \/ DrawerDismiss(n)

-------------------------------------------------------------------------------
(***************************************************************************)
(* /alerts: the list again, with a filter that the cards and the bar set.  *)
(* Dismissing marks; "mark all" marks what the filter hides as well.       *)
(***************************************************************************)
AlertRows(u) == {n \in Notices : u.filter \in {"all", Severity[n]}}

FilterAlerts == \E s \in Severities \cup {"all"} : Become([ui EXCEPT !.filter = s])

DismissAlert ==
    \E n \in AlertRows(ui) \cap Unread(ui.read) :
        Become([ui EXCEPT !.read = Marked(@, {n})])

DismissAllAlerts ==
    /\ Unread(ui.read) # {}
    /\ Become([ui EXCEPT !.read = Marked(@, Notices)])

Alerts == page = "/alerts" /\ (FilterAlerts \/ DismissAlert \/ DismissAllAlerts)

-------------------------------------------------------------------------------
(***************************************************************************)
(* A tick, "copied" or "saved", is set by a click and cleared by a timer   *)
(* of 2 s that knows nothing of the clicks after its own: the timer of an  *)
(* earlier click ends the tick of a later one.                             *)
(***************************************************************************)
(* Mutation of Tick: a second click inside the two seconds is not timed, and *)
(* the first one's timer is taken off.                                     *)
TickRestarted(x) ==
    /\ ui.timers < MaxTimers
    /\ Become([ui EXCEPT !.ticked = x, !.timers = IF ui.ticked = Unset THEN 1 ELSE 0])

Tick(x) ==
    /\ ui.timers < MaxTimers
    /\ Become([ui EXCEPT !.ticked = x, !.timers = @ + 1])

TickTimer ==
    /\ page \in {"/keys", "/settings"} /\ ui.timers > 0
    /\ Become([ui EXCEPT !.ticked = Unset, !.timers = @ - 1])

(* /keys: the list, and a modal whose every button closes it and saves nothing. *)
OpenKeyModal == ~ui.modal /\ Become([ui EXCEPT !.modal = TRUE])
ShowKey == ui.modal /\ Become([ui EXCEPT !.show = ~@])
CloseKeyModal == ui.modal /\ Become([ui EXCEPT !.modal = FALSE, !.show = FALSE])
CopyHash == ~ui.modal /\ \E k \in Keys : Tick(k)

KeysPage == page = "/keys" /\ (OpenKeyModal \/ ShowKey \/ CloseKeyModal \/ CopyHash)

(* /settings: each tab but the teams' has its own save button, unmounted with it. *)
SettingsTabs == {"organization", "notifications", "teams", "security"}

ChooseTab ==
    \E t \in SettingsTabs \ {ui.tab} :
        Become([ui EXCEPT !.tab = t, !.ticked = Unset, !.timers = 0])
Save == ui.tab # "teams" /\ Tick("saved")
NewTeam == ui.tab = "teams" /\ Become([ui EXCEPT !.newTeam = ~@])

Settings == page = "/settings" /\ (ChooseTab \/ Save \/ NewTeam)

-------------------------------------------------------------------------------
(***************************************************************************)
(* The pages that only filter, and the modal of /budgets, which like that  *)
(* of /keys saves nothing.                                                 *)
(***************************************************************************)
Budgets == page = "/budgets" /\ Become([ui EXCEPT !.modal = ~@])

(* The grouping names the table; its rows are those of the users whatever it is. *)
Usage ==
    /\ page = "/usage"
    /\ \/ \E g \in {"User", "Team", "Provider", "Model"} : Become([ui EXCEPT !.groupBy = g])
       \/ \E s \in Terms : Become([ui EXCEPT !.search = s])

(* The three conditions are taken together; the totals above the table ignore them. *)
Audit ==
    /\ page = "/audit"
    /\ \/ \E s \in Terms : Become([ui EXCEPT !.search = s])
       \/ \E s \in Statuses \cup {"all"} : Become([ui EXCEPT !.status = s])
       \/ Become([ui EXCEPT !.dlpOnly = ~@])

(* The first range cuts the list of fourteen days; the others all show it whole. *)
Cost ==
    /\ page = "/cost"
    /\ \E r \in {"Last 7 Days", "Last 14 Days", "Month to Date", "Last 30 Days"} :
           Become([ui EXCEPT !.range = r])

(* The month selects the cards; the teams' table is the same for every month. *)
Reports == page = "/reports" /\ \E m \in Periods : Become([ui EXCEPT !.month = m])

-------------------------------------------------------------------------------
(***************************************************************************)
(* The theme: an inline script paints the root before React is there, the  *)
(* provider's effect resolves the saved theme and paints again.            *)
(***************************************************************************)
Resolve(t) == IF t = "system" THEN prefers ELSE t

(* A load of the document. *)
PaintFirst ==
    /\ root' = IF saved = "light" \/ (saved = Unset /\ prefers # "dark") THEN "light" ELSE "dark"
    /\ theme' = "dark" /\ resolved' = "dark" /\ painted' = FALSE
    /\ ui' = Fresh(page)
    /\ UNCHANGED <<page, saved, prefers, ours>>

MountTheme ==
    /\ ~painted /\ painted' = TRUE /\ ours' = TRUE
    /\ theme' = IF saved = Unset THEN "dark" ELSE saved
    /\ resolved' = Resolve(theme') /\ root' = resolved'
    /\ UNCHANGED <<page, ui, saved, prefers>>

(* Mutation of SystemChange: it follows the system whatever was chosen. *)
SystemChangeAlways ==
    /\ prefers' = IF prefers = "dark" THEN "light" ELSE "dark"
    /\ IF painted THEN resolved' = prefers' /\ root' = prefers' ELSE UNCHANGED <<resolved, root>>
    /\ UNCHANGED <<page, ui, saved, theme, painted, ours>>

SystemChange ==
    /\ prefers' = IF prefers = "dark" THEN "light" ELSE "dark"
    /\ IF painted /\ theme = "system" THEN resolved' = prefers' /\ root' = prefers'
       ELSE UNCHANGED <<resolved, root>>
    /\ UNCHANGED <<page, ui, saved, theme, painted, ours>>

(* The toggle is disabled until it is mounted. *)
ToggleTheme ==
    /\ painted
    /\ theme' = IF resolved = "dark" THEN "light" ELSE "dark"
    /\ saved' = theme' /\ resolved' = theme' /\ root' = theme' /\ ours' = TRUE
    /\ UNCHANGED <<page, ui, prefers, painted>>

(* The toggle of another tab, whose theme may be the other one.  This tab's *)
(* provider listens to no event of the storage.                             *)
OtherTabToggles ==
    /\ saved' \in {"dark", "light"} /\ ours' = FALSE
    /\ UNCHANGED <<page, ui, prefers, theme, resolved, root, painted>>

Theme == PaintFirst \/ MountTheme \/ SystemChange \/ ToggleTheme \/ OtherTabToggles

ScreenNext ==
    \/ \E p \in Pages : OpenPage(p)
    \/ Overview \/ Alerts \/ KeysPage \/ Settings \/ TickTimer
    \/ Budgets \/ Usage \/ Audit \/ Cost \/ Reports
    \/ Theme

(* A timer the browser was given fires. *)
ScreenSpec == ScreenInit /\ [][ScreenNext]_screenVars /\ WF_screenVars(TickTimer)

-------------------------------------------------------------------------------
Lists == UNION {[S -> BOOLEAN] : S \in SUBSET Notices}

UiType(p) ==
    CASE p = "/overview" -> [period : Periods, drawer : BOOLEAN, read : Lists]
      [] p = "/alerts"   -> [filter : Severities \cup {"all"}, read : [Notices -> BOOLEAN]]
      [] p = "/keys"     -> [modal : BOOLEAN, show : BOOLEAN, ticked : Keys \cup {Unset},
                                timers : 0..MaxTimers]
      [] p = "/settings" -> [tab : SettingsTabs, newTeam : BOOLEAN, ticked : {Unset, "saved"},
                                timers : 0..MaxTimers]
      [] p = "/budgets"  -> [modal : BOOLEAN]
      [] p = "/usage"    -> [groupBy : {"User", "Team", "Provider", "Model"}, search : Terms]
      [] p = "/audit"    -> [search : Terms, status : Statuses \cup {"all"}, dlpOnly : BOOLEAN]
      [] p = "/cost"     -> [range : {"Last 7 Days", "Last 14 Days", "Month to Date",
                                         "Last 30 Days"}]
      [] p = "/reports"  -> [month : Periods]

(* Every variable has its type, the state of a page that of its page. *)
ScreenOK ==
    /\ page \in Pages /\ ui \in UiType(page)
    /\ saved \in {Unset, "dark", "light", "system"}
    /\ theme \in {"dark", "light", "system"}
    /\ {prefers, resolved, root} \subseteq {"dark", "light"}
    /\ painted \in BOOLEAN /\ ours \in BOOLEAN

(***************************************************************************)
(* A tick does not stay: whatever is clicked in the meantime, "copied" and *)
(* "saved" are cleared, though the timer that does it may be an earlier    *)
(* click's (keys/page.tsx:99, settings/page.tsx:27).                       *)
(***************************************************************************)
Ticked == page \in {"/keys", "/settings"} /\ ui.ticked # Unset

TicksEnd == Ticked ~> ~Ticked

(***************************************************************************)
(* While the user stays on a page, a notice that was read does not become  *)
(* unread and one that was dismissed does not come back: each handler      *)
(* works on the list as the ones before it left it (overview/page.tsx:262- *)
(* 272, alerts/page.tsx:63-68).  Leaving the page undoes all of it.        *)
(***************************************************************************)
NothingUndone ==
    [][(page' = page /\ ~PaintFirst /\ page \in {"/overview", "/alerts"})
          => /\ DOMAIN ui'.read \subseteq DOMAIN ui.read
             /\ \A n \in DOMAIN ui'.read : ui.read[n] => ui'.read[n]]_screenVars

(***************************************************************************)
(* Once mounted, the document has the class of the theme the provider      *)
(* tells its children, resolved by what the system prefers now; and that   *)
(* theme is the one saved, or dark, unless another tab has saved one since *)
(* this tab last read or wrote it: through changes of the system, toggles  *)
(* and reloads (ThemeProvider.tsx:31-75, where the three are set one by    *)
(* one in three places).                                                   *)
(***************************************************************************)
ThemeFits ==
    painted => /\ root = resolved
               /\ resolved = Resolve(theme)
               /\ ours => theme = IF saved = Unset THEN "dark" ELSE saved
===============================================================================
