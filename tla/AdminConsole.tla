---------------------------- MODULE AdminConsole ----------------------------
(***************************************************************************)
(* The admin console in one browser window: app/login.js, index.html with  *)
(* the tabs of H-ui.admin.js, and the pages of app/ that the tabs show.    *)
(* Other windows share its localStorage and log in and out as they like.   *)
(*                                                                         *)
(* Every handler of a click runs to its end before the next one: a step    *)
(* is one event, with all the handlers it bubbles to.  The answers of the  *)
(* server come whenever they like.  A page that is closed or loaded again  *)
(* takes its unanswered request with it.                                   *)
(***************************************************************************)
EXTENDS Integers, SequencesExt

CONSTANTS
  Dashboard,  \* the page of the tab index.html starts with
  Page,       \* the pages of the menu
  Account,    \* what may be typed as an account
  Admin,      \* the account the server knows
  Empty,      \* an empty account field
  Null

ASSUME ConsoleAssumption ==
  /\ Dashboard \notin Page /\ Admin \in Account /\ Empty \notin Account
  /\ Null \notin Account \cup {Empty}

VARIABLES
  at,      \* the page the window shows: "login" or "index"
  typed,   \* the account field of login.html
  asked,   \* the accounts of the login requests under way
  store,   \* localStorage: the account it names, or Null without a token
  tabs,    \* the li elements of #min_title_list
  frames,  \* the .show_iframe elements of #iframe_box
  num      \* the tab the strip of tabs is scrolled to, from 0

vars == <<at, typed, asked, store, tabs, frames, num>>

Tab == [href : Page \cup {Dashboard}, active : BOOLEAN]

\* What has become of loadData: the script has not run, it found no token, it
\* waits, it has drawn its rows, or it has no answer to draw.
Frame == [src : Page \cup {Dashboard}, visible : BOOLEAN,
          load : {"new", "signedOut", "asked", "rows", "none"}]

ConsoleTypeOK ==
  /\ at \in {"login", "index"}
  /\ typed \in Account \cup {Empty}
  /\ asked \subseteq Account
  /\ store \in Account \cup {Empty, Null}
  /\ tabs \in Seq(Tab) /\ frames \in Seq(Frame)
  /\ num \in Int

Fresh(p) == [src |-> p, visible |-> TRUE, load |-> "new"]

\* index.html as the server sends it, before its script looks for a token.
Blank == /\ tabs' = <<[href |-> Dashboard, active |-> TRUE]>>
         /\ frames' = <<Fresh(Dashboard)>>
         /\ num' = 0

Init ==
  /\ at = "login" /\ typed = Empty /\ asked = {} /\ store = Null
  /\ tabs = <<>> /\ frames = <<>> /\ num = 0

-----------------------------------------------------------------------------
(* Signing in and out.                                                     *)

\* moveToLogin: the page is left, with all that was under way on it.
ToLogin == /\ at' = "login" /\ typed' = Empty /\ asked' = {}
           /\ tabs' = <<>> /\ frames' = <<>> /\ num' = 0

\* index.html is loaded; without a token its script moves on to the login page.
LoadIndex(stored) ==
  IF stored = Null THEN ToLogin
  ELSE at' = "index" /\ typed' = Empty /\ asked' = {} /\ Blank

\* Somebody opens or reloads index.html.
OpenIndex == LoadIndex(store) /\ UNCHANGED store

Type(a) ==
  /\ at = "login" /\ typed' = a
  /\ UNCHANGED <<at, asked, store, tabs, frames, num>>

\* Seeded fault: the account is not checked.
LoginUnchecked ==
  /\ at = "login"
  /\ asked' = asked \cup {typed}
  /\ UNCHANGED <<at, typed, store, tabs, frames, num>>

\* _login, which goes no further without an account.
Login ==
  /\ at = "login" /\ typed # Empty
  /\ asked' = asked \cup {typed}
  /\ UNCHANGED <<at, typed, store, tabs, frames, num>>

\* The callback of _login: it stores the account the field holds now.
LoginAnswered(a) ==
  /\ a \in asked
  /\ \/ /\ a = Admin
        /\ store' = typed
        /\ LoadIndex(store')
     \/ /\ a # Admin
        /\ asked' = asked \ {a}
        /\ UNCHANGED <<at, typed, store, tabs, frames, num>>

\* The request times out: the error callback only writes to the log.
LoginFails(a) ==
  /\ a \in asked
  /\ asked' = asked \ {a}
  /\ UNCHANGED <<at, typed, store, tabs, frames, num>>

\* logout: localStorage.clear().
Logout == at = "index" /\ store' = Null /\ ToLogin

\* Another window logs in or out.
OtherWindow ==
  /\ store' \in {Admin, Null}
  /\ UNCHANGED <<at, typed, asked, tabs, frames, num>>

-----------------------------------------------------------------------------
(* The tabs.  In the handlers elements are numbered from 0, and eq(-1) is  *)
(* the last one.                                                           *)

\* jQuery's eq, as a position counted from 1.
Eq(s, n) == IF n < 0 THEN Len(s) + n + 1 ELSE n + 1

\* removeClass("active").eq(n).addClass("active") on the tabs s.
Activate(s, n) == [i \in 1..Len(s) |-> [s[i] EXCEPT !.active = (i = Eq(s, n))]]

\* Seeded fault: a frame is hidden by taking it out of the document, and the page
\* in it is loaded again when it comes back.
ShowAttached(s, n) ==
  [i \in 1..Len(s) |-> IF i = Eq(s, n) THEN [s[i] EXCEPT !.visible = TRUE]
                       ELSE [s[i] EXCEPT !.visible = FALSE, !.load = "new"]]

\* hide().eq(n).show() on the frames s.
Show(s, n) == [i \in 1..Len(s) |-> [s[i] EXCEPT !.visible = (i = Eq(s, n))]]

IndexOfTab(p) == SelectInSeq(tabs, LAMBDA t : t.href = p) - 1

\* Seeded fault: a page that is open is opened once more.
HuiAdminTabAgain(p) ==
  /\ at = "index"
  /\ tabs' = Append(Activate(tabs, Len(tabs)), [href |-> p, active |-> TRUE])
  /\ frames' = Append(Show(frames, Len(frames)), Fresh(p))
  /\ Len(tabs) < 5
  /\ UNCHANGED <<at, typed, asked, store, num>>

\* Hui_admin_tab: a click in the menu shows the tab of the page and loads the
\* page again, or else makes a new tab (creatIframe).
HuiAdminTab(p) ==
  LET n == IndexOfTab(p) IN
  /\ at = "index"
  /\ \/ /\ n >= 0
        /\ tabs' = Activate(tabs, n)
        /\ frames' = [Show(frames, n) EXCEPT ![n + 1].load = "new"]
     \/ /\ n = -1
        /\ tabs' = Append(Activate(tabs, Len(tabs)), [href |-> p, active |-> TRUE])
        /\ frames' = Append(Show(frames, Len(frames)), Fresh(p))
  /\ UNCHANGED <<at, typed, asked, store, num>>

\* A click on tab n.
ClickTab(n) ==
  /\ at = "index" /\ n < Len(tabs)
  /\ tabs' = Activate(tabs, n) /\ frames' = Show(frames, n)
  /\ UNCHANGED <<at, typed, asked, store, num>>

Down(n) == IF n = 0 THEN 0 ELSE n - 1

\* Seeded fault: the click on the cross does not bubble to the tab.
CloseTabQuietly(n) ==
  /\ at = "index" /\ n \in 1..Len(tabs) - 1
  /\ tabs' = RemoveAt(tabs, n + 1)
  /\ frames' = RemoveAt(frames, n + 1)
  /\ num' = Down(num)
  /\ UNCHANGED <<at, typed, asked, store>>

\* Seeded fault: the strip of tabs stays where it was scrolled to.
CloseTabUnscrolled(n) ==
  /\ at = "index" /\ n \in 1..Len(tabs) - 1
  /\ tabs' = Activate(RemoveAt(tabs, n + 1), -1)
  /\ frames' = Show(RemoveAt(frames, n + 1), -1)
  /\ UNCHANGED <<at, typed, asked, store, num>>

\* A click on the cross of tab n, which the first tab has not got: the tab and
\* its frame go.  The click bubbles to the handler of the tab, whose index is
\* -1 by now.
CloseTab(n) ==
  /\ at = "index" /\ n \in 1..Len(tabs) - 1
  /\ tabs' = Activate(RemoveAt(tabs, n + 1), -1)
  /\ frames' = Show(RemoveAt(frames, n + 1), -1)
  /\ num' = Down(num)
  /\ UNCHANGED <<at, typed, asked, store>>

\* A double click on tab n closes it and shows the one before it.
DoubleClick(n) ==
  /\ at = "index" /\ n \in 1..Len(tabs) - 1
  /\ tabs' = Activate(RemoveAt(tabs, n + 1), n - 1)
  /\ frames' = Show(RemoveAt(frames, n + 1), n - 1)
  /\ num' = Down(num)
  /\ UNCHANGED <<at, typed, asked, store>>

\* closeall of the context menu: a click on every cross there is.
CloseAll ==
  /\ at = "index"
  /\ tabs' = Activate(SubSeq(tabs, 1, 1), -1)
  /\ frames' = Show(SubSeq(frames, 1, 1), -1)
  /\ num' = IF num < Len(tabs) - 1 THEN 0 ELSE num - (Len(tabs) - 1)
  /\ Len(tabs) > 1
  /\ UNCHANGED <<at, typed, asked, store>>

\* The arrows that scroll the strip of tabs.
Scroll ==
  /\ at = "index"
  /\ num' \in {Down(num), IF num = Len(tabs) - 1 THEN num ELSE num + 1}
  /\ UNCHANGED <<at, typed, asked, store, tabs, frames>>

-----------------------------------------------------------------------------
(* The pages in the frames.                                                *)

Becomes(i, l) ==
  /\ frames' = [frames EXCEPT ![i].load = l]
  /\ UNCHANGED <<at, typed, asked, store, tabs, num>>

\* loadData, run by the script of the page: checkAuth, then ajaxPost.
LoadData(i) ==
  /\ frames[i].load = "new"
  /\ Becomes(i, IF store = Null THEN "signedOut" ELSE "asked")

\* The callback draws the rows (createRow) or tells that there is an error; the
\* request may time out, and then nothing is said.
Answered(i) ==
  /\ frames[i].load = "asked"
  /\ Becomes(i, "rows") \/ Becomes(i, "none")

-----------------------------------------------------------------------------
User ==
  \/ OpenIndex \/ Login \/ Logout \/ OtherWindow \/ Scroll \/ CloseAll
  \/ \E a \in Account \cup {Empty} : Type(a)
  \/ \E p \in Page : HuiAdminTab(p)
  \/ \E n \in 0..Len(tabs) - 1 : ClickTab(n) \/ CloseTab(n) \/ DoubleClick(n)

Loads(p) ==
  \E i \in 1..Len(frames) : frames[i].src = p /\ (LoadData(i) \/ Answered(i))

Next ==
  \/ User
  \/ \E a \in Account : LoginAnswered(a) \/ LoginFails(a)
  \/ \E p \in Page \cup {Dashboard} : Loads(p)

Spec == Init /\ [][Next]_vars

-----------------------------------------------------------------------------
(* Properties.                                                             *)

Only(s, Test(_)) == Cardinality({i \in 1..Len(s) : Test(s[i])}) = 1

\* Whatever is clicked, the n-th tab belongs to the n-th frame, exactly one tab
\* is active, and the frame of that tab is the only one to be seen.
TabsAgree ==
  /\ Len(tabs) = Len(frames)
  /\ \A i \in 1..Len(tabs) : /\ tabs[i].href = frames[i].src
                             /\ tabs[i].active = frames[i].visible
  /\ at = "index" => Only(tabs, LAMBDA t : t.active)

\* No page is open twice, and the dashboard is always open, as the first tab.
OneTabPerPage ==
  /\ \A i, j \in 1..Len(tabs) : tabs[i].href = tabs[j].href => i = j
  /\ at = "index" => tabs # <<>> /\ tabs[1].href = Dashboard

\* The strip of tabs is scrolled to a tab that exists, whichever were closed.
ScrolledToATab == at = "index" => num \in 0..Len(tabs) - 1

\* Closing, opening and turning to one tab leaves the pages of the others alone:
\* a page that has drawn its rows shows them as long as its tab is open, unless it
\* is loaded again as the one page that is seen.
PagesKeepRows ==
  [][\A i \in 1..Len(frames), j \in 1..Len(frames') :
       frames[i].load = "rows" /\ frames'[j].src = frames[i].src =>
         \/ frames'[j].load = "rows"
         \/ frames'[j].load = "new" /\ frames'[j].visible]_vars
=============================================================================
