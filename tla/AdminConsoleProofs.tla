------------------------- MODULE AdminConsoleProofs -------------------------
(***************************************************************************)
(* The console for any pages, accounts and number of tabs: proofs of       *)
(* ConsoleTypeOK, TabsAgree, OneTabPerPage, ScrolledToATab and             *)
(* PagesKeepRows.                                                          *)
(*                                                                         *)
(* None of the invariants is inductive alone: the strip is scrolled        *)
(* within the tabs that are left because no handler ever closes the first  *)
(* one, and a page is opened once because the handlers keep the n-th tab   *)
(* and the n-th frame together.  ConsoleInv puts them in one, with the     *)
(* position of the tab that is active.                                     *)
(***************************************************************************)
EXTENDS AdminConsole, FiniteSetTheorems, SequenceTheorems, WellFoundedInduction, TLAPS

-----------------------------------------------------------------------------
(* Sequences.                                                              *)

\* A set of positions has a first one.
LEMMA MinType ==
  ASSUME NEW n \in Nat, NEW S \in SUBSET (1..n), S # {}
  PROVE  Min(S) \in S /\ \A j \in S : Min(S) <= j
<1> DEFINE R == {p \in Nat \X Nat : p[1] < p[2]}
<1>1. IsWellFoundedOn(R, Nat)
  BY NatLessThanWellFounded DEF OpToRel
<1>2. PICK m \in S : \A j \in S : <<j, m>> \notin R
  <2>1. S \subseteq Nat
    OBVIOUS
  <2>. HIDE DEF R
  <2>. QED  BY <1>1, <2>1, WFMin
<1>3. ASSUME NEW j \in S PROVE m <= j
  <2>1. j \in Nat /\ m \in Nat
    OBVIOUS
  <2>2. ~(j < m)
    BY <1>2, <2>1
  <2>. QED  BY <2>1, <2>2
<1>. QED  BY <1>3 DEF Min

\* RemoveAt closes the gap.
LEMMA RemoveAtFacts ==
  ASSUME NEW S, NEW s \in Seq(S), NEW n \in 1..Len(s)
  PROVE  /\ RemoveAt(s, n) \in Seq(S)
         /\ Len(RemoveAt(s, n)) = Len(s) - 1
         /\ \A i \in 1..Len(s) - 1 : RemoveAt(s, n)[i] = IF i < n THEN s[i] ELSE s[i + 1]
<1> DEFINE a == SubSeq(s, 1, n - 1)
           b == SubSeq(s, n + 1, Len(s))
<1>1. /\ a \in Seq(S) /\ Len(a) = n - 1
      /\ \A i \in 1..n - 1 : a[i] = s[i]
  <2>1. 1 \in Int /\ n - 1 \in Int /\ \A i \in 1..n - 1 : s[i] \in S
    OBVIOUS
  <2>2. /\ a \in Seq(S) /\ Len(a) = IF 1 <= n - 1 THEN (n - 1) - 1 + 1 ELSE 0
        /\ \A i \in 1..(n - 1) - 1 + 1 : a[i] = s[1 + i - 1]
    BY <2>1, SubSeqProperties
  <2>. HIDE DEF a
  <2>3. n \in Int /\ n >= 1
    OBVIOUS
  <2>4. Len(a) = n - 1
    BY <2>2, <2>3
  <2>5. ASSUME NEW i \in 1..n - 1 PROVE a[i] = s[i]
    <3>1. i \in 1..(n - 1) - 1 + 1 /\ 1 + i - 1 = i
      BY <2>3
    <3>. QED  BY <2>2, <3>1
  <2>. QED  BY <2>2, <2>4, <2>5
<1>2. /\ b \in Seq(S) /\ Len(b) = Len(s) - n
      /\ \A i \in 1..Len(s) - n : b[i] = s[n + i]
  <2>1. n + 1 \in Int /\ Len(s) \in Int /\ \A i \in n + 1..Len(s) : s[i] \in S
    OBVIOUS
  <2>2. /\ b \in Seq(S) /\ Len(b) = IF n + 1 <= Len(s) THEN Len(s) - (n + 1) + 1 ELSE 0
        /\ \A i \in 1..Len(s) - (n + 1) + 1 : b[i] = s[n + 1 + i - 1]
    BY <2>1, SubSeqProperties
  <2>. HIDE DEF b
  <2>3. n \in Int /\ Len(s) \in Int /\ n <= Len(s)
    OBVIOUS
  <2>4. Len(b) = Len(s) - n
    BY <2>2, <2>3
  <2>5. ASSUME NEW i \in 1..Len(s) - n PROVE b[i] = s[n + i]
    <3>1. i \in 1..Len(s) - (n + 1) + 1 /\ n + 1 + i - 1 = n + i
      BY <2>3
    <3>. QED  BY <2>2, <3>1
  <2>. QED  BY <2>2, <2>4, <2>5
<1>3. RemoveAt(s, n) = a \o b
  BY DEF RemoveAt
<1>. HIDE DEF a, b
<1>4. /\ a \o b \in Seq(S) /\ Len(a \o b) = Len(a) + Len(b)
      /\ \A i \in 1..Len(a) + Len(b) : (a \o b)[i] = IF i <= Len(a) THEN a[i] ELSE b[i - Len(a)]
  BY <1>1, <1>2, ConcatProperties
<1>. QED  BY <1>1, <1>2, <1>3, <1>4

-----------------------------------------------------------------------------
(* The tabs and their frames.                                              *)

\* The n-th tab belongs to the n-th frame, no page is open twice, and the first
\* tab is that of the dashboard.
Rows(ts, fs) ==
  /\ ts \in Seq(Tab) /\ fs \in Seq(Frame) /\ Len(ts) = Len(fs) /\ Len(ts) > 0
  /\ \A i \in 1..Len(ts) : ts[i].href = fs[i].src
  /\ \A i, j \in 1..Len(ts) : ts[i].href = ts[j].href => i = j
  /\ ts[1].href = Dashboard

\* Tab a alone is active, and its frame alone is to be seen.
Lit(ts, fs, a) ==
  /\ a \in 1..Len(ts)
  /\ \A i \in 1..Len(ts) : ts[i].active = (i = a) /\ fs[i].visible = (i = a)

SignedOut == tabs = <<>> /\ frames = <<>> /\ num = 0

Tabbed ==
  /\ Rows(tabs, frames) /\ \E a \in 1..Len(tabs) : Lit(tabs, frames, a)
  /\ num \in 0..Len(tabs) - 1

Accounts ==
  /\ typed \in Account \cup {Empty}
  /\ asked \subseteq Account
  /\ store \in Account \cup {Empty, Null}

ConsoleInv ==
  /\ Accounts
  /\ \/ at = "login" /\ SignedOut
     \/ at = "index" /\ Tabbed

LEMMA RowsFacts ==
  ASSUME NEW ts, NEW fs
  PROVE  Rows(ts, fs) <=>
           /\ ts \in Seq(Tab) /\ fs \in Seq(Frame) /\ Len(ts) = Len(fs) /\ Len(ts) > 0
           /\ \A i \in 1..Len(ts) : ts[i].href = fs[i].src
           /\ \A i, j \in 1..Len(ts) : ts[i].href = ts[j].href => i = j
           /\ ts[1].href = Dashboard
BY DEF Rows

\* removeClass, eq(n) and addClass on the tabs, hide, eq(n) and show on the
\* frames: the rows stay, and position n is lit.
LEMMA LightOn ==
  ASSUME NEW ts, NEW fs, Rows(ts, fs), NEW n \in Int
  PROVE  /\ Rows(Activate(ts, n), Show(fs, n))
         /\ Len(Activate(ts, n)) = Len(ts)
         /\ Eq(ts, n) \in 1..Len(ts) => Lit(Activate(ts, n), Show(fs, n), Eq(ts, n))
         /\ Eq(ts, n) \notin 1..Len(ts) =>
              \A i \in 1..Len(ts) : ~Activate(ts, n)[i].active /\ ~Show(fs, n)[i].visible
<1> DEFINE k == Eq(ts, n)
           as == Activate(ts, n)
           ss == Show(fs, n)
<1>1. /\ ts \in Seq(Tab) /\ fs \in Seq(Frame) /\ Len(ts) = Len(fs) /\ Len(ts) > 0
      /\ Len(ts) \in Nat /\ Eq(fs, n) = k
  BY DEF Rows, Eq
<1>2. /\ as = [i \in 1..Len(ts) |-> [ts[i] EXCEPT !.active = (i = k)]]
      /\ ss = [i \in 1..Len(ts) |-> [fs[i] EXCEPT !.visible = (i = k)]]
  BY <1>1 DEF Activate, Show
<1>. HIDE DEF k, as, ss
<1>3. ASSUME NEW i \in 1..Len(ts)
      PROVE  /\ [ts[i] EXCEPT !.active = (i = k)] \in Tab
             /\ [ts[i] EXCEPT !.active = (i = k)].href = ts[i].href
             /\ [ts[i] EXCEPT !.active = (i = k)].active = (i = k)
  <2>1. ts[i] \in Tab
    BY <1>1
  <2>. QED  BY <2>1, Zenon DEF Tab
<1>4. ASSUME NEW i \in 1..Len(ts)
      PROVE  /\ [fs[i] EXCEPT !.visible = (i = k)] \in Frame
             /\ [fs[i] EXCEPT !.visible = (i = k)].src = fs[i].src
             /\ [fs[i] EXCEPT !.visible = (i = k)].visible = (i = k)
  <2>1. fs[i] \in Frame
    BY <1>1
  <2>. QED  BY <2>1, Zenon DEF Frame
<1>5. /\ as \in Seq(Tab) /\ Len(as) = Len(ts)
      /\ \A i \in 1..Len(ts) : as[i] = [ts[i] EXCEPT !.active = (i = k)]
  BY <1>1, <1>2, <1>3
<1>6. /\ ss \in Seq(Frame) /\ Len(ss) = Len(ts)
      /\ \A i \in 1..Len(ts) : ss[i] = [fs[i] EXCEPT !.visible = (i = k)]
  BY <1>1, <1>2, <1>4
<1>7. \A i \in 1..Len(ts) : as[i].href = ts[i].href /\ ss[i].src = fs[i].src
  BY <1>3, <1>4, <1>5, <1>6
<1>8. \A i \in 1..Len(ts) : as[i].active = (i = k) /\ ss[i].visible = (i = k)
  BY <1>3, <1>4, <1>5, <1>6, ZenonT(30)
<1>9. Rows(as, ss)
  <2>1. 1 \in 1..Len(ts)
    BY <1>1
  <2>2. as[1].href = Dashboard /\ Len(as) = Len(ss) /\ Len(as) > 0
    BY <1>1, <1>5, <1>6, <1>7, <2>1, RowsFacts
  <2>3. \A i \in 1..Len(as) : as[i].href = ss[i].src
    BY <1>5, <1>7, RowsFacts
  <2>4. \A i, j \in 1..Len(as) : as[i].href = as[j].href => i = j
    BY <1>5, <1>7, RowsFacts
  <2>. QED  BY <1>5, <1>6, <2>2, <2>3, <2>4, Zenon DEF Rows
<1>10. k \in 1..Len(ts) => Lit(as, ss, k)
  BY <1>5, <1>8, Zenon DEF Lit
<1>11. k \notin 1..Len(ts) => \A i \in 1..Len(ts) : ~as[i].active /\ ~ss[i].visible
  BY <1>8, Zenon
<1>. QED  BY <1>5, <1>9, <1>10, <1>11 DEF as, ss, k

\* A cross: a tab and its frame go, and the tabs behind them move up.
LEMMA OneLess ==
  ASSUME NEW ts, NEW fs, Rows(ts, fs), NEW n \in 2..Len(ts)
  PROVE  /\ Rows(RemoveAt(ts, n), RemoveAt(fs, n))
         /\ Len(RemoveAt(ts, n)) = Len(ts) - 1
<1> DEFINE as == RemoveAt(ts, n)
           ss == RemoveAt(fs, n)
<1>1. ts \in Seq(Tab) /\ fs \in Seq(Frame) /\ Len(ts) = Len(fs) /\ Len(ts) \in Nat
      /\ n \in 1..Len(ts) /\ n \in 1..Len(fs)
  BY DEF Rows
<1>2. /\ as \in Seq(Tab) /\ Len(as) = Len(ts) - 1
      /\ \A i \in 1..Len(ts) - 1 : as[i] = IF i < n THEN ts[i] ELSE ts[i + 1]
  BY <1>1, RemoveAtFacts
<1>3. /\ ss \in Seq(Frame) /\ Len(ss) = Len(ts) - 1
      /\ \A i \in 1..Len(ts) - 1 : ss[i] = IF i < n THEN fs[i] ELSE fs[i + 1]
  BY <1>1, RemoveAtFacts
<1>. HIDE DEF as, ss
<1>4. ASSUME NEW i \in 1..Len(as) PROVE as[i].href = ss[i].src
  <2> DEFINE k == IF i < n THEN i ELSE i + 1
  <2>0. i \in 1..Len(ts) - 1
    BY <1>2
  <2>1. as[i] = ts[k] /\ ss[i] = fs[k]
    BY <2>0, <1>2, <1>3
  <2>a. k \in 1..Len(ts)
    BY <2>0, <1>1
  <2>. HIDE DEF k
  <2>2. ts[k].href = fs[k].src
    BY <2>a, RowsFacts
  <2>. QED  BY <2>1, <2>2
<1>5. \A i, j \in 1..Len(as) : as[i].href = as[j].href => i = j
  <2>1. SUFFICES ASSUME NEW i \in 1..Len(as), NEW j \in 1..Len(as), as[i].href = as[j].href
                 PROVE  i = j
    OBVIOUS
  <2> DEFINE Was(x) == IF x < n THEN x ELSE x + 1
  <2>2. Was(i) \in 1..Len(ts) /\ Was(j) \in 1..Len(ts)
    BY <1>1, <1>2
  <2>3. as[i] = ts[Was(i)] /\ as[j] = ts[Was(j)]
    BY <1>2
  <2>4. Was(i) = Was(j)
    BY <2>1, <2>2, <2>3 DEF Rows
  <2>. QED  BY <1>1, <1>2, <2>4
<1>6. as[1].href = Dashboard /\ Len(as) > 0
  <2>1. 1 \in 1..Len(ts) - 1 /\ 1 < n
    BY <1>1
  <2>2. as[1] = ts[1]
    BY <1>2, <2>1
  <2>3. Len(as) > 0
    BY <1>2, <2>1
  <2>. QED  BY <2>2, <2>3 DEF Rows
<1>7. Rows(as, ss)
  BY <1>2, <1>3, <1>4, <1>5, <1>6, Zenon DEF Rows
<1>. QED  BY <1>2, <1>7 DEF as, ss

\* creatIframe: a tab and a frame for a page that is not open.
LEMMA OneMore ==
  ASSUME NEW ts, NEW fs, Rows(ts, fs), NEW p \in Page,
         \A i \in 1..Len(ts) : ts[i].href # p /\ ~ts[i].active /\ ~fs[i].visible
  PROVE  LET as == Append(ts, [href |-> p, active |-> TRUE])
             ss == Append(fs, Fresh(p))
         IN  Rows(as, ss) /\ Len(as) = Len(ts) + 1 /\ Lit(as, ss, Len(as))
<1> DEFINE t == [href |-> p, active |-> TRUE]
           f == Fresh(p)
           as == Append(ts, t)
           ss == Append(fs, f)
           m == Len(ts)
<1>1. /\ ts \in Seq(Tab) /\ fs \in Seq(Frame) /\ Len(fs) = m /\ m \in Nat /\ m > 0
  BY DEF Rows
<1>2. t \in Tab /\ f \in Frame /\ t.href = p /\ f.src = p /\ t.active = TRUE /\ f.visible = TRUE
  BY DEF Tab, Frame, Fresh
<1>. HIDE DEF t, f
<1>3. /\ as \in Seq(Tab) /\ Len(as) = m + 1 /\ as[m + 1] = t
      /\ \A i \in 1..m : as[i] = ts[i]
  BY <1>1, <1>2, AppendProperties
<1>4. /\ ss \in Seq(Frame) /\ Len(ss) = m + 1 /\ ss[m + 1] = f
      /\ \A i \in 1..m : ss[i] = fs[i]
  BY <1>1, <1>2, AppendProperties
<1>. HIDE DEF as, ss, m
<1>5. \A i \in 1..m + 1 : i = m + 1 \/ i \in 1..m
  BY <1>1
<1>6. \A i \in 1..m : i # m + 1
  BY <1>1
<1>7. \A i \in 1..m + 1 : as[i].href = ss[i].src
  BY <1>2, <1>3, <1>4, <1>5 DEF Rows, m
<1>8. \A i, j \in 1..m + 1 : as[i].href = as[j].href => i = j
  <2>1. \A i, j \in 1..m : ts[i].href = ts[j].href => i = j
    BY DEF Rows, m
  <2>2. \A i \in 1..m : as[i].href = ts[i].href /\ as[i].href # p
    BY <1>3 DEF m
  <2>3. as[m + 1].href = p
    BY <1>2, <1>3
  <2>4. ASSUME NEW i \in 1..m + 1, NEW j \in 1..m + 1, as[i].href = as[j].href
        PROVE  i = j
    <3>1. CASE i \in 1..m /\ j \in 1..m
      BY <3>1, <2>1, <2>2, <2>4
    <3>2. CASE i = m + 1 \/ j = m + 1
      BY <3>2, <1>5, <2>2, <2>3, <2>4
    <3>. QED  BY <1>5, <3>1, <3>2
  <2>. QED  BY <2>4
<1>9. as[1].href = Dashboard
  <2>0. 1 \in 1..m
    BY <1>1
  <2>1. as[1] = ts[1]
    BY <1>3, <2>0
  <2>. QED  BY <2>1 DEF Rows
<1>10. Rows(as, ss)
  <2>1. Len(as) = Len(ss) /\ Len(as) > 0
    BY <1>1, <1>3, <1>4
  <2>. QED  BY <1>3, <1>4, <1>7, <1>8, <1>9, <2>1, Zenon DEF Rows
<1>11. \A i \in 1..m + 1 : as[i].active = (i = m + 1) /\ ss[i].visible = (i = m + 1)
  <2>1. \A i \in 1..m : ts[i] \in Tab /\ fs[i] \in Frame
    BY <1>1 DEF m
  <2>2. \A i \in 1..m : as[i].active = FALSE /\ ss[i].visible = FALSE
    BY <2>1, <1>3, <1>4, Zenon DEF m, Tab, Frame
  <2>. QED  BY <2>2, <1>2, <1>3, <1>4, <1>5, <1>6, Zenon
<1>12. Lit(as, ss, m + 1)
  <2>1. m + 1 \in 1..m + 1
    BY <1>1
  <2>. QED  BY <1>3, <1>11, <2>1, Zenon DEF Lit
<1>. QED  BY <1>3, <1>10, <1>12 DEF as, ss, m, t, f

-----------------------------------------------------------------------------
(* The handlers.                                                           *)

\* The row of a page, counted from 0, or -1.
LEMMA IndexOfTabFacts ==
  ASSUME tabs \in Seq(Tab), NEW p
  PROVE  \/ /\ IndexOfTab(p) + 1 \in 1..Len(tabs) /\ IndexOfTab(p) \in Nat
         \/ IndexOfTab(p) = -1 /\ \A i \in 1..Len(tabs) : tabs[i].href # p
<1> DEFINE I == {i \in 1..Len(tabs) : tabs[i].href = p}
<1>1. IndexOfTab(p) = (IF I # {} THEN Min(I) ELSE 0) - 1
  BY DEF IndexOfTab, SelectInSeq
<1>2. CASE I = {}
  BY <1>1, <1>2
<1>3. CASE I # {}
  <2>1. I \in SUBSET (1..Len(tabs)) /\ Len(tabs) \in Nat
    OBVIOUS
  <2>2. Min(I) \in 1..Len(tabs)
    <3>. HIDE DEF I
    <3>. QED  BY <1>3, <2>1, MinType
  <2>. QED  BY <1>1, <1>3, <2>2
<1>. QED  BY <1>2, <1>3

LEMMA TabbedFacts ==
  ASSUME Tabbed
  PROVE  /\ tabs \in Seq(Tab) /\ frames \in Seq(Frame) /\ Len(tabs) = Len(frames)
         /\ Len(tabs) \in Nat /\ Len(tabs) > 0
         /\ num \in 0..Len(tabs) - 1 /\ Down(num) \in 0..Len(tabs) - 1
         /\ Len(tabs) > 1 => Down(num) \in 0..Len(tabs) - 2
         /\ \A i \in 1..Len(tabs) : tabs[i].href = Dashboard => i = 1
<1>1. /\ tabs \in Seq(Tab) /\ frames \in Seq(Frame) /\ Len(tabs) = Len(frames)
      /\ Len(tabs) \in Nat /\ Len(tabs) > 0 /\ num \in 0..Len(tabs) - 1
  BY DEF Tabbed, Rows
<1>2. 1 \in 1..Len(tabs)
  BY <1>1
<1>3. \A i \in 1..Len(tabs) : tabs[i].href = Dashboard => i = 1
  BY <1>2 DEF Tabbed, Rows
<1>4. Down(num) \in 0..Len(tabs) - 1 /\ (Len(tabs) > 1 => Down(num) \in 0..Len(tabs) - 2)
  BY <1>1 DEF Down
<1>. QED  BY <1>1, <1>3, <1>4

\* A handler of index.html that leaves one tab active.
LEMMA TabbedStays ==
  ASSUME ConsoleInv, at = "index", UNCHANGED <<at, typed, asked, store>>,
         NEW ts, tabs' = ts, NEW fs, frames' = fs, Rows(ts, fs),
         NEW a \in Int, a \in 1..Len(ts) => Lit(ts, fs, a), a \in 1..Len(ts),
         num' \in 0..Len(ts) - 1
  PROVE  ConsoleInv'
<1>1. Tabbed'
  BY DEF Tabbed
<1>. QED  BY <1>1 DEF ConsoleInv, Accounts

LEMMA ToLoginOK ==
  ASSUME ToLogin, store' \in Account \cup {Empty, Null}
  PROVE  ConsoleInv'
<1>1. SignedOut' /\ at' = "login"
  BY DEF ToLogin, SignedOut
<1>2. Accounts'
  BY DEF ToLogin, Accounts
<1>. QED  BY <1>1, <1>2 DEF ConsoleInv

\* Blank is one row, of the dashboard.
LEMMA LoadIndexOK ==
  ASSUME ConsoleInv, store' \in Account \cup {Empty, Null}, LoadIndex(store')
  PROVE  ConsoleInv'
<1>1. CASE ToLogin
  BY <1>1, ToLoginOK
<1>2. CASE at' = "index" /\ typed' = Empty /\ asked' = {} /\ Blank
  <2> DEFINE t == [href |-> Dashboard, active |-> TRUE]
             f == Fresh(Dashboard)
  <2>1. /\ t \in Tab /\ f \in Frame /\ t.href = Dashboard /\ f.src = Dashboard
        /\ t.active = TRUE /\ f.visible = TRUE
    BY DEF Tab, Frame, Fresh
  <2>2. tabs' = <<t>> /\ frames' = <<f>> /\ num' = 0
    BY <1>2 DEF Blank
  <2>. HIDE DEF t, f
  <2>3. /\ <<t>> \in Seq(Tab) /\ <<f>> \in Seq(Frame) /\ Len(<<t>>) = 1 /\ Len(<<f>>) = 1
        /\ <<t>>[1] = t /\ <<f>>[1] = f
    BY <2>1
  <2>4. \A i \in 1..Len(<<t>>) : i = 1
    BY <2>3
  <2>5. Rows(<<t>>, <<f>>)
    BY <2>1, <2>3, <2>4 DEF Rows
  <2>6. Lit(<<t>>, <<f>>, 1)
    <3>1. 1 \in 1..Len(<<t>>)
      BY <2>3
    <3>. QED  BY <2>1, <2>3, <2>4, <3>1, Zenon DEF Lit
  <2>7. Tabbed'
    <3>1. 1 \in 1..Len(<<t>>) /\ 0 \in 0..Len(<<t>>) - 1
      BY <2>3
    <3>. QED  BY <2>2, <2>5, <2>6, <3>1 DEF Tabbed
  <2>. QED  BY <1>2, <2>7 DEF ConsoleInv, Accounts
<1>. QED  BY <1>1, <1>2 DEF LoadIndex

\* Signing in and out, in this window and in others.
LEMMA AccountsOK ==
  ASSUME ConsoleInv,
         \/ OpenIndex \/ Login \/ Logout \/ OtherWindow
         \/ \E a \in Account \cup {Empty} : Type(a)
         \/ \E a \in Account : LoginAnswered(a) \/ LoginFails(a)
  PROVE  ConsoleInv'
<1>1. CASE OpenIndex
  <2>1. store' = store /\ LoadIndex(store')
    BY <1>1 DEF OpenIndex
  <2>. QED  BY <2>1, LoadIndexOK DEF ConsoleInv, Accounts
<1>2. CASE Login
  BY <1>2 DEF Login, ConsoleInv, Accounts, SignedOut, Tabbed
<1>3. CASE Logout
  BY <1>3, ToLoginOK DEF Logout
<1>4. CASE OtherWindow
  BY <1>4, ConsoleAssumption DEF OtherWindow, ConsoleInv, Accounts, SignedOut, Tabbed
<1>5. ASSUME NEW a \in Account \cup {Empty}, Type(a) PROVE ConsoleInv'
  BY <1>5 DEF Type, ConsoleInv, Accounts, SignedOut, Tabbed
<1>6. ASSUME NEW a \in Account, LoginFails(a) PROVE ConsoleInv'
  BY <1>6 DEF LoginFails, ConsoleInv, Accounts, SignedOut, Tabbed
<1>7. ASSUME NEW a \in Account, LoginAnswered(a) PROVE ConsoleInv'
  <2>1. CASE store' = typed /\ LoadIndex(store')
    BY <2>1, LoadIndexOK DEF ConsoleInv, Accounts
  <2>2. CASE asked' = asked \ {a} /\ UNCHANGED <<at, typed, store, tabs, frames, num>>
    BY <2>2 DEF ConsoleInv, Accounts, SignedOut, Tabbed
  <2>. QED  BY <1>7, <2>1, <2>2 DEF LoginAnswered
<1>. QED  BY <1>1, <1>2, <1>3, <1>4, <1>5, <1>6, <1>7

\* A state of a page's request does not disturb the rows.
LEMMA LoadOK ==
  ASSUME NEW ts, NEW fs, Rows(ts, fs), NEW a, Lit(ts, fs, a), NEW i \in 1..Len(fs),
         NEW l \in {"new", "signedOut", "asked", "rows", "none"}
  PROVE  Rows(ts, [fs EXCEPT ![i].load = l]) /\ Lit(ts, [fs EXCEPT ![i].load = l], a)
<1> DEFINE f == [fs[i] EXCEPT !.load = l]
           ss == [fs EXCEPT ![i] = f]
<1>1. fs \in Seq(Frame) /\ Len(ts) = Len(fs)
  BY DEF Rows
<1>2. f \in Frame /\ f.src = fs[i].src /\ f.visible = fs[i].visible
  <2>1. fs[i] \in Frame
    BY <1>1
  <2>. QED  BY <2>1, Zenon DEF Frame
<1>3. [fs EXCEPT ![i].load = l] = ss
  OBVIOUS
<1>. HIDE DEF f
<1>4. /\ ss \in Seq(Frame) /\ Len(ss) = Len(fs)
      /\ \A j \in 1..Len(fs) : ss[j] = IF j = i THEN f ELSE fs[j]
  BY <1>1, <1>2, ExceptSeq
<1>. HIDE DEF ss
<1>5. \A j \in 1..Len(fs) : ss[j].src = fs[j].src /\ ss[j].visible = fs[j].visible
  BY <1>2, <1>4, Zenon
<1>6. Rows(ts, ss)
  BY <1>1, <1>4, <1>5, Zenon DEF Rows
<1>7. Lit(ts, ss, a)
  BY <1>1, <1>5, Zenon DEF Lit
<1>. QED  BY <1>3, <1>6, <1>7

\* A click in the menu.
LEMMA HuiAdminTabOK ==
  ASSUME ConsoleInv, NEW p \in Page, HuiAdminTab(p)
  PROVE  ConsoleInv'
<1> DEFINE n == IndexOfTab(p)
<1>1. /\ at = "index" /\ Tabbed /\ UNCHANGED <<at, typed, asked, store, num>>
  BY DEF HuiAdminTab, ConsoleInv
<1>2. /\ Rows(tabs, frames) /\ tabs \in Seq(Tab) /\ frames \in Seq(Frame)
      /\ Len(tabs) = Len(frames) /\ Len(tabs) \in Nat /\ num \in 0..Len(tabs) - 1
  BY <1>1, TabbedFacts DEF Tabbed
<1>3. CASE n >= 0 /\ tabs' = Activate(tabs, n) /\ frames' = [Show(frames, n) EXCEPT ![n + 1].load = "new"]
  <2>1. n \in Nat /\ n + 1 \in 1..Len(tabs)
    BY <1>2, <1>3, IndexOfTabFacts
  <2>. HIDE DEF n
  <2>2. Eq(tabs, n) = n + 1
    BY <2>1 DEF Eq
  <2> DEFINE ts == Activate(tabs, n)
             fs == Show(frames, n)
  <2>3. Rows(ts, fs) /\ Len(ts) = Len(tabs) /\ Lit(ts, fs, n + 1)
    BY <1>2, <2>1, <2>2, LightOn
  <2>. HIDE DEF ts, fs
  <2>4. n + 1 \in 1..Len(fs)
    BY <2>1, <2>3 DEF Rows
  <2>5. tabs' = ts /\ frames' = [fs EXCEPT ![n + 1].load = "new"]
    BY <1>3 DEF ts, fs
  <2>6. Rows(tabs', frames') /\ Lit(tabs', frames', n + 1) /\ Len(tabs') = Len(tabs)
    BY <2>3, <2>4, <2>5, LoadOK
  <2>7. n + 1 \in Int /\ n + 1 \in 1..Len(tabs') /\ num' \in 0..Len(tabs') - 1
    BY <1>1, <1>2, <2>1, <2>6
  <2>. QED  BY <1>1, <2>6, <2>7, TabbedStays
<1>4. CASE /\ n = -1 /\ tabs' = Append(Activate(tabs, Len(tabs)), [href |-> p, active |-> TRUE])
           /\ frames' = Append(Show(frames, Len(frames)), Fresh(p))
  <2>1. \A i \in 1..Len(tabs) : tabs[i].href # p
    BY <1>2, <1>4, IndexOfTabFacts
  <2> DEFINE ts == Activate(tabs, Len(tabs))
             fs == Show(frames, Len(tabs))
  <2>2. Eq(tabs, Len(tabs)) \notin 1..Len(tabs) /\ Len(tabs) \in Int
    BY <1>2 DEF Eq
  <2>3. /\ Rows(ts, fs) /\ Len(ts) = Len(tabs)
        /\ \A i \in 1..Len(tabs) : ~ts[i].active /\ ~fs[i].visible
    BY <1>2, <2>2, LightOn
  <2>4. \A i \in 1..Len(tabs) : ts[i].href # p
    <3>1. ts = [i \in 1..Len(tabs) |-> [tabs[i] EXCEPT !.active = (i = Eq(tabs, Len(tabs)))]]
      BY DEF Activate
    <3>2. ASSUME NEW i \in 1..Len(tabs) PROVE ts[i].href = tabs[i].href
      <4>1. tabs[i] \in Tab /\ ts[i] = [tabs[i] EXCEPT !.active = (i = Eq(tabs, Len(tabs)))]
        BY <1>2, <3>1
      <4>. QED  BY <4>1, Zenon DEF Tab
    <3>. QED  BY <2>1, <3>2
  <2>5. tabs' = Append(ts, [href |-> p, active |-> TRUE]) /\ frames' = Append(fs, Fresh(p))
    BY <1>2, <1>4
  <2>. HIDE DEF ts, fs
  <2>6. /\ Rows(tabs', frames') /\ Len(tabs') = Len(tabs) + 1
        /\ Lit(tabs', frames', Len(tabs'))
    BY <2>3, <2>4, <2>5, OneMore
  <2>7. Len(tabs') \in Int /\ Len(tabs') \in 1..Len(tabs') /\ num' \in 0..Len(tabs') - 1
    BY <1>1, <1>2, <2>6
  <2>. QED  BY <1>1, <2>6, <2>7, TabbedStays
<1>. QED  BY <1>3, <1>4 DEF HuiAdminTab

\* A click on a tab.
LEMMA ClickTabOK ==
  ASSUME ConsoleInv, NEW n \in 0..Len(tabs) - 1, ClickTab(n)
  PROVE  ConsoleInv'
<1>1. /\ at = "index" /\ Tabbed /\ UNCHANGED <<at, typed, asked, store, num>>
      /\ tabs' = Activate(tabs, n) /\ frames' = Show(frames, n)
  BY DEF ClickTab, ConsoleInv
<1>2. Rows(tabs, frames) /\ Len(tabs) \in Nat /\ num \in 0..Len(tabs) - 1
  BY <1>1, TabbedFacts DEF Tabbed
<1>3. n \in Int /\ Eq(tabs, n) = n + 1 /\ n + 1 \in 1..Len(tabs) /\ n + 1 \in Int
  BY <1>2 DEF Eq
<1>4. /\ Rows(Activate(tabs, n), Show(frames, n)) /\ Len(Activate(tabs, n)) = Len(tabs)
      /\ Lit(Activate(tabs, n), Show(frames, n), n + 1)
  BY <1>2, <1>3, LightOn
<1>. QED  BY <1>1, <1>2, <1>3, <1>4, TabbedStays

\* A tab but the first is closed, whichever tab is lit then.
LEMMA CloseOK ==
  ASSUME ConsoleInv, NEW n \in 1..Len(tabs) - 1, NEW k \in Int,
         at = "index", UNCHANGED <<at, typed, asked, store>>, num' = Down(num),
         tabs' = Activate(RemoveAt(tabs, n + 1), k),
         frames' = Show(RemoveAt(frames, n + 1), k),
         k = -1 \/ k = n - 1
  PROVE  ConsoleInv'
<1> DEFINE ts == RemoveAt(tabs, n + 1)
           fs == RemoveAt(frames, n + 1)
<1>1. Tabbed /\ Rows(tabs, frames) /\ Len(tabs) \in Nat
  BY TabbedFacts DEF Tabbed, ConsoleInv
<1>2. n + 1 \in 2..Len(tabs) /\ Len(tabs) > 1
  BY <1>1
<1>3. Rows(ts, fs) /\ Len(ts) = Len(tabs) - 1
  BY <1>1, <1>2, OneLess
<1>4. tabs' = Activate(ts, k) /\ frames' = Show(fs, k)
  OBVIOUS
<1>. HIDE DEF ts, fs
<1>5. Eq(ts, k) \in 1..Len(ts) /\ Eq(ts, k) \in Int
  BY <1>1, <1>2, <1>3 DEF Eq
<1>6. /\ Rows(Activate(ts, k), Show(fs, k)) /\ Len(Activate(ts, k)) = Len(ts)
      /\ Lit(Activate(ts, k), Show(fs, k), Eq(ts, k))
  BY <1>3, <1>5, LightOn
<1>7. num' \in 0..Len(ts) - 1
  BY <1>1, <1>2, <1>3, TabbedFacts
<1>. QED  BY <1>4, <1>5, <1>6, <1>7, TabbedStays

\* closeall leaves the dashboard.
LEMMA CloseAllOK ==
  ASSUME ConsoleInv, CloseAll
  PROVE  ConsoleInv'
<1> DEFINE ts == SubSeq(tabs, 1, 1)
           fs == SubSeq(frames, 1, 1)
<1>1. /\ at = "index" /\ Tabbed /\ UNCHANGED <<at, typed, asked, store>>
      /\ tabs' = Activate(ts, -1) /\ frames' = Show(fs, -1)
      /\ num' = IF num < Len(tabs) - 1 THEN 0 ELSE num - (Len(tabs) - 1)
  BY DEF CloseAll, ConsoleInv
<1>2. /\ tabs \in Seq(Tab) /\ frames \in Seq(Frame) /\ Len(tabs) = Len(frames)
      /\ Len(tabs) \in Nat /\ Len(tabs) > 0 /\ num \in 0..Len(tabs) - 1
  BY <1>1, TabbedFacts
<1>3. num' = 0
  BY <1>1, <1>2
<1>4. ts \in Seq(Tab) /\ Len(ts) = 1 /\ ts[1] = tabs[1]
  BY <1>2
<1>5. fs \in Seq(Frame) /\ Len(fs) = 1 /\ fs[1] = frames[1]
  BY <1>2
<1>. HIDE DEF ts, fs
<1>6. Rows(ts, fs)
  <2>1. 1 \in 1..Len(tabs) /\ \A i \in 1..Len(ts) : i = 1
    BY <1>2, <1>4
  <2>2. tabs[1].href = frames[1].src /\ tabs[1].href = Dashboard
    BY <1>1, <2>1 DEF Tabbed, Rows
  <2>3. \A i \in 1..Len(ts) : ts[i].href = fs[i].src
    BY <1>4, <1>5, <2>1, <2>2
  <2>4. \A i, j \in 1..Len(ts) : ts[i].href = ts[j].href => i = j
    BY <2>1
  <2>5. Len(ts) = Len(fs) /\ Len(ts) > 0 /\ ts[1].href = Dashboard
    BY <1>4, <1>5, <2>2
  <2>. QED  BY <1>4, <1>5, <2>3, <2>4, <2>5 DEF Rows
<1>7. Eq(ts, -1) = 1 /\ 1 \in 1..Len(ts) /\ -1 \in Int
  BY <1>4 DEF Eq
<1>8. /\ Rows(Activate(ts, -1), Show(fs, -1)) /\ Len(Activate(ts, -1)) = 1
      /\ Lit(Activate(ts, -1), Show(fs, -1), 1)
  BY <1>4, <1>6, <1>7, LightOn
<1>9. 1 \in Int /\ 1 \in 1..Len(Activate(ts, -1)) /\ num' \in 0..Len(Activate(ts, -1)) - 1
  BY <1>3, <1>8
<1>. QED  BY <1>1, <1>8, <1>9, TabbedStays

LEMMA ScrollOK ==
  ASSUME ConsoleInv, Scroll
  PROVE  ConsoleInv'
<1>1. /\ at = "index" /\ Tabbed /\ UNCHANGED <<at, typed, asked, store, tabs, frames>>
      /\ num' \in {Down(num), IF num = Len(tabs) - 1 THEN num ELSE num + 1}
  BY DEF Scroll, ConsoleInv
<1>2. Rows(tabs, frames) /\ Len(tabs) \in Nat
  BY <1>1, TabbedFacts DEF Tabbed
<1>3. PICK a \in 1..Len(tabs) : Lit(tabs, frames, a)
  BY <1>1 DEF Tabbed
<1>4. num' \in 0..Len(tabs) - 1 /\ a \in Int
  BY <1>1, <1>2, TabbedFacts
<1>. QED  BY <1>1, <1>2, <1>3, <1>4, TabbedStays

LEMMA LoadsOK ==
  ASSUME ConsoleInv, NEW p, Loads(p)
  PROVE  ConsoleInv'
<1>1. PICK i \in 1..Len(frames) : LoadData(i) \/ Answered(i)
  BY DEF Loads
<1>2. PICK l \in {"new", "signedOut", "asked", "rows", "none"} : Becomes(i, l)
  BY <1>1 DEF LoadData, Answered
<1>3. /\ UNCHANGED <<at, typed, asked, store, tabs, num>>
      /\ frames' = [frames EXCEPT ![i].load = l]
  BY <1>2 DEF Becomes
<1>4. at = "index" /\ Tabbed
  BY DEF ConsoleInv, SignedOut
<1>5. Rows(tabs, frames) /\ Len(tabs) \in Nat /\ num \in 0..Len(tabs) - 1
  BY <1>4, TabbedFacts DEF Tabbed
<1>6. PICK a \in 1..Len(tabs) : Lit(tabs, frames, a)
  BY <1>4 DEF Tabbed
<1>7. Rows(tabs, frames') /\ Lit(tabs, frames', a) /\ a \in Int
  <2>1. /\ Rows(tabs, [frames EXCEPT ![i].load = l])
        /\ Lit(tabs, [frames EXCEPT ![i].load = l], a)
    BY <1>5, <1>6, LoadOK
  <2>. QED  BY <1>3, <2>1
<1>. QED  BY <1>3, <1>4, <1>5, <1>7, TabbedStays

-----------------------------------------------------------------------------
(* The theorems.                                                           *)

LEMMA InitConsole == Init => ConsoleInv
<1>. SUFFICES ASSUME Init PROVE ConsoleInv
  OBVIOUS
<1>1. SignedOut /\ at = "login"
  BY DEF Init, SignedOut
<1>2. Accounts
  BY DEF Init, Accounts
<1>. QED  BY <1>1, <1>2 DEF ConsoleInv

LEMMA NextConsole == ConsoleInv /\ [Next]_vars => ConsoleInv'
<1>. SUFFICES ASSUME ConsoleInv, [Next]_vars PROVE ConsoleInv'
  OBVIOUS
<1>1. CASE \/ OpenIndex \/ Login \/ Logout \/ OtherWindow
           \/ \E a \in Account \cup {Empty} : Type(a)
           \/ \E a \in Account : LoginAnswered(a) \/ LoginFails(a)
  BY <1>1, AccountsOK
<1>2. ASSUME NEW p \in Page, HuiAdminTab(p) PROVE ConsoleInv'
  BY <1>2, HuiAdminTabOK
<1>3. ASSUME NEW n \in 0..Len(tabs) - 1, ClickTab(n) PROVE ConsoleInv'
  BY <1>3, ClickTabOK
<1>4. ASSUME NEW n \in 0..Len(tabs) - 1, CloseTab(n) PROVE ConsoleInv'
  <2>1. n \in 1..Len(tabs) - 1 /\ -1 \in Int
    BY <1>4 DEF CloseTab
  <2>. QED  BY <1>4, <2>1, CloseOK DEF CloseTab
<1>5. ASSUME NEW n \in 0..Len(tabs) - 1, DoubleClick(n) PROVE ConsoleInv'
  <2>1. n \in 1..Len(tabs) - 1 /\ n - 1 \in Int
    BY <1>5 DEF DoubleClick
  <2>. QED  BY <1>5, <2>1, CloseOK DEF DoubleClick
<1>6. CASE CloseAll
  BY <1>6, CloseAllOK
<1>7. CASE Scroll
  BY <1>7, ScrollOK
<1>8. ASSUME NEW p, Loads(p) PROVE ConsoleInv'
  BY <1>8, LoadsOK
<1>9. CASE UNCHANGED vars
  BY <1>9 DEF vars, ConsoleInv, Accounts, SignedOut, Tabbed
<1>. QED  BY <1>1, <1>2, <1>3, <1>4, <1>5, <1>6, <1>7, <1>8, <1>9 DEF Next, User

\* The strengthened invariant holds for any pages, accounts and clicks.
THEOREM ConsoleInvariance == Spec => []ConsoleInv
BY InitConsole, NextConsole, PTL DEF Spec

\* No handler looks for a tab or a frame that is not there, and the account in
\* localStorage is one that was typed (app/login.js, H-ui.admin.js).
THEOREM ConsoleTypeCorrect == Spec => []ConsoleTypeOK
<1>1. ConsoleInv => ConsoleTypeOK
  <2>1. SUFFICES ASSUME ConsoleInv PROVE ConsoleTypeOK
    OBVIOUS
  <2>2. tabs \in Seq(Tab) /\ frames \in Seq(Frame) /\ num \in Int
    <3>1. CASE SignedOut
      <4>1. <<>> \in Seq(Tab) /\ <<>> \in Seq(Frame)
        OBVIOUS
      <4>. QED  BY <3>1, <4>1 DEF SignedOut
    <3>2. CASE Tabbed
      BY <3>2, TabbedFacts
    <3>. QED  BY <2>1, <3>1, <3>2 DEF ConsoleInv
  <2>3. Accounts /\ at \in {"login", "index"}
    BY <2>1 DEF ConsoleInv
  <2>. QED  BY <2>2, <2>3 DEF ConsoleTypeOK, Accounts
<1>. QED  BY <1>1, ConsoleInvariance, PTL

\* Whatever is opened, clicked, closed and double-clicked, in any order and for
\* any number of tabs, the tab that is active and the page that is seen are
\* those of one row (H-ui.admin.js, the handlers of #min_title_list).
THEOREM TabsAlwaysAgree == Spec => []TabsAgree
<1>1. ConsoleInv => TabsAgree
  <2>1. SUFFICES ASSUME ConsoleInv PROVE TabsAgree
    OBVIOUS
  <2>2. CASE tabs = <<>> /\ frames = <<>> /\ at # "index"
    BY <2>2 DEF TabsAgree
  <2>3. CASE Tabbed
    <3>1. PICK a \in 1..Len(tabs) : Lit(tabs, frames, a)
      BY <2>3 DEF Tabbed
    <3>2. \A i \in 1..Len(tabs) : tabs[i].active = (i = a) /\ frames[i].visible = (i = a)
      BY <3>1 DEF Lit
    <3>3. {i \in 1..Len(tabs) : tabs[i].active} = {a}
      BY <3>2, Zenon
    <3>4. Cardinality({a}) = 1
      BY FS_Singleton
    <3>5. Only(tabs, LAMBDA t : t.active)
      BY <3>3, <3>4 DEF Only
    <3>6. /\ Len(tabs) = Len(frames)
          /\ \A i \in 1..Len(tabs) : tabs[i].href = frames[i].src
      BY <2>3 DEF Tabbed, Rows
    <3>. QED  BY <3>2, <3>5, <3>6, Zenon DEF TabsAgree
  <2>. QED  BY <2>1, <2>2, <2>3 DEF ConsoleInv, SignedOut
<1>. QED  BY <1>1, ConsoleInvariance, PTL

\* A click in the menu never opens a page twice, and nothing closes the
\* dashboard (H-ui.admin.js, Hui_admin_tab and the crosses of the tabs).
THEOREM PagesOpenOnce == Spec => []OneTabPerPage
<1>1. ConsoleInv => OneTabPerPage
  <2>1. SUFFICES ASSUME ConsoleInv PROVE OneTabPerPage
    OBVIOUS
  <2>2. CASE tabs = <<>> /\ at # "index"
    BY <2>2 DEF OneTabPerPage
  <2>3. CASE Tabbed
    BY <2>3, RowsFacts DEF OneTabPerPage, Tabbed
  <2>. QED  BY <2>1, <2>2, <2>3 DEF ConsoleInv, SignedOut
<1>. QED  BY <1>1, ConsoleInvariance, PTL

\* The strip is never scrolled past the tabs that closing has left, although
\* the handlers that close tabs do not look at how far it is scrolled
\* (H-ui.admin.js, num).
THEOREM ScrollStays == Spec => []ScrolledToATab
<1>1. ConsoleInv => ScrolledToATab
  BY DEF ConsoleInv, Tabbed, SignedOut, ScrolledToATab
<1>. QED  BY <1>1, ConsoleInvariance, PTL

-----------------------------------------------------------------------------
(* The pages in the frames keep what they have drawn.                      *)

LoadedAgain(g) == g.load = "new" /\ g.visible

\* The frame g is f at a later time, and its page has not been loaded again.
Remains(f, g) == g.src = f.src /\ (f.load = "rows" => g.load = "rows")

KeepRows(fs, gs) ==
  \A i \in 1..Len(fs), j \in 1..Len(gs) :
    fs[i].load = "rows" /\ gs[j].src = fs[i].src =>
      gs[j].load = "rows" \/ LoadedAgain(gs[j])

\* The pages of the frames differ, so that a frame which shows a page now and
\* shows it then is one frame.
LEMMA Origin ==
  ASSUME NEW ts, NEW fs, Rows(ts, fs), NEW gs,
         \A j \in 1..Len(gs) :
           LoadedAgain(gs[j]) \/ \E i \in 1..Len(fs) : Remains(fs[i], gs[j])
  PROVE  KeepRows(fs, gs)
<1>1. \A i, j \in 1..Len(fs) : fs[i].src = fs[j].src => i = j
  BY DEF Rows
<1>. SUFFICES ASSUME NEW i \in 1..Len(fs), NEW j \in 1..Len(gs), fs[i].load = "rows",
                     gs[j].src = fs[i].src, ~LoadedAgain(gs[j])
              PROVE  gs[j].load = "rows"
  BY DEF KeepRows
<1>2. PICK k \in 1..Len(fs) : Remains(fs[k], gs[j])
  OBVIOUS
<1>3. k = i
  BY <1>1, <1>2 DEF Remains
<1>. QED  BY <1>2, <1>3 DEF Remains

\* hide and show leave the pages as they are.
LEMMA ShowRemains ==
  ASSUME NEW fs \in Seq(Frame), NEW n
  PROVE  /\ Len(Show(fs, n)) = Len(fs)
         /\ \A i \in 1..Len(fs) : /\ Show(fs, n)[i] \in Frame
                                  /\ Remains(fs[i], Show(fs, n)[i])
                                  /\ Show(fs, n)[i].visible = (i = Eq(fs, n))
<1> DEFINE ss == Show(fs, n)  k == Eq(fs, n)
<1>1. Len(fs) \in Nat /\ ss = [i \in 1..Len(fs) |-> [fs[i] EXCEPT !.visible = (i = k)]]
  BY DEF Show
<1>. HIDE DEF ss, k
<1>2. ASSUME NEW i \in 1..Len(fs)
      PROVE  /\ ss[i] \in Frame /\ Remains(fs[i], ss[i]) /\ ss[i].visible = (i = k)
  <2>1. fs[i] \in Frame /\ ss[i] = [fs[i] EXCEPT !.visible = (i = k)]
    BY <1>1
  <2>2. /\ ss[i] \in Frame /\ ss[i].src = fs[i].src /\ ss[i].load = fs[i].load
        /\ ss[i].visible = (i = k)
    BY <2>1, Zenon DEF Frame
  <2>. QED  BY <2>2 DEF Remains
<1>3. ss \in [1..Len(fs) -> Frame]
  BY <1>1, <1>2
<1>4. Len(ss) = Len(fs)
  BY <1>1, <1>3
<1>. QED  BY <1>2, <1>4 DEF ss, k

LEMMA ShowKeeps ==
  ASSUME NEW ts, NEW fs, Rows(ts, fs), NEW gs \in Seq(Frame), NEW n,
         \A j \in 1..Len(gs) : \E i \in 1..Len(fs) : gs[j] = fs[i]
  PROVE  KeepRows(fs, Show(gs, n))
<1>1. Len(Show(gs, n)) = Len(gs) /\ \A j \in 1..Len(gs) : Remains(gs[j], Show(gs, n)[j])
  BY ShowRemains
<1>. QED  BY <1>1, Origin

LEMMA StillKeeps == ASSUME NEW ts, NEW fs, Rows(ts, fs) PROVE KeepRows(fs, fs)
<1>1. \A j \in 1..Len(fs) : Remains(fs[j], fs[j])
  BY DEF Remains
<1>. QED  BY <1>1, Origin

LEMMA LoadIndexKeeps ==
  ASSUME NEW ts, Rows(ts, frames), NEW s, LoadIndex(s)
  PROVE  KeepRows(frames, frames')
<1>1. CASE frames' = <<>>
  <2>1. Len(<<>>) = 0 /\ \A j \in 1..0 : FALSE
    OBVIOUS
  <2>. QED  BY <1>1, <2>1 DEF KeepRows
<1>2. CASE frames' = <<Fresh(Dashboard)>>
  <2>1. \A j \in 1..Len(<<Fresh(Dashboard)>>) : <<Fresh(Dashboard)>>[j] = Fresh(Dashboard)
    OBVIOUS
  <2>2. LoadedAgain(Fresh(Dashboard))
    BY DEF LoadedAgain, Fresh
  <2>. QED  BY <1>2, <2>1, <2>2, Origin
<1>. QED  BY <1>1, <1>2 DEF LoadIndex, ToLogin, Blank

LEMMA HuiAdminTabKeeps ==
  ASSUME Rows(tabs, frames), NEW p \in Page, HuiAdminTab(p)
  PROVE  KeepRows(frames, frames')
<1> DEFINE n == IndexOfTab(p)
<1>1. /\ tabs \in Seq(Tab) /\ frames \in Seq(Frame) /\ Len(tabs) = Len(frames)
      /\ Len(frames) \in Nat
  BY DEF Rows
<1>2. CASE n >= 0 /\ frames' = [Show(frames, n) EXCEPT ![n + 1].load = "new"]
  <2>1. n \in Nat /\ n + 1 \in 1..Len(frames) /\ n + 1 = Eq(frames, n)
    BY <1>1, <1>2, IndexOfTabFacts DEF Eq
  <2> DEFINE ss == Show(frames, n)  m == n + 1  f == [ss[m] EXCEPT !.load = "new"]
  <2>2. /\ Len(ss) = Len(frames)
        /\ \A i \in 1..Len(frames) : ss[i] \in Frame /\ Remains(frames[i], ss[i])
        /\ ss[m].visible = TRUE /\ ss[m] \in Frame
    <3>1. Show(frames, n)[n + 1].visible = (n + 1 = Eq(frames, n))
      BY <1>1, <2>1, ShowRemains
    <3>. QED  BY <1>1, <2>1, <3>1, ShowRemains
  <2>3. frames' = [ss EXCEPT ![m] = f] /\ DOMAIN ss = 1..Len(frames)
    BY <1>2 DEF Show
  <2>. HIDE DEF n, m, ss
  <2>4. LoadedAgain(f)
    BY <2>2, Zenon DEF LoadedAgain, Frame
  <2>. HIDE DEF f
  <2>5. ASSUME NEW j \in 1..Len(frames)
        PROVE  LoadedAgain(frames'[j]) \/ Remains(frames[j], frames'[j])
    BY <2>2, <2>3, <2>4
  <2>6. Len(frames') = Len(frames)
    BY <1>1, <2>3
  <2>. QED  BY <2>5, <2>6, Origin
<1>3. CASE frames' = Append(Show(frames, Len(frames)), Fresh(p))
  <2> DEFINE ss == Show(frames, Len(frames))  f == Fresh(p)
  <2>1. /\ Len(ss) = Len(frames)
        /\ \A i \in 1..Len(frames) : ss[i] \in Frame /\ Remains(frames[i], ss[i])
    BY <1>1, ShowRemains
  <2>2. f \in Frame /\ LoadedAgain(f)
    BY DEF Fresh, Frame, LoadedAgain
  <2>3. ss \in Seq(Frame)
    <3>1. ss = [i \in 1..Len(frames) |-> ss[i]]
      BY DEF Show
    <3>. HIDE DEF ss
    <3>. QED  BY <1>1, <2>1, <3>1
  <2>. HIDE DEF ss, f
  <2>4. /\ Len(Append(ss, f)) = Len(frames) + 1 /\ Append(ss, f)[Len(frames) + 1] = f
        /\ \A i \in 1..Len(frames) : Append(ss, f)[i] = ss[i]
    BY <2>1, <2>2, <2>3, AppendProperties
  <2>5. \A j \in 1..Len(frames) + 1 : j = Len(frames) + 1 \/ j \in 1..Len(frames)
    BY <1>1
  <2>6. frames' = Append(ss, f)
    BY <1>3 DEF ss, f
  <2>7. ASSUME NEW j \in 1..Len(frames')
        PROVE  LoadedAgain(frames'[j]) \/ \E i \in 1..Len(frames) : Remains(frames[i], frames'[j])
    <3>1. j = Len(frames) + 1 \/ j \in 1..Len(frames)
      BY <2>4, <2>5, <2>6
    <3>. QED  BY <2>1, <2>2, <2>4, <2>6, <3>1
  <2>. QED  BY <2>7, Origin
<1>. QED  BY <1>2, <1>3 DEF HuiAdminTab

LEMMA CloseKeeps ==
  ASSUME Rows(tabs, frames), NEW n \in 1..Len(tabs) - 1, NEW k,
         frames' = Show(RemoveAt(frames, n + 1), k)
  PROVE  KeepRows(frames, frames')
<1> DEFINE gs == RemoveAt(frames, n + 1)
<1>1. frames \in Seq(Frame) /\ Len(frames) \in Nat /\ n + 1 \in 1..Len(frames)
  BY DEF Rows
<1>2. /\ gs \in Seq(Frame) /\ Len(gs) = Len(frames) - 1
      /\ \A i \in 1..Len(frames) - 1 : gs[i] = IF i < n + 1 THEN frames[i] ELSE frames[i + 1]
  BY <1>1, RemoveAtFacts
<1>3. \A i \in 1..Len(frames) - 1 : i \in 1..Len(frames) /\ i + 1 \in 1..Len(frames)
  BY <1>1
<1>4. frames' = Show(gs, k)
  OBVIOUS
<1>. HIDE DEF gs
<1>5. \A j \in 1..Len(gs) : \E i \in 1..Len(frames) : gs[j] = frames[i]
  BY <1>2, <1>3
<1>. QED  BY <1>2, <1>4, <1>5, ShowKeeps

LEMMA LoadsKeep ==
  ASSUME Rows(tabs, frames), NEW p, Loads(p)
  PROVE  KeepRows(frames, frames')
<1>1. PICK i \in 1..Len(frames) : LoadData(i) \/ Answered(i)
  BY DEF Loads
<1>2. PICK l : Becomes(i, l)
  BY <1>1 DEF LoadData, Answered
<1>3. frames[i].load # "rows" /\ frames \in Seq(Frame)
  BY <1>1 DEF LoadData, Answered, Rows
<1> DEFINE f == [frames[i] EXCEPT !.load = l]
<1>4. f.src = frames[i].src
  <2>1. frames[i] \in Frame
    BY <1>3
  <2>. QED  BY <2>1, Zenon DEF Frame
<1>5. frames' = [frames EXCEPT ![i] = f]
  BY <1>2 DEF Becomes
<1>. HIDE DEF f
<1>6. Len(frames') = Len(frames)
  BY <1>3, <1>5
<1>7. ASSUME NEW j \in 1..Len(frames) PROVE Remains(frames[j], frames'[j])
  BY <1>3, <1>4, <1>5 DEF Remains
<1>. QED  BY <1>6, <1>7, Origin

LEMMA NextKeeps == ConsoleInv /\ [Next]_vars => KeepRows(frames, frames')
<1>. SUFFICES ASSUME ConsoleInv, [Next]_vars PROVE KeepRows(frames, frames')
  OBVIOUS
<1>1. CASE SignedOut
  <2>1. frames = <<>> /\ Len(<<>>) = 0 /\ \A i \in 1..0 : FALSE
    BY <1>1 DEF SignedOut
  <2>. QED  BY <2>1 DEF KeepRows
<1>2. CASE Tabbed
  <2>1. Rows(tabs, frames) /\ frames \in Seq(Frame)
    BY <1>2 DEF Tabbed, Rows
  <2>2. CASE UNCHANGED frames
    BY <2>1, <2>2, StillKeeps
  <2>3. ASSUME NEW s, LoadIndex(s) PROVE KeepRows(frames, frames')
    BY <2>1, <2>3, LoadIndexKeeps
  <2>4. CASE Logout
    BY <2>3, <2>4, LoadIndexKeeps DEF Logout, LoadIndex
  <2>5. ASSUME NEW p \in Page, HuiAdminTab(p) PROVE KeepRows(frames, frames')
    BY <2>1, <2>5, HuiAdminTabKeeps
  <2>6. ASSUME NEW n, ClickTab(n) PROVE KeepRows(frames, frames')
    BY <2>1, <2>6, ShowKeeps DEF ClickTab
  <2>7. ASSUME NEW n, CloseTab(n) \/ DoubleClick(n) PROVE KeepRows(frames, frames')
    BY <2>1, <2>7, CloseKeeps DEF CloseTab, DoubleClick
  <2>8. CASE CloseAll
    <3> DEFINE gs == SubSeq(frames, 1, 1)
    <3>1. 1 \in 1..Len(frames) /\ Len(frames) \in Nat
      BY <2>1 DEF Rows
    <3>2. gs \in Seq(Frame) /\ Len(gs) = 1 /\ gs[1] = frames[1]
      BY <2>1, <3>1
    <3>3. frames' = Show(gs, -1)
      BY <2>8 DEF CloseAll
    <3>. HIDE DEF gs
    <3>4. \A j \in 1..Len(gs) : gs[j] = frames[1]
      BY <3>2
    <3>. QED  BY <2>1, <3>1, <3>2, <3>3, <3>4, ShowKeeps
  <2>9. ASSUME NEW p, Loads(p) PROVE KeepRows(frames, frames')
    BY <2>1, <2>9, LoadsKeep
  <2>10. CASE \/ OpenIndex \/ Login \/ OtherWindow \/ Scroll
              \/ \E a \in Account \cup {Empty} : Type(a)
              \/ \E a \in Account : LoginAnswered(a) \/ LoginFails(a)
    BY <2>2, <2>3, <2>10 DEF OpenIndex, Login, OtherWindow, Scroll, Type, LoginAnswered,
       LoginFails
  <2>. QED  BY <2>2, <2>4, <2>5, <2>6, <2>7, <2>8, <2>9, <2>10 DEF Next, User, vars
<1>. QED  BY <1>1, <1>2 DEF ConsoleInv

\* No click on a tab, a cross or the menu makes a page that has drawn its rows
\* lose them, but for the page that is turned to in the menu and loaded again
\* before the eyes of the user (H-ui.admin.js, hide and show of .show_iframe).
THEOREM RowsAreKept == Spec => PagesKeepRows
<1>1. KeepRows(frames, frames') =>
        [\A i \in 1..Len(frames), j \in 1..Len(frames') :
           frames[i].load = "rows" /\ frames'[j].src = frames[i].src =>
             \/ frames'[j].load = "rows"
             \/ frames'[j].load = "new" /\ frames'[j].visible]_vars
  BY DEF KeepRows, LoadedAgain
<1>. QED  BY <1>1, ConsoleInvariance, NextKeeps, PTL DEF Spec, PagesKeepRows
=============================================================================
