---------------------------- MODULE ShownProofs ----------------------------
(***************************************************************************)
(* Proofs that the window shows what is so, for any number of tabs, pages, *)
(* downloads, swarms and workers, and any length of their queues.          *)
(***************************************************************************)
EXTENDS Desktop, SequenceTheorems, FiniteSetTheorems, TLAPS

-----------------------------------------------------------------------------
(* Queues.                                                                 *)

LEMMA SeqOf ==
  ASSUME NEW S, NEW q \in Seq(S)
  PROVE  Len(q) \in Nat /\ DOMAIN q = 1..Len(q) /\ \A n \in DOMAIN q : q[n] \in S
  BY LenProperties, ElementOfSeq

(* A sequence made from another one, element by element.                   *)
LEMMA MappedOf ==
  ASSUME NEW S, NEW q \in Seq(S), NEW T, NEW r \in [DOMAIN q -> T]
  PROVE  r \in Seq(T) /\ Len(r) = Len(q) /\ DOMAIN r = DOMAIN q
  BY SeqOf

LEMMA TailOf ==
  ASSUME NEW S, NEW q \in Seq(S), q # <<>>
  PROVE  /\ Tail(q) \in Seq(S) /\ Head(q) \in S /\ Head(q) = q[1]
         /\ Len(q) \in Nat \ {0} /\ DOMAIN q = 1..Len(q)
         /\ DOMAIN Tail(q) = 1..(Len(q) - 1)
         /\ \A n \in DOMAIN Tail(q) : n + 1 \in DOMAIN q /\ Tail(q)[n] = q[n + 1]
         /\ \A n \in DOMAIN q : n = 1 \/ (n - 1 \in DOMAIN Tail(q) /\ Tail(q)[n - 1] = q[n])
<1>1. /\ Tail(q) \in Seq(S) /\ Head(q) \in S
      /\ Len(Tail(q)) = Len(q) - 1
      /\ \A i \in 1..Len(Tail(q)) : Tail(q)[i] = q[i + 1]
  BY HeadTailProperties
<1>2. Len(q) \in Nat \ {0} /\ DOMAIN q = 1..Len(q) /\ DOMAIN Tail(q) = 1..Len(Tail(q))
  BY <1>1, EmptySeq, LenProperties
<1>3. Head(q) = q[1]
  BY <1>2
<1> QED
  BY <1>1, <1>2, <1>3

LEMMA AppendOf ==
  ASSUME NEW S, NEW q \in Seq(S), NEW e \in S
  PROVE  /\ Append(q, e) \in Seq(S) /\ Len(q) \in Nat
         /\ DOMAIN q = 1..Len(q) /\ DOMAIN Append(q, e) = 1..(Len(q) + 1)
         /\ \A n \in DOMAIN q : Append(q, e)[n] = q[n]
         /\ Append(q, e)[Len(q) + 1] = e
  BY AppendProperties, LenProperties

LEMMA ConcatTwo ==
  ASSUME NEW S, NEW q \in Seq(S), NEW d \in S, NEW e \in S
  PROVE  q \o <<d, e>> = Append(Append(q, d), e)
<1>1. <<d>> \in Seq(S) /\ <<e>> \in Seq(S) /\ <<d, e>> \in Seq(S)
  OBVIOUS
<1>2. /\ <<d>> \o <<e>> \in Seq(S) /\ Len(<<d>> \o <<e>>) = 2
      /\ (<<d>> \o <<e>>)[1] = d /\ (<<d>> \o <<e>>)[2] = e
  BY <1>1, ConcatProperties
<1>3. <<d, e>> = <<d>> \o <<e>>
  <2>1. \A i \in 1..2 : <<d, e>>[i] = (<<d>> \o <<e>>)[i]
    BY <1>2
  <2>2. Len(<<d, e>>) = 2
    OBVIOUS
  <2> QED
    BY <1>1, <1>2, <2>1, <2>2, SeqEqual
<1>4. q \o <<d, e>> = (q \o <<d>>) \o <<e>>
  BY <1>1, <1>3, ConcatAssociative
<1> QED
  BY <1>4, AppendIsConcat, AppendProperties

LEMMA RemoveOf ==
  ASSUME NEW S, NEW q \in Seq(S), NEW n \in DOMAIN q
  PROVE  /\ W!RemoveAt(q, n) \in Seq(S)
         /\ DOMAIN W!RemoveAt(q, n) = 1..(Len(q) - 1)
         /\ Len(W!RemoveAt(q, n)) = Len(q) - 1
         /\ \A k \in 1..(Len(q) - 1) :
              W!RemoveAt(q, n)[k] = IF k < n THEN q[k] ELSE q[k + 1]
<1> DEFINE front == SubSeq(q, 1, n - 1)
           back == SubSeq(q, n + 1, Len(q))
<1>1. Len(q) \in Nat /\ n \in 1..Len(q) /\ \A k \in 1..Len(q) : q[k] \in S
  BY LenProperties, ElementOfSeq
<1>2. /\ front \in Seq(S) /\ Len(front) = n - 1
      /\ \A k \in 1..(n - 1) : front[k] = q[k]
  BY <1>1, SubSeqProperties
<1>3. /\ back \in Seq(S) /\ Len(back) = Len(q) - n
      /\ \A k \in 1..(Len(q) - n) : back[k] = q[n + k]
  <2>1. \A k \in (n + 1)..Len(q) : q[k] \in S
    BY <1>1
  <2>2. /\ back \in Seq(S)
        /\ Len(back) = IF n + 1 <= Len(q) THEN Len(q) - (n + 1) + 1 ELSE 0
        /\ \A k \in 1..(Len(q) - (n + 1) + 1) : back[k] = q[n + 1 + k - 1]
    BY <1>1, <2>1, SubSeqProperties
  <2> QED
    BY <1>1, <2>2
<1>4. W!RemoveAt(q, n) = front \o back
  BY DEF W!RemoveAt
<1>5. /\ front \o back \in Seq(S) /\ Len(front \o back) = Len(front) + Len(back)
      /\ \A k \in 1..(Len(front) + Len(back)) :
           (front \o back)[k] = IF k <= Len(front) THEN front[k] ELSE back[k - Len(front)]
  BY <1>2, <1>3, ConcatProperties
<1> HIDE DEF front, back
<1>6. Len(front) + Len(back) = Len(q) - 1
  BY <1>1, <1>2, <1>3
<1>7. ASSUME NEW k \in 1..(Len(q) - 1)
      PROVE  (front \o back)[k] = IF k < n THEN q[k] ELSE q[k + 1]
  <2>1. CASE k < n
    BY <1>1, <1>2, <1>5, <1>6, <2>1
  <2>2. CASE ~(k < n)
    <3>1. (front \o back)[k] = back[k - (n - 1)]
      <4>1. k \in 1..(Len(front) + Len(back)) /\ ~(k <= Len(front)) /\ Len(front) = n - 1
        BY <1>1, <1>2, <1>6, <2>2
      <4> QED
        BY <1>5, <4>1
    <3>2. k - (n - 1) \in 1..(Len(q) - n) /\ n + (k - (n - 1)) = k + 1
      BY <1>1, <2>2
    <3> QED
      BY <1>3, <2>2, <3>1, <3>2
  <2> QED
    BY <2>1, <2>2
<1> QED
  BY <1>4, <1>5, <1>6, <1>7, LenProperties

-----------------------------------------------------------------------------
(* The types of the window.                                                *)

TableTypes ==
  /\ tabs \in Seq(W!Tab) /\ Len(tabs) > 0
  /\ \A n, m \in DOMAIN tabs : tabs[n].id = tabs[m].id => n = m
  /\ \A n \in DOMAIN tabs : tabs[n].active <=> tabs[n].id = activeTab
  /\ \E n \in DOMAIN tabs : tabs[n].active
  /\ nextTab \in 1..MaxTabs /\ \A n \in DOMAIN tabs : tabs[n].id < nextTab

BarTypes == addressBar \in Urls /\ edited \in BOOLEAN /\ refused \in BOOLEAN

WebviewTypes ==
  /\ cef \in BOOLEAN /\ page \in Urls /\ going \in Urls \cup {NoUrl}
  /\ phase \in {"idle", "pending", "loading"} /\ overtaken \in BOOLEAN
  /\ going = NoUrl <=> phase # "pending"

LogTypes ==
  /\ reports \in Seq(W!Report) /\ downloads \in Seq(W!Item)
  /\ transfers \in Seq([url : Urls, running : BOOLEAN])

WindowTypes == TableTypes /\ BarTypes /\ WebviewTypes /\ LogTypes

LEMMA WindowTyped == WindowTypes <=> W!WindowTypeOK
  BY DEF WindowTypes, TableTypes, BarTypes, WebviewTypes, LogTypes, W!WindowTypeOK

LEMMA TableKept ==
  ASSUME TableTypes, UNCHANGED <<activeTab, nextTab>>,
         tabs' \in Seq(W!Tab), Len(tabs') = Len(tabs),
         \A n \in DOMAIN tabs : tabs'[n].id = tabs[n].id /\ tabs'[n].active = tabs[n].active
  PROVE  TableTypes'
<1> USE DEF TableTypes
<1>1. DOMAIN tabs' = DOMAIN tabs
  BY SeqOf
<1> QED
  BY <1>1

(* Nothing but the URL of a tab and whether it spins.                      *)
LEMMA TableEdited ==
  ASSUME TableTypes, UNCHANGED <<activeTab, nextTab>>,
         NEW u \in Urls, NEW b \in BOOLEAN,
         \/ tabs' = W!WithActive(LAMBDA t : [t EXCEPT !.url = u, !.spinning = b])
         \/ tabs' = W!WithActive(LAMBDA t : [t EXCEPT !.url = u])
  PROVE  /\ TableTypes' /\ DOMAIN tabs' = DOMAIN tabs
         /\ \A n \in DOMAIN tabs : tabs'[n].id = tabs[n].id
         /\ \A n \in DOMAIN tabs : tabs[n].id = activeTab => tabs'[n].url = u
<1>1. \A n \in DOMAIN tabs : tabs[n] \in W!Tab
  BY SeqOf DEF TableTypes
<1>2. /\ DOMAIN tabs' = DOMAIN tabs /\ tabs' = [n \in DOMAIN tabs |-> tabs'[n]]
      /\ \A n \in DOMAIN tabs :
           \/ tabs[n].id # activeTab /\ tabs'[n] = tabs[n]
           \/ tabs[n].id = activeTab /\ tabs'[n] = [tabs[n] EXCEPT !.url = u, !.spinning = b]
           \/ tabs[n].id = activeTab /\ tabs'[n] = [tabs[n] EXCEPT !.url = u]
  BY DEF W!WithActive
<1>3. \A n \in DOMAIN tabs :
        /\ tabs'[n] \in W!Tab
        /\ tabs'[n].id = tabs[n].id /\ tabs'[n].active = tabs[n].active
        /\ tabs[n].id = activeTab => tabs'[n].url = u
  <2> SUFFICES ASSUME NEW n \in DOMAIN tabs
               PROVE  /\ tabs'[n] \in W!Tab
                      /\ tabs'[n].id = tabs[n].id /\ tabs'[n].active = tabs[n].active
                      /\ tabs[n].id = activeTab => tabs'[n].url = u
    OBVIOUS
  <2>1. tabs[n] \in W!Tab
    BY <1>1
  <2>2. CASE tabs'[n] = [tabs[n] EXCEPT !.url = u, !.spinning = b]
    BY <2>1, <2>2 DEF W!Tab
  <2>3. CASE tabs'[n] = [tabs[n] EXCEPT !.url = u]
    BY <2>1, <2>3 DEF W!Tab
  <2> QED
    BY <1>2, <2>1, <2>2, <2>3
<1>4. tabs' \in [DOMAIN tabs -> W!Tab]
  BY <1>2, <1>3
<1>5. tabs' \in Seq(W!Tab) /\ Len(tabs') = Len(tabs)
  BY <1>4, MappedOf DEF TableTypes
<1> QED
  BY <1>2, <1>3, <1>5, TableKept

LEMMA ShowUrlTypes ==
  ASSUME NEW u \in Urls, W!ShowUrl(u)
  PROVE  addressBar' \in Urls /\ edited' \in BOOLEAN
  BY DEF W!ShowUrl

LEMMA LoadUrlTypes ==
  ASSUME WebviewTypes, BarTypes, NEW u \in Urls, W!LoadUrl(u)
  PROVE  WebviewTypes' /\ refused' \in BOOLEAN
  BY DesktopAssumption DEF W!LoadUrl, W!webview, WebviewTypes, BarTypes, W!WindowAssumption

LEMMA NewTabTypes ==
  ASSUME WindowTypes, W!NewTab
  PROVE  WindowTypes'
<1> USE DEF W!NewTab
<1>1. Home \in Urls
  BY DesktopAssumption DEF W!WindowAssumption
<1>2. BarTypes' /\ WebviewTypes' /\ LogTypes'
  BY <1>1, ShowUrlTypes, LoadUrlTypes DEF WindowTypes, BarTypes, LogTypes
<1>3. TableTypes'
  <2> DEFINE rest == [n \in DOMAIN tabs |-> [tabs[n] EXCEPT !.active = FALSE]]
             new == W!NewTabOf(nextTab)
  <2> USE DEF WindowTypes, TableTypes
  <2>1. /\ DOMAIN tabs = 1..Len(tabs) /\ Len(tabs) \in Nat
        /\ \A n \in DOMAIN tabs : tabs[n] \in W!Tab
    BY LenProperties, ElementOfSeq
  <2>2. MaxTabs \in Nat /\ nextTab + 1 \in 1..MaxTabs
    BY DesktopAssumption DEF W!WindowAssumption
  <2>3. new \in W!Tab /\ new.id = nextTab /\ new.active
    BY <1>1, <2>2 DEF W!NewTabOf, W!Tab
  <2>4. \A n \in 1..Len(tabs) : rest[n] \in W!Tab /\ rest[n].id = tabs[n].id /\ ~rest[n].active
    <3>1. \A t \in W!Tab : LET u == [t EXCEPT !.active = FALSE]
                          IN  u \in W!Tab /\ u.id = t.id /\ ~u.active
      BY DEF W!Tab
    <3> QED
      BY <2>1, <3>1
  <2>5. rest \in Seq(W!Tab) /\ Len(rest) = Len(tabs)
    <3>1. rest \in [DOMAIN tabs -> W!Tab]
      BY <2>1, <2>4
    <3> QED
      BY <3>1, MappedOf
  <2>6. tabs' = Append(rest, new) /\ activeTab' = nextTab /\ nextTab' = nextTab + 1
    OBVIOUS
  <2> HIDE DEF rest, new, W!NewTab
  <2>7. /\ tabs' \in Seq(W!Tab) /\ DOMAIN tabs' = 1..(Len(tabs) + 1)
        /\ Len(tabs') = Len(tabs) + 1
        /\ \A n \in 1..Len(tabs) : tabs'[n] = rest[n]
        /\ tabs'[Len(tabs) + 1] = new
    <3>1. new \in W!Tab /\ rest \in Seq(W!Tab) /\ Len(rest) = Len(tabs)
      BY <2>3, <2>5
    <3>2. /\ Append(rest, new) \in Seq(W!Tab) /\ DOMAIN Append(rest, new) = 1..(Len(rest) + 1)
          /\ DOMAIN rest = 1..Len(rest)
          /\ \A n \in DOMAIN rest : Append(rest, new)[n] = rest[n]
          /\ Append(rest, new)[Len(rest) + 1] = new /\ Len(Append(rest, new)) = Len(rest) + 1
      BY <3>1, AppendOf, AppendProperties
    <3> QED
      BY <2>6, <3>1, <3>2
  <2>8. \A n \in 1..Len(tabs) :
          /\ tabs'[n].id = tabs[n].id /\ ~tabs'[n].active
          /\ tabs[n].id \in Nat /\ tabs[n].id < nextTab
    <3>1. \A n \in 1..Len(tabs) : tabs[n].id \in 0..MaxTabs
      BY <2>1 DEF W!Tab
    <3> QED
      BY <2>1, <2>2, <2>4, <2>7, <3>1
  <2>9. \A n \in DOMAIN tabs' : n \in 1..Len(tabs) \/ n = Len(tabs) + 1
    BY <2>1, <2>7
  <2>10. \A n, m \in DOMAIN tabs' : tabs'[n].id = tabs'[m].id => n = m
    BY <2>1, <2>2, <2>3, <2>7, <2>8, <2>9
  <2>11. \A n \in DOMAIN tabs' : tabs'[n].active <=> tabs'[n].id = activeTab'
    <3>1. \A n \in 1..Len(tabs) : ~tabs'[n].active /\ tabs'[n].id # activeTab'
      <4>1. activeTab' = nextTab /\ nextTab \in Nat
        BY <2>2, <2>6
      <4>2. \A n \in 1..Len(tabs) : ~tabs'[n].active
        BY <2>8
      <4>3. \A n \in 1..Len(tabs) : tabs'[n].id \in Nat /\ tabs'[n].id < nextTab
        BY <2>8
      <4> QED
        BY <4>1, <4>2, <4>3
    <3>2. tabs'[Len(tabs) + 1].active /\ tabs'[Len(tabs) + 1].id = activeTab'
      BY <2>3, <2>6, <2>7
    <3> QED
      BY <2>9, <3>1, <3>2
  <2>12. \A n \in DOMAIN tabs' : tabs'[n].id < nextTab'
    BY <2>2, <2>3, <2>6, <2>7, <2>8, <2>9
  <2>13. \E n \in DOMAIN tabs' : tabs'[n].active
    BY <2>1, <2>3, <2>7
  <2> QED
    BY <2>1, <2>2, <2>6, <2>7, <2>10, <2>11, <2>12, <2>13
<1> QED
  BY <1>2, <1>3 DEF WindowTypes

LEMMA SwitchTabTypes ==
  ASSUME WindowTypes, NEW n \in DOMAIN tabs, W!SwitchTab(n)
  PROVE  WindowTypes'
<1> USE DEF W!SwitchTab, WindowTypes, TableTypes
<1>1. /\ DOMAIN tabs = 1..Len(tabs) /\ Len(tabs) \in Nat
      /\ \A m \in DOMAIN tabs : tabs[m] \in W!Tab
  BY SeqOf
<1>2. \A m \in DOMAIN tabs :
        /\ tabs'[m] \in W!Tab
        /\ tabs'[m].id = tabs[m].id /\ (tabs'[m].active <=> m = n)
  <2> SUFFICES ASSUME NEW m \in DOMAIN tabs
               PROVE  /\ tabs'[m] \in W!Tab
                      /\ tabs'[m].id = tabs[m].id /\ (tabs'[m].active <=> m = n)
    OBVIOUS
  <2>1. tabs[m] \in W!Tab /\ tabs'[m] = [tabs[m] EXCEPT !.active = (m = n)]
    BY <1>1
  <2> HIDE DEF W!SwitchTab, TableTypes
  <2> QED
    BY <2>1 DEF W!Tab
<1>3. tabs' \in Seq(W!Tab) /\ Len(tabs') = Len(tabs) /\ DOMAIN tabs' = DOMAIN tabs
  <2>1. tabs' \in [DOMAIN tabs -> W!Tab]
    BY <1>2
  <2> QED
    BY <2>1, MappedOf
<1>4. BarTypes' /\ WebviewTypes' /\ LogTypes'
  <2>1. tabs[n].url \in Urls
    BY <1>1 DEF W!Tab
  <2> QED
    BY <2>1, ShowUrlTypes, LoadUrlTypes DEF BarTypes, LogTypes
<1>5. activeTab' = tabs[n].id /\ nextTab' = nextTab
  OBVIOUS
<1>6. /\ \A m \in DOMAIN tabs' : tabs'[m].active <=> tabs'[m].id = activeTab'
      /\ \E m \in DOMAIN tabs' : tabs'[m].active
  <2> HIDE DEF W!SwitchTab
  <2> QED
    BY <1>2, <1>3, <1>5
<1>7. TableTypes'
  <2> HIDE DEF W!SwitchTab
  <2> QED
    BY <1>1, <1>2, <1>3, <1>5, <1>6
<1> QED
  BY <1>4, <1>7

LEMMA CloseTabTypes ==
  ASSUME WindowTypes, NEW n \in DOMAIN tabs, W!CloseTab(n)
  PROVE  WindowTypes'
<1> DEFINE rest == W!RemoveAt(tabs, n)
           size == Len(tabs) - 1
           from(k) == IF k < n THEN k ELSE k + 1
<1> USE DEF WindowTypes, TableTypes
<1>1. /\ DOMAIN tabs = 1..Len(tabs) /\ Len(tabs) \in Nat /\ Len(tabs) > 1
      /\ \A m \in DOMAIN tabs : tabs[m] \in W!Tab
  BY SeqOf DEF W!CloseTab
<1>2. /\ rest \in Seq(W!Tab) /\ Len(rest) = size /\ DOMAIN rest = 1..size
      /\ \A k \in 1..size : rest[k] = tabs[from(k)]
  <2>1. /\ rest \in Seq(W!Tab) /\ Len(rest) = size /\ DOMAIN rest = 1..size
        /\ \A k \in 1..size : rest[k] = IF k < n THEN tabs[k] ELSE tabs[k + 1]
    BY RemoveOf
  <2> HIDE DEF rest
  <2> QED
    BY <2>1
<1>3. /\ size \in Nat /\ size > 0 /\ size \in 1..size
      /\ \A k \in 1..size : from(k) \in DOMAIN tabs /\ from(k) # n
      /\ \A k, l \in 1..size : from(k) = from(l) => k = l
      /\ \A m \in DOMAIN tabs : m # n => \E k \in 1..size : from(k) = m
  <2>1. \A m \in DOMAIN tabs : m # n => \E k \in 1..size : from(k) = m
    <3> SUFFICES ASSUME NEW m \in DOMAIN tabs, m # n
                 PROVE  \E k \in 1..size : from(k) = m
      OBVIOUS
    <3>1. CASE m < n
      BY <1>1, <3>1
    <3>2. CASE m > n
      <4>1. m - 1 \in 1..size /\ from(m - 1) = m
        BY <1>1, <3>2
      <4> QED
        BY <4>1
    <3> QED
      BY <1>1, <3>1, <3>2
  <2> QED
    BY <1>1, <2>1
<1>4. nextTab' = nextTab /\ LogTypes'
  BY DEF W!CloseTab, LogTypes
<1>5. CASE tabs[n].id = activeTab
  <2> DEFINE end == rest[size]
             now == [end EXCEPT !.active = TRUE]
  <2>1. end \in W!Tab /\ end.url \in Urls /\ now \in W!Tab /\ now.id = end.id /\ now.active
    <3>1. end \in W!Tab
      <4> HIDE DEF rest, size, from
      <4> QED
        BY <1>1, <1>2, <1>3
    <3> HIDE DEF end
    <3> QED
      BY <3>1 DEF W!Tab
  <2>2. /\ tabs' = [rest EXCEPT ![size] = now] /\ activeTab' = end.id
        /\ W!ShowUrl(end.url) /\ W!LoadUrl(end.url)
    BY <1>2, <1>5 DEF W!CloseTab, W!Last
  <2>3. BarTypes' /\ WebviewTypes'
    BY <2>1, <2>2, ShowUrlTypes, LoadUrlTypes DEF BarTypes
  <2> HIDE DEF rest, size, from, now
  <2>4. /\ tabs' \in Seq(W!Tab) /\ Len(tabs') = size /\ DOMAIN tabs' = 1..size
        /\ \A k \in 1..size : tabs'[k] = IF k = size THEN now ELSE rest[k]
    BY <1>2, <1>3, <2>1, <2>2, ExceptSeq, LenProperties
  <2>5. \A k \in 1..size : tabs'[k].id = tabs[from(k)].id
    BY <1>2, <1>3, <2>1, <2>4
  <2>6. \A k \in 1..size : tabs'[k].active <=> k = size
    <3> SUFFICES ASSUME NEW k \in 1..size
                 PROVE  tabs'[k].active <=> k = size
      OBVIOUS
    <3>1. CASE k = size
      BY <2>1, <2>4, <3>1
    <3>2. CASE k # size
      <4>1. tabs'[k] = tabs[from(k)] /\ from(k) \in DOMAIN tabs /\ from(k) # n
        BY <1>2, <1>3, <2>4, <3>2
      <4>2. tabs[from(k)].id # activeTab
        BY <1>5, <4>1
      <4> QED
        BY <3>2, <4>1, <4>2
    <3> QED
      BY <3>1, <3>2
  <2>7. \A k, l \in 1..size : tabs'[k].id = tabs'[l].id => k = l
    BY <1>3, <2>5
  <2>8. \A k \in 1..size : tabs'[k].active <=> tabs'[k].id = activeTab'
    BY <1>2, <1>3, <2>2, <2>5, <2>6, <2>7
  <2>9. (\E k \in 1..size : tabs'[k].active) /\ \A k \in 1..size : tabs'[k].id < nextTab'
    BY <1>3, <1>4, <2>5, <2>6
  <2>10. TableTypes'
    <3> HIDE DEF TableTypes
    <3>1. Len(tabs') > 0 /\ nextTab' \in 1..MaxTabs
      BY <1>3, <1>4, <2>4 DEF TableTypes
    <3> QED
      BY <2>4, <2>7, <2>8, <2>9, <3>1 DEF TableTypes
  <2> QED
    BY <1>4, <2>3, <2>10
<1>6. CASE tabs[n].id # activeTab
  <2>1. /\ tabs' = rest
        /\ UNCHANGED <<activeTab, addressBar, edited, refused, cef, page, going, phase,
                       overtaken>>
    BY <1>6 DEF W!CloseTab, W!bar, W!webview
  <2>2. BarTypes' /\ WebviewTypes'
    BY <2>1 DEF BarTypes, WebviewTypes
  <2> HIDE DEF rest, size, from
  <2>3. /\ \A k, l \in 1..size : tabs'[k].id = tabs'[l].id => k = l
        /\ \A k \in 1..size : tabs'[k].active <=> tabs'[k].id = activeTab'
        /\ \A k \in 1..size : tabs'[k].id < nextTab'
    BY <1>2, <1>3, <1>4, <2>1
  <2>4. \E k \in 1..size : tabs'[k].active
    <3>1. PICK m \in DOMAIN tabs : tabs[m].active
      OBVIOUS
    <3>2. m # n
      BY <1>6, <3>1
    <3>3. PICK k \in 1..size : from(k) = m
      BY <1>3, <3>2
    <3> QED
      BY <1>2, <2>1, <3>1, <3>3
  <2>5. TableTypes'
    <3>1. /\ tabs' \in Seq(W!Tab) /\ Len(tabs') > 0 /\ DOMAIN tabs' = 1..size
          /\ nextTab' \in 1..MaxTabs
      BY <1>2, <1>3, <1>4, <2>1
    <3> QED
      BY <2>3, <2>4, <3>1
  <2> QED
    BY <1>4, <2>2, <2>5
<1> QED
  BY <1>5, <1>6

(* A URL is entered, asked for by an agent or wanted by the page.          *)
LEMMA NavigateTypes ==
  ASSUME WindowTypes, NEW u \in Urls, W!Navigate(u)
  PROVE  /\ TableTypes' /\ BarTypes' /\ WebviewTypes'
         /\ UNCHANGED <<downloads, transfers>>
<1>1. TableTypes' /\ UNCHANGED <<downloads, transfers>>
  BY TableEdited DEF W!Navigate, WindowTypes
<1>2. BarTypes' /\ WebviewTypes'
  BY ShowUrlTypes, LoadUrlTypes DEF W!Navigate, WindowTypes, BarTypes
<1> QED
  BY <1>1, <1>2

LEMMA UserTypes ==
  ASSUME WindowTypes,
         NEW u \in Urls,
         \/ W!UserNavigates(u) \/ W!EnterAddress
         \/ W!TypeAddress(u) \/ W!CommandNavigate(u)
  PROVE  WindowTypes'
<1>1. CASE W!UserNavigates(u)
  BY <1>1, NavigateTypes DEF W!UserNavigates, WindowTypes, LogTypes
<1>2. CASE W!EnterAddress
  <2>1. addressBar \in Urls
    BY DEF WindowTypes, BarTypes
  <2> QED
    BY <1>2, <2>1, NavigateTypes DEF W!EnterAddress, WindowTypes, LogTypes
<1>3. CASE W!TypeAddress(u)
  BY <1>3 DEF W!TypeAddress, W!table, W!webview, WindowTypes, TableTypes, BarTypes,
              WebviewTypes, LogTypes
<1>4. CASE W!CommandNavigate(u)
  <2>1. TableTypes'
    BY <1>4, TableEdited DEF W!CommandNavigate, WindowTypes
  <2>2. BarTypes' /\ WebviewTypes'
    BY <1>4, ShowUrlTypes, LoadUrlTypes DEF W!CommandNavigate, WindowTypes, BarTypes
  <2> QED
    BY <1>4, <2>1, <2>2 DEF W!CommandNavigate, WindowTypes, LogTypes
<1> QED
  BY <1>1, <1>2, <1>3, <1>4

LEMMA InitBrowserTypes ==
  ASSUME WindowTypes, W!InitBrowser
  PROVE  WindowTypes'
<1>1. tabs[1].url \in Urls
  <2>1. tabs[1] \in W!Tab
    BY SeqOf DEF WindowTypes, TableTypes
  <2> QED
    BY <2>1 DEF W!Tab
<1>2. WebviewTypes'
  BY <1>1, DesktopAssumption
     DEF W!InitBrowser, WindowTypes, WebviewTypes, W!WindowAssumption
<1> QED
  BY <1>2 DEF W!InitBrowser, W!table, W!bar, WindowTypes, TableTypes, BarTypes, LogTypes

(* What is left is the running items, in their order.                      *)
LEMMA ClearedOf ==
  ASSUME WindowTypes, W!ClearCompleted
  PROVE  \E n \in 0..Len(downloads) : \E f \in [1..n -> DOMAIN downloads] :
           /\ downloads' = [k \in 1..n |-> downloads[f[k]]]
           /\ downloads' \in Seq(W!Item) /\ DOMAIN downloads' = 1..n
           /\ \A k, l \in 1..n : f[k] = f[l] => k = l
           /\ {f[k] : k \in 1..n} = {m \in DOMAIN downloads : downloads[m].status = "InProgress"}
<1>0. PICK n \in 0..Len(downloads) :
        \E f \in [1..n -> DOMAIN downloads] :
          W!Keeps(f) /\ downloads' = [k \in 1..n |-> downloads[f[k]]]
  BY DEF W!ClearCompleted
<1>1. PICK f \in [1..n -> DOMAIN downloads] :
        W!Keeps(f) /\ downloads' = [k \in 1..n |-> downloads[f[k]]]
  BY <1>0
<1>2. n \in Nat /\ \A m \in DOMAIN downloads : downloads[m] \in W!Item /\ m \in Nat
  BY SeqOf DEF WindowTypes, LogTypes
<1>3. downloads' \in Seq(W!Item) /\ DOMAIN downloads' = 1..n
  <2>1. downloads' \in [1..n -> W!Item]
    BY <1>1, <1>2
  <2> QED
    BY <1>1, <1>2, <2>1
<1>4. DOMAIN f = 1..n /\ \A k \in 1..n : f[k] \in Nat
  BY <1>2
<1>5. \A k, l \in 1..n : f[k] = f[l] => k = l
  <2> SUFFICES ASSUME NEW k \in 1..n, NEW l \in 1..n, f[k] = f[l], k # l
               PROVE  FALSE
    OBVIOUS
  <2>1. k < l \/ l < k
    BY <1>2
  <2>2. f[k] < f[l] \/ f[l] < f[k]
    BY <1>1, <1>4, <2>1 DEF W!Keeps
  <2> QED
    BY <1>4, <2>2
<1>6. {f[k] : k \in 1..n} = {m \in DOMAIN downloads : downloads[m].status = "InProgress"}
  BY <1>1, <1>4 DEF W!Keeps
<1> QED
  BY <1>1, <1>3, <1>5, <1>6

LEMMA ClearCompletedTypes ==
  ASSUME WindowTypes, W!ClearCompleted
  PROVE  WindowTypes'
<1>1. downloads' \in Seq(W!Item)
  BY ClearedOf
<1> QED
  BY <1>1 DEF W!ClearCompleted, W!table, W!bar, W!webview, WindowTypes, TableTypes, BarTypes,
              WebviewTypes, LogTypes

(* An item is booked.                                                      *)
LEMMA BookedOf ==
  ASSUME WindowTypes, NEW u \in Urls, NEW s \in {"Completed", "Failed"}, W!BookDownloaded(u, s)
  PROVE  /\ downloads' \in Seq(W!Item) /\ DOMAIN downloads' = DOMAIN downloads
         /\ \A n \in DOMAIN downloads :
              /\ downloads'[n].url = downloads[n].url
              /\ downloads[n].url # u => downloads'[n] = downloads[n]
              /\ downloads[n].url = u /\ (\A m \in 1..(n - 1) : downloads[m].url # u) =>
                   downloads'[n].status = s
<1>1. \A n \in DOMAIN downloads : downloads[n] \in W!Item
  BY SeqOf DEF WindowTypes, LogTypes
<1>2. \A n \in DOMAIN downloads :
        /\ downloads'[n] \in W!Item
        /\ downloads'[n].url = downloads[n].url
        /\ downloads[n].url # u => downloads'[n] = downloads[n]
        /\ downloads[n].url = u /\ (\A m \in 1..(n - 1) : downloads[m].url # u) =>
             downloads'[n].status = s
  BY <1>1 DEF W!BookDownloaded, W!Item
<1>3. downloads' \in [DOMAIN downloads -> W!Item]
  BY <1>2 DEF W!BookDownloaded
<1>4. downloads' \in Seq(W!Item) /\ DOMAIN downloads' = DOMAIN downloads
  BY <1>3, MappedOf DEF WindowTypes, LogTypes
<1> QED
  BY <1>2, <1>4

LEMMA ProcessReportTypes ==
  ASSUME WindowTypes, W!ProcessReport
  PROVE  WindowTypes'
<1> DEFINE r == Head(reports)
<1>1. r \in W!Report /\ r.url \in Urls /\ reports' \in Seq(W!Report)
  <2>1. r \in W!Report /\ reports' \in Seq(W!Report)
    BY TailOf DEF W!ProcessReport, W!Drained, WindowTypes, LogTypes
  <2> HIDE DEF r
  <2> QED
    BY <2>1 DEF W!Report
<1>2. \/ \E b \in BOOLEAN : W!BookLoad(r.url, b)
      \/ W!Navigate(r.url) \/ W!BookDownload(r.url)
      \/ \E s \in {"Completed", "Failed"} : W!BookDownloaded(r.url, s)
  <2>1. r.kind \in {"started", "finished", "new-window", "download", "downloaded", "failed"}
    <3> HIDE DEF r
    <3> QED
      BY <1>1 DEF W!Report
  <2> QED
    BY <2>1 DEF W!ProcessReport
<1> HIDE DEF r
<1> USE DEF WindowTypes
<1>3. ASSUME NEW b \in BOOLEAN, W!BookLoad(r.url, b)
      PROVE  WindowTypes'
  <2>1. TableTypes'
    BY <1>1, <1>3, TableEdited DEF W!BookLoad
  <2> QED
    BY <1>1, <1>3, <2>1, ShowUrlTypes DEF W!BookLoad, W!webview, BarTypes, WebviewTypes, LogTypes
<1>4. CASE W!Navigate(r.url)
  BY <1>1, <1>4, NavigateTypes DEF LogTypes
<1>5. CASE W!BookDownload(r.url)
  <2>1. [url |-> r.url, status |-> "InProgress"] \in W!Item
    BY <1>1 DEF W!Item
  <2>2. downloads' \in Seq(W!Item)
    BY <1>5, <2>1 DEF W!BookDownload, LogTypes
  <2>3. TableTypes' /\ BarTypes' /\ WebviewTypes'
    BY <1>5 DEF W!BookDownload, W!table, W!bar, W!webview, TableTypes, BarTypes, WebviewTypes
  <2>4. LogTypes'
    BY <1>1, <1>5, <2>2 DEF W!BookDownload, LogTypes
  <2> QED
    BY <2>3, <2>4
<1>6. ASSUME NEW s \in {"Completed", "Failed"}, W!BookDownloaded(r.url, s)
      PROVE  WindowTypes'
  <2>1. TableTypes' /\ BarTypes' /\ WebviewTypes'
    BY <1>6 DEF W!BookDownloaded, W!table, W!bar, W!webview, TableTypes, BarTypes, WebviewTypes
  <2>2. LogTypes'
    BY <1>1, <1>6, BookedOf DEF W!BookDownloaded, LogTypes
  <2> QED
    BY <2>1, <2>2
<1> QED
  BY <1>2, <1>3, <1>4, <1>5, <1>6

(* What the WebView says goes to the end of the queue.                     *)
LEMMA SaysOf ==
  ASSUME WindowTypes, NEW u \in Urls, NEW k \in {"started", "finished", "new-window",
                                                 "download", "downloaded", "failed"}
  PROVE  /\ W!Says(k, u) \in W!Report /\ W!Says(k, u).kind = k /\ W!Says(k, u).url = u
         /\ reports \o <<W!Says(k, u)>> = Append(reports, W!Says(k, u))
         /\ reports \o <<W!Says(k, u)>> \in Seq(W!Report)
<1>1. W!Says(k, u) \in W!Report /\ W!Says(k, u).kind = k /\ W!Says(k, u).url = u
  BY DEF W!Says, W!Report
<1>2. reports \in Seq(W!Report)
  BY DEF WindowTypes, LogTypes
<1> QED
  BY <1>1, <1>2, AppendIsConcat, AppendProperties

LEMMA WebviewStepTypes ==
  ASSUME WindowTypes,
         \/ W!Commit \/ W!Finish \/ W!FinishOvertaken
         \/ \E u \in Urls : W!PageGoes(u) \/ W!OpenWindow(u)
  PROVE  WindowTypes'
<1> USE DEF W!table, W!bar, W!webview, WindowTypes, W!Reports
<1>1. CASE W!Commit
  <2>1. going \in Urls
    BY <1>1 DEF W!Commit, WebviewTypes
  <2>2. WebviewTypes'
    BY <1>1, <2>1 DEF W!Commit, WebviewTypes
  <2>3. reports' \in Seq(W!Report)
    BY <1>1, <2>1, SaysOf DEF W!Commit
  <2> QED
    BY <1>1, <2>2, <2>3 DEF W!Commit, TableTypes, BarTypes, LogTypes
<1>2. CASE W!Finish \/ W!FinishOvertaken
  <2>1. page \in Urls
    BY DEF WebviewTypes
  <2>2. WebviewTypes'
    BY <1>2 DEF W!Finish, W!FinishOvertaken, WebviewTypes
  <2>3. reports' \in Seq(W!Report)
    BY <1>2, <2>1, SaysOf DEF W!Finish, W!FinishOvertaken
  <2> QED
    BY <1>2, <2>2, <2>3 DEF W!Finish, W!FinishOvertaken, TableTypes, BarTypes, LogTypes
<1>3. ASSUME NEW u \in Urls, W!PageGoes(u)
      PROVE  WindowTypes'
  <2>1. WebviewTypes'
    BY <1>3, DesktopAssumption DEF W!PageGoes, WebviewTypes, W!WindowAssumption
  <2> QED
    BY <1>3, <2>1 DEF W!PageGoes, TableTypes, BarTypes, LogTypes
<1>4. ASSUME NEW u \in Urls, W!OpenWindow(u)
      PROVE  WindowTypes'
  <2>1. reports' \in Seq(W!Report)
    BY <1>4, SaysOf DEF W!OpenWindow
  <2> QED
    BY <1>4, <2>1 DEF W!OpenWindow, TableTypes, BarTypes, WebviewTypes, LogTypes
<1> QED
  BY <1>1, <1>2, <1>3, <1>4

LEMMA TransferTypes ==
  ASSUME WindowTypes,
         W!StartDownload \/ \E n \in 1..MaxDownloads : W!EndDownload(n)
  PROVE  WindowTypes'
<1> USE DEF W!table, W!bar, W!webview, WindowTypes, W!Reports
<1>1. CASE W!StartDownload
  <2>1. going \in Urls /\ page \in Urls
    BY <1>1 DEF W!StartDownload, WebviewTypes
  <2>2. WebviewTypes'
    BY <1>1, <2>1 DEF W!StartDownload, WebviewTypes
  <2>3. reports' \in Seq(W!Report)
    <3>1. W!Says("download", going) \in W!Report /\ W!Says("finished", page) \in W!Report
      BY <2>1, SaysOf
    <3>2. reports' = Append(Append(reports, W!Says("download", going)), W!Says("finished", page))
      BY <1>1, <3>1, ConcatTwo DEF W!StartDownload, LogTypes
    <3> QED
      BY <3>1, <3>2, AppendOf DEF LogTypes
  <2>4. transfers' \in Seq([url : Urls, running : BOOLEAN])
    BY <1>1, <2>1 DEF W!StartDownload, LogTypes
  <2> QED
    BY <1>1, <2>2, <2>3, <2>4 DEF W!StartDownload, TableTypes, BarTypes, LogTypes
<1>2. ASSUME NEW n \in 1..MaxDownloads, W!EndDownload(n)
      PROVE  WindowTypes'
  <2>1. n \in DOMAIN transfers /\ transfers[n] \in [url : Urls, running : BOOLEAN]
    BY <1>2, SeqOf DEF W!EndDownload, LogTypes
  <2>2. PICK kind \in {"downloaded", "failed"} : W!Reports(<<W!Says(kind, transfers[n].url)>>)
    BY <1>2 DEF W!EndDownload
  <2>3. reports' \in Seq(W!Report)
    BY <2>1, <2>2, SaysOf
  <2>4. transfers' = [transfers EXCEPT ![n] = [transfers[n] EXCEPT !.running = FALSE]]
    BY <1>2 DEF W!EndDownload
  <2>5. [transfers[n] EXCEPT !.running = FALSE] \in [url : Urls, running : BOOLEAN]
    BY <2>1
  <2>6. transfers' \in Seq([url : Urls, running : BOOLEAN])
    BY <2>1, <2>4, <2>5, SeqOf, ExceptSeq DEF LogTypes
  <2> QED
    BY <1>2, <2>3, <2>6 DEF W!EndDownload, TableTypes, BarTypes, WebviewTypes, LogTypes
<1> QED
  BY <1>1, <1>2

LEMMA WindowTypesInit == Init => WindowTypes
<1> SUFFICES ASSUME Init PROVE WindowTypes
  OBVIOUS
<1>1. Home \in Urls /\ NoUrl \notin Urls /\ MaxTabs \in Nat \ {0}
  BY DesktopAssumption DEF W!WindowAssumption
<1>2. W!NewTabOf(0) \in W!Tab /\ W!NewTabOf(0).id = 0 /\ W!NewTabOf(0).active
  BY <1>1 DEF W!NewTabOf, W!Tab
<1>3. TableTypes
  BY <1>1, <1>2 DEF Init, W!Init, TableTypes
<1>4. BarTypes /\ LogTypes
  <2>1. /\ addressBar = Home /\ edited = FALSE /\ refused = FALSE
        /\ reports = <<>> /\ downloads = <<>> /\ transfers = <<>>
    BY DEF Init, W!Init
  <2>2. \A S : <<>> \in Seq(S)
    BY EmptySeq
  <2> QED
    BY <1>1, <2>1, <2>2 DEF BarTypes, LogTypes
<1>5. WebviewTypes
  BY <1>1 DEF Init, W!Init, WebviewTypes
<1> QED
  BY <1>3, <1>4, <1>5 DEF WindowTypes

LEMMA WindowTypesStep ==
  ASSUME WindowTypes, Next
  PROVE  WindowTypes'
<1>1. CASE UNCHANGED windowVars
  BY <1>1 DEF windowVars, WindowTypes, TableTypes, BarTypes, WebviewTypes, LogTypes
<1>2. CASE W!WindowNext
  <2>1. ASSUME W!TabStrip
        PROVE  WindowTypes'
    <3>1. \A n \in 1..MaxTabs : W!SwitchTab(n) \/ W!CloseTab(n) => n \in DOMAIN tabs
      BY DEF W!SwitchTab, W!CloseTab
    <3> QED
      BY <2>1, <3>1, NewTabTypes, SwitchTabTypes, CloseTabTypes DEF W!TabStrip
  <2>2. W!EnterAddress => \E u \in Urls : W!EnterAddress
    BY DEF WindowTypes, BarTypes
  <2> QED
    BY <1>2, <2>1, <2>2, ProcessReportTypes, InitBrowserTypes, UserTypes, ClearCompletedTypes,
       WebviewStepTypes, TransferTypes
       DEF W!WindowNext
<1> QED
  BY <1>1, <1>2 DEF Next

-----------------------------------------------------------------------------
(* The tabs and the page.                                                  *)

(* Reports that set the active tab.                                        *)
Load(n) == reports[n].kind \in {"started", "finished", "new-window"}

Idle == cef /\ phase = "idle" /\ ~overtaken

ShowsPage ==
  /\ \A n \in DOMAIN tabs : tabs[n].id = activeTab => tabs[n].url = page /\ ~tabs[n].spinning
  /\ ~edited => addressBar = page

(* While the WebView has nothing under way, the last load it has reported  *)
(* is the page it shows, and when all are drained the active tab shows it, *)
(* unless the load asked for last was refused.  A wish for a window counts *)
(* as the start of a load.                                                 *)
TabsInv ==
  Idle =>
    /\ \A n \in DOMAIN reports :
         Load(n) /\ (\A m \in DOMAIN reports : m > n => ~Load(m)) =>
           \/ reports[n].kind = "new-window"
           \/ reports[n].kind = "finished" /\ reports[n].url = page
    /\ (\A n \in DOMAIN reports : ~Load(n)) /\ ~refused => ShowsPage

(* The last report decides.                                                *)
LEMMA LastReportTabs ==
  ASSUME NEW end \in Nat \ {0}, DOMAIN reports' = 1..end,
         reports'[end].kind \in {"started", "finished", "new-window"},
         Idle' => \/ reports'[end].kind = "new-window"
                  \/ reports'[end].kind = "finished" /\ reports'[end].url = page'
  PROVE  TabsInv'
<1>1. Load(end)'
  BY DEF Load
<1>2. ASSUME NEW n \in DOMAIN reports', \A m \in DOMAIN reports' : m > n => ~Load(m)'
      PROVE  n = end
  BY <1>1, <1>2
<1> QED
  BY <1>1, <1>2 DEF TabsInv

LEMMA SaidTabs ==
  ASSUME WindowTypes, NEW u \in Urls, NEW k \in {"started", "finished", "new-window"},
         reports' = reports \o <<W!Says(k, u)>>,
         Idle' => k = "new-window" \/ (k = "finished" /\ u = page')
  PROVE  TabsInv'
<1> DEFINE e == W!Says(k, u)
<1>1. e \in W!Report /\ e.kind = k /\ e.url = u /\ reports' = Append(reports, e)
  BY SaysOf
<1> HIDE DEF e
<1>2. PICK end \in Nat \ {0} : DOMAIN reports' = 1..end /\ reports'[end] = e
  <2>1. /\ DOMAIN reports' = 1..(Len(reports) + 1) /\ reports'[Len(reports) + 1] = e
        /\ Len(reports) \in Nat
    BY <1>1, AppendOf DEF WindowTypes, LogTypes
  <2> QED
    BY <2>1
<1> QED
  BY <1>1, <1>2, LastReportTabs

(* What the user or an agent asks for is under way or was refused.         *)
LEMMA LoadUrlTabs ==
  ASSUME WindowTypes, TabsInv, NEW u, W!LoadUrl(u), UNCHANGED reports
  PROVE  TabsInv'
<1>1. CASE cef /\ refused' = TRUE /\ UNCHANGED W!webview
  <2>1. (Idle' <=> Idle) /\ UNCHANGED page /\ \A n \in DOMAIN reports : Load(n)' <=> Load(n)
    BY <1>1 DEF W!webview, Idle, Load
  <2> QED
    BY <1>1, <2>1 DEF TabsInv
<1> QED
  BY <1>1 DEF W!LoadUrl, W!webview, TabsInv, Idle, WindowTypes, WebviewTypes

LEMMA UserTabs ==
  ASSUME WindowTypes, TabsInv,
         \/ W!InitBrowser \/ W!NewTab \/ W!EnterAddress
         \/ \E u \in Urls : W!UserNavigates(u) \/ W!TypeAddress(u) \/ W!CommandNavigate(u)
         \/ \E n \in DOMAIN tabs : W!SwitchTab(n)
  PROVE  TabsInv'
<1>1. CASE W!InitBrowser
  BY <1>1 DEF W!InitBrowser, TabsInv, Idle
<1>3. CASE W!NewTab \/ \E n \in DOMAIN tabs : W!SwitchTab(n)
  BY <1>3, LoadUrlTabs DEF W!NewTab, W!SwitchTab
<1>4. CASE W!EnterAddress \/ \E u \in Urls : W!UserNavigates(u) \/ W!CommandNavigate(u)
  BY <1>4, LoadUrlTabs DEF W!EnterAddress, W!UserNavigates, W!CommandNavigate, W!Navigate
<1>5. ASSUME NEW u \in Urls, W!TypeAddress(u)
      PROVE  TabsInv'
  BY <1>5 DEF W!TypeAddress, W!table, W!webview, TabsInv, Idle, ShowsPage, Load
<1> QED
  BY <1>1, <1>3, <1>4, <1>5

LEMMA CloseTabTabs ==
  ASSUME WindowTypes, TabsInv, NEW n \in DOMAIN tabs, W!CloseTab(n)
  PROVE  TabsInv'
<1>1. CASE tabs[n].id = activeTab
  <2>1. UNCHANGED reports /\ \E u : W!LoadUrl(u)
    BY <1>1 DEF W!CloseTab
  <2> QED
    BY <2>1, LoadUrlTabs
<1>2. CASE tabs[n].id # activeTab
  <2>1. /\ tabs' = W!RemoveAt(tabs, n)
        /\ UNCHANGED <<activeTab, addressBar, edited, refused, cef, page, phase, overtaken,
                       reports>>
    BY <1>2 DEF W!CloseTab, W!bar, W!webview
  <2>2. \A k \in DOMAIN tabs' : \E m \in DOMAIN tabs : tabs'[k] = tabs[m]
    <3>1. tabs \in Seq(W!Tab) /\ DOMAIN tabs = 1..Len(tabs) /\ Len(tabs) \in Nat
      BY SeqOf DEF WindowTypes, TableTypes
    <3>2. /\ DOMAIN tabs' = 1..(Len(tabs) - 1)
          /\ \A k \in 1..(Len(tabs) - 1) : tabs'[k] = IF k < n THEN tabs[k] ELSE tabs[k + 1]
      BY <2>1, <3>1, RemoveOf
    <3> QED
      BY <3>1, <3>2
  <2> QED
    BY <2>1, <2>2 DEF TabsInv, Idle, ShowsPage, Load
<1> QED
  BY <1>1, <1>2

LEMMA BookLoadTabs ==
  ASSUME WindowTypes, NEW u \in Urls, W!BookLoad(u, FALSE), u = page
  PROVE  ShowsPage'
<1>1. \A n \in DOMAIN tabs : tabs[n] \in W!Tab
  BY SeqOf DEF WindowTypes, TableTypes
<1>2. /\ DOMAIN tabs' = DOMAIN tabs
      /\ \A n \in DOMAIN tabs :
           tabs'[n] = IF tabs[n].id = activeTab
                      THEN [tabs[n] EXCEPT !.url = u, !.spinning = FALSE] ELSE tabs[n]
  BY DEF W!BookLoad, W!WithActive
<1>3. UNCHANGED <<activeTab, page>> /\ addressBar' = u
  BY DEF W!BookLoad, W!webview, W!ShowUrl
<1>4. ASSUME NEW n \in DOMAIN tabs', tabs'[n].id = activeTab'
      PROVE  tabs'[n].url = page' /\ ~tabs'[n].spinning
  <2>1. tabs[n] \in W!Tab
    BY <1>1, <1>2
  <2>2. CASE tabs[n].id = activeTab
    <3>1. tabs'[n] = [tabs[n] EXCEPT !.url = u, !.spinning = FALSE]
      BY <1>2, <2>2
    <3> QED
      BY <1>3, <2>1, <3>1 DEF W!Tab
  <2>3. CASE tabs[n].id # activeTab
    BY <1>2, <1>3, <1>4, <2>3
  <2> QED
    BY <2>2, <2>3
<1> QED
  BY <1>3, <1>4 DEF ShowsPage

LEMMA ProcessReportTabs ==
  ASSUME WindowTypes, TabsInv, W!ProcessReport
  PROVE  TabsInv'
<1> DEFINE r == Head(reports)
<1>1. /\ r = reports[1] /\ r.kind \in {"started", "finished", "new-window", "download", "downloaded", "failed"}
      /\ r.url \in Urls /\ 1 \in DOMAIN reports
      /\ DOMAIN reports = 1..Len(reports) /\ Len(reports) \in Nat
      /\ DOMAIN reports' = 1..(Len(reports) - 1)
      /\ \A n \in DOMAIN reports' : n + 1 \in DOMAIN reports /\ reports'[n] = reports[n + 1]
      /\ \A n \in DOMAIN reports : n = 1 \/ (n - 1 \in DOMAIN reports' /\ reports'[n - 1] = reports[n])
  <2>1. reports \in Seq(W!Report) /\ reports # <<>> /\ reports' = Tail(reports)
    BY DEF WindowTypes, LogTypes, W!ProcessReport, W!Drained
  <2>2. r \in W!Report
    BY <2>1, TailOf
  <2>3. r.kind \in {"started", "finished", "new-window", "download", "downloaded", "failed"} /\ r.url \in Urls
    <3> HIDE DEF r
    <3> QED
      BY <2>2 DEF W!Report
  <2> QED
    BY <2>1, <2>3, TailOf
<1> HIDE DEF r
<1>2. CASE r.kind \in {"started", "finished", "new-window"} /\ Idle'
  <2>1. Idle /\ UNCHANGED page
        /\ \/ r.kind = "new-window" /\ refused'
           \/ /\ r.kind # "new-window"
              /\ \E b \in BOOLEAN : W!BookLoad(r.url, b) /\ (b <=> r.kind = "started")
    <3>1. CASE r.kind = "new-window"
      <4>1. W!LoadUrl(r.url)
        BY <3>1 DEF W!ProcessReport, W!Navigate, r
      <4>2. refused' = TRUE /\ UNCHANGED <<cef, page, phase, overtaken>>
        BY <1>2, <4>1 DEF W!LoadUrl, W!webview, Idle
      <4>3. Idle
        BY <1>2, <4>2 DEF Idle
      <4>4. refused'
        BY <4>2
      <4> QED
        BY <3>1, <4>2, <4>3, <4>4
    <3>2. CASE r.kind # "new-window"
      <4>1. \E b \in BOOLEAN : W!BookLoad(r.url, b) /\ (b <=> r.kind = "started")
        BY <1>2, <3>2 DEF W!ProcessReport, r
      <4>2. UNCHANGED <<cef, page, phase, overtaken>>
        BY <4>1 DEF W!BookLoad, W!webview
      <4>3. Idle
        BY <1>2, <4>2 DEF Idle
      <4> QED
        BY <3>2, <4>1, <4>2, <4>3
    <3> QED
      BY <3>1, <3>2
  <2>2. ASSUME NEW n \in DOMAIN reports', Load(n)', \A m \in DOMAIN reports' : m > n => ~Load(m)'
        PROVE  \/ reports'[n].kind = "new-window"
               \/ reports'[n].kind = "finished" /\ reports'[n].url = page'
    <3>1. Load(n + 1) /\ \A m \in DOMAIN reports : m > n + 1 => ~Load(m)
      BY <1>1, <2>2 DEF Load
    <3> QED
      BY <1>1, <2>1, <3>1 DEF TabsInv
  <2>3. ASSUME \A n \in DOMAIN reports' : ~Load(n)', ~refused'
        PROVE  ShowsPage'
    <3>1. Load(1) /\ \A m \in DOMAIN reports : m > 1 => ~Load(m)
      BY <1>1, <1>2, <2>3 DEF Load
    <3>2. r.kind = "finished" /\ r.url = page
      BY <1>1, <2>1, <2>3, <3>1 DEF TabsInv
    <3>3. W!BookLoad(r.url, FALSE)
      BY <3>2 DEF W!ProcessReport, r
    <3> QED
      BY <1>1, <3>2, <3>3, BookLoadTabs
  <2> QED
    BY <2>2, <2>3 DEF TabsInv
<1>3. CASE r.kind \notin {"started", "finished", "new-window"}
  <2>1. W!BookDownload(r.url) \/ \E s \in {"Completed", "Failed"} : W!BookDownloaded(r.url, s)
    BY <1>1, <1>3 DEF W!ProcessReport, r
  <2>2. UNCHANGED <<tabs, activeTab, addressBar, edited, refused, cef, page, phase, overtaken>>
    BY <2>1 DEF W!BookDownload, W!BookDownloaded, W!table, W!bar, W!webview
  <2>3. \A n \in DOMAIN reports' : Load(n)' <=> Load(n + 1)
    BY <1>1 DEF Load
  <2>4. ASSUME Idle', NEW n \in DOMAIN reports', Load(n)',
               \A m \in DOMAIN reports' : m > n => ~Load(m)'
        PROVE  \/ reports'[n].kind = "new-window"
               \/ reports'[n].kind = "finished" /\ reports'[n].url = page'
    <3>1. Load(n + 1) /\ \A m \in DOMAIN reports : m > n + 1 => ~Load(m)
      BY <1>1, <2>4 DEF Load
    <3> QED
      BY <1>1, <2>2, <2>4, <3>1 DEF TabsInv, Idle
  <2>5. ASSUME Idle', \A n \in DOMAIN reports' : ~Load(n)', ~refused'
        PROVE  ShowsPage'
    <3>1. ~Load(1)
      BY <1>1, <1>3 DEF Load
    <3>2. \A n \in DOMAIN reports : ~Load(n)
      BY <1>1, <2>5, <3>1 DEF Load
    <3> QED
      BY <2>2, <2>5, <3>2 DEF TabsInv, Idle, ShowsPage
  <2> QED
    BY <2>4, <2>5 DEF TabsInv
<1> QED
  BY <1>2, <1>3 DEF TabsInv

LEMMA WebviewTabs ==
  ASSUME WindowTypes, TabsInv,
         \/ W!Commit \/ W!Finish \/ W!FinishOvertaken
         \/ \E u \in Urls : W!PageGoes(u) \/ W!OpenWindow(u)
  PROVE  TabsInv'
<1> USE DEF W!Reports
<1>1. CASE W!Commit \/ \E u \in Urls : W!PageGoes(u)
  BY <1>1 DEF W!Commit, W!PageGoes, TabsInv, Idle
<1>2. CASE W!Finish \/ W!FinishOvertaken
  <2>1. page \in Urls /\ page' = page /\ reports' = reports \o <<W!Says("finished", page)>>
    BY <1>2 DEF W!Finish, W!FinishOvertaken, WindowTypes, WebviewTypes
  <2> QED
    BY <2>1, SaidTabs
<1>3. ASSUME NEW u \in Urls, W!OpenWindow(u)
      PROVE  TabsInv'
  <2>1. reports' = reports \o <<W!Says("new-window", u)>>
    BY <1>3 DEF W!OpenWindow
  <2> QED
    BY <2>1, SaidTabs
<1> QED
  BY <1>1, <1>2, <1>3

LEMMA TransferTabs ==
  ASSUME WindowTypes, TabsInv,
         W!StartDownload \/ \E n \in 1..MaxDownloads : W!EndDownload(n)
  PROVE  TabsInv'
<1> USE DEF W!Reports
<1>1. reports \in Seq(W!Report)
  BY DEF WindowTypes, LogTypes
<1>2. CASE W!StartDownload
  <2> DEFINE d == W!Says("download", going)
             e == W!Says("finished", page)
  <2>1. going \in Urls /\ page \in Urls /\ page' = page
    BY <1>2 DEF W!StartDownload, WindowTypes, WebviewTypes
  <2>2. d \in W!Report /\ e \in W!Report /\ e.kind = "finished" /\ e.url = page
    BY <2>1, SaysOf
  <2>3. reports' = reports \o <<d, e>>
    BY <1>2 DEF W!StartDownload
  <2> HIDE DEF d, e
  <2>4. reports' = Append(Append(reports, d), e) /\ Append(reports, d) \in Seq(W!Report)
    BY <1>1, <2>2, <2>3, ConcatTwo, AppendOf
  <2>5. PICK end \in Nat \ {0} : DOMAIN reports' = 1..end /\ reports'[end] = e
    <3>1. LET q == Append(reports, d)
          IN  /\ DOMAIN reports' = 1..(Len(q) + 1) /\ reports'[Len(q) + 1] = e
              /\ Len(q) \in Nat
      BY <2>2, <2>4, AppendOf
    <3> QED
      BY <3>1
  <2> QED
    BY <2>1, <2>2, <2>5, LastReportTabs
<1>3. ASSUME NEW m \in 1..MaxDownloads, W!EndDownload(m)
      PROVE  TabsInv'
  <2>1. m \in DOMAIN transfers /\ transfers[m].url \in Urls
    <3>1. m \in DOMAIN transfers /\ transfers[m] \in [url : Urls, running : BOOLEAN]
      BY <1>3, SeqOf DEF W!EndDownload, WindowTypes, LogTypes
    <3> QED
      BY <3>1
  <2>2. PICK kind \in {"downloaded", "failed"} :
          reports' = reports \o <<W!Says(kind, transfers[m].url)>>
    BY <1>3 DEF W!EndDownload
  <2> DEFINE e == W!Says(kind, transfers[m].url)
  <2>3. e \in W!Report /\ e.kind = kind /\ reports' = Append(reports, e)
    BY <2>1, <2>2, SaysOf
  <2> HIDE DEF e
  <2>4. PICK end \in Nat \ {0} :
          /\ DOMAIN reports = 1..(end - 1) /\ DOMAIN reports' = 1..end
          /\ reports'[end] = e /\ \A n \in 1..(end - 1) : reports'[n] = reports[n]
    <3>1. /\ DOMAIN reports' = 1..(Len(reports) + 1) /\ reports'[Len(reports) + 1] = e
          /\ Len(reports) \in Nat /\ DOMAIN reports = 1..Len(reports)
          /\ \A n \in DOMAIN reports : reports'[n] = reports[n]
      BY <1>1, <2>3, AppendOf
    <3> QED
      BY <3>1
  <2>5. \A n \in DOMAIN reports' : Load(n)' <=> n \in DOMAIN reports /\ Load(n)
    BY <2>3, <2>4 DEF Load
  <2>6. UNCHANGED <<tabs, activeTab, addressBar, edited, refused, cef, page, phase, overtaken>>
    BY <1>3 DEF W!EndDownload, W!table, W!bar, W!webview
  <2>7. ASSUME Idle', NEW n \in DOMAIN reports', Load(n)',
               \A k \in DOMAIN reports' : k > n => ~Load(k)'
        PROVE  \/ reports'[n].kind = "new-window"
               \/ reports'[n].kind = "finished" /\ reports'[n].url = page'
    <3>1. n \in DOMAIN reports /\ Load(n) /\ \A k \in DOMAIN reports : k > n => ~Load(k)
      BY <2>4, <2>5, <2>7
    <3> QED
      BY <2>4, <2>6, <2>7, <3>1 DEF TabsInv, Idle
  <2>8. ASSUME Idle', \A n \in DOMAIN reports' : ~Load(n)', ~refused'
        PROVE  ShowsPage'
    <3>1. \A n \in DOMAIN reports : ~Load(n)
      BY <2>4, <2>5, <2>8
    <3> QED
      BY <2>6, <2>8, <3>1 DEF TabsInv, Idle, ShowsPage
  <2> QED
    BY <2>7, <2>8 DEF TabsInv
<1> QED
  BY <1>2, <1>3

LEMMA TabsInit == Init => TabsInv
  BY DEF Init, W!Init, TabsInv, Idle

LEMMA TabsStep ==
  ASSUME WindowTypes, TabsInv, Next
  PROVE  TabsInv'
<1>1. CASE UNCHANGED windowVars
  BY <1>1 DEF windowVars, TabsInv, Idle, ShowsPage, Load
<1>2. CASE W!WindowNext
  <2>1. W!TabStrip => W!NewTab \/ \E n \in DOMAIN tabs : W!SwitchTab(n) \/ W!CloseTab(n)
    BY DEF W!TabStrip, W!SwitchTab, W!CloseTab
  <2>2. W!ClearCompleted => TabsInv'
    BY DEF W!ClearCompleted, W!table, W!bar, W!webview, TabsInv, Idle, ShowsPage, Load
  <2> QED
    BY <1>2, <2>1, <2>2, ProcessReportTabs, UserTabs, CloseTabTabs, WebviewTabs, TransferTabs
       DEF W!WindowNext
<1> QED
  BY <1>1, <1>2 DEF Next

-----------------------------------------------------------------------------
(* The downloads panel and the downloads.                                  *)

(* The only download of its URL.                                           *)
Single(m) == \A k \in DOMAIN transfers : transfers[k].url = transfers[m].url => k = m

Begins(n, m) == reports[n].kind = "download" /\ reports[n].url = transfers[m].url
Ends(n, m) == reports[n].kind \in {"downloaded", "failed"} /\ reports[n].url = transfers[m].url
ItemOf(d, m) == downloads[d].url = transfers[m].url

(* Nothing is reported or listed that was not downloaded.                  *)
Known ==
  /\ \A d \in DOMAIN downloads : \E m \in DOMAIN transfers : ItemOf(d, m)
  /\ \A n \in DOMAIN reports :
       reports[n].kind \in {"download", "downloaded", "failed"} =>
         \E m \in DOMAIN transfers : reports[n].url = transfers[m].url

(* A download is reported once, then listed once, and its end is reported  *)
(* once and not before its start; its item is in progress until the end is *)
(* drained.                                                                *)
ReportedOnce(m) ==
  /\ \A n, k \in DOMAIN reports : Begins(n, m) /\ Begins(k, m) => n = k
  /\ \A n, k \in DOMAIN reports : Ends(n, m) /\ Ends(k, m) => n = k
  /\ \A d, e \in DOMAIN downloads : ItemOf(d, m) /\ ItemOf(e, m) => d = e
  /\ \A n, k \in DOMAIN reports : Begins(n, m) /\ Ends(k, m) => n < k

ListedTruly(m) ==
  /\ \A n \in DOMAIN reports : Begins(n, m) =>
       /\ \A d \in DOMAIN downloads : ~ItemOf(d, m)
       /\ transfers[m].running \/ \E k \in DOMAIN reports : Ends(k, m)
  /\ \A n \in DOMAIN reports : Ends(n, m) => ~transfers[m].running
  /\ \A d \in DOMAIN downloads : ItemOf(d, m) =>
       (downloads[d].status = "InProgress" <=>
          transfers[m].running \/ \E k \in DOMAIN reports : Ends(k, m))

TransfersInv ==
  /\ Known
  /\ \A m \in DOMAIN transfers : Single(m) => ReportedOnce(m) /\ ListedTruly(m)

(* Steps that report loads at most.                                        *)
LEMMA LoadsReported ==
  ASSUME TransfersInv, UNCHANGED <<downloads, transfers>>,
         \A n \in DOMAIN reports : n \in DOMAIN reports' /\ reports'[n] = reports[n],
         \A n \in DOMAIN reports' :
           n \in DOMAIN reports \/ reports'[n].kind \notin {"download", "downloaded", "failed"}
  PROVE  TransfersInv'
<1>1. Known'
  BY DEF TransfersInv, Known, ItemOf
<1>2. ASSUME NEW m \in DOMAIN transfers', Single(m)'
      PROVE  ReportedOnce(m)' /\ ListedTruly(m)'
  <2>1. ReportedOnce(m) /\ ListedTruly(m)
    BY <1>2 DEF TransfersInv, Single
  <2>2. /\ \A n \in DOMAIN reports' : Begins(n, m)' <=> n \in DOMAIN reports /\ Begins(n, m)
        /\ \A n \in DOMAIN reports' : Ends(n, m)' <=> n \in DOMAIN reports /\ Ends(n, m)
    BY DEF Begins, Ends
  <2>3. ReportedOnce(m)'
    BY <2>1, <2>2 DEF ReportedOnce, ItemOf
  <2>4. (\E k \in DOMAIN reports' : Ends(k, m)') <=> (\E k \in DOMAIN reports : Ends(k, m))
    BY <2>2
  <2>5. ListedTruly(m)'
    BY <2>1, <2>2, <2>4 DEF ListedTruly, ItemOf
  <2> QED
    BY <2>3, <2>5
<1> QED
  BY <1>1, <1>2 DEF TransfersInv

(* The first report is gone.                                               *)
LEMMA Shifted ==
  ASSUME WindowTypes, ~W!Drained, reports' = Tail(reports)
  PROVE  /\ 1 \in DOMAIN reports /\ Head(reports) = reports[1] /\ Head(reports) \in W!Report
         /\ \A n \in DOMAIN reports : n \in Nat \ {0}
         /\ \A n \in DOMAIN reports' : n + 1 \in DOMAIN reports /\ reports'[n] = reports[n + 1]
         /\ \A n \in DOMAIN reports :
              n = 1 \/ (n - 1 \in DOMAIN reports' /\ reports'[n - 1] = reports[n])
<1>1. reports \in Seq(W!Report) /\ reports # <<>>
  BY DEF WindowTypes, LogTypes, W!Drained
<1> QED
  BY <1>1, TailOf

(* What is left of the reports of a download then.                         *)
LEMMA ShiftedOnce ==
  ASSUME WindowTypes, ~W!Drained, reports' = Tail(reports), UNCHANGED transfers,
         NEW m \in DOMAIN transfers, ReportedOnce(m)
  PROVE  /\ \A n \in DOMAIN reports' : Begins(n, m)' => n + 1 \in DOMAIN reports /\ Begins(n + 1, m)
         /\ \A n \in DOMAIN reports' : Ends(n, m)' => n + 1 \in DOMAIN reports /\ Ends(n + 1, m)
         /\ (\E k \in DOMAIN reports' : Ends(k, m)') <=>
              (\E k \in DOMAIN reports : k # 1 /\ Ends(k, m))
         /\ \A n, k \in DOMAIN reports' : Begins(n, m)' /\ Begins(k, m)' => n = k
         /\ \A n, k \in DOMAIN reports' : Ends(n, m)' /\ Ends(k, m)' => n = k
         /\ \A n, k \in DOMAIN reports' : Begins(n, m)' /\ Ends(k, m)' => n < k
<1>1. /\ \A n \in DOMAIN reports : n \in Nat \ {0}
      /\ \A n \in DOMAIN reports' : n + 1 \in DOMAIN reports /\ reports'[n] = reports[n + 1]
      /\ \A n \in DOMAIN reports :
           n = 1 \/ (n - 1 \in DOMAIN reports' /\ reports'[n - 1] = reports[n])
  BY Shifted
<1>2. \A n \in DOMAIN reports' : n \in Nat /\ n + 1 # 1
  <2>1. reports' \in Seq(W!Report)
    BY TailOf DEF WindowTypes, LogTypes, W!Drained
  <2> QED
    BY <2>1, SeqOf
<1>3. /\ \A n \in DOMAIN reports' : Begins(n, m)' <=> Begins(n + 1, m)
      /\ \A n \in DOMAIN reports' : Ends(n, m)' <=> Ends(n + 1, m)
  BY <1>1 DEF Begins, Ends
<1>4. (\E k \in DOMAIN reports' : Ends(k, m)') <=>
        (\E k \in DOMAIN reports : k # 1 /\ Ends(k, m))
  <2>1. ASSUME NEW k \in DOMAIN reports', Ends(k, m)'
        PROVE  \E j \in DOMAIN reports : j # 1 /\ Ends(j, m)
    BY <1>1, <1>2, <1>3, <2>1
  <2>2. ASSUME NEW k \in DOMAIN reports, k # 1, Ends(k, m)
        PROVE  \E j \in DOMAIN reports' : Ends(j, m)'
    <3>1. k - 1 \in DOMAIN reports' /\ reports'[k - 1] = reports[k]
      BY <1>1, <2>2
    <3>2. PICK j \in DOMAIN reports' : reports'[j] = reports[k]
      BY <3>1
    <3> QED
      BY <2>2, <3>2 DEF Ends
  <2> QED
    BY <2>1, <2>2
<1>5. /\ \A n, k \in DOMAIN reports' : Begins(n, m)' /\ Begins(k, m)' => n = k
      /\ \A n, k \in DOMAIN reports' : Ends(n, m)' /\ Ends(k, m)' => n = k
      /\ \A n, k \in DOMAIN reports' : Begins(n, m)' /\ Ends(k, m)' => n < k
  <2> SUFFICES ASSUME NEW n \in DOMAIN reports', NEW k \in DOMAIN reports'
               PROVE  /\ Begins(n, m)' /\ Begins(k, m)' => n = k
                      /\ Ends(n, m)' /\ Ends(k, m)' => n = k
                      /\ Begins(n, m)' /\ Ends(k, m)' => n < k
    OBVIOUS
  <2>1. n + 1 \in DOMAIN reports /\ k + 1 \in DOMAIN reports /\ n \in Nat /\ k \in Nat
    BY <1>1, <1>2
  <2>2. /\ Begins(n + 1, m) /\ Begins(k + 1, m) => n + 1 = k + 1
        /\ Ends(n + 1, m) /\ Ends(k + 1, m) => n + 1 = k + 1
        /\ Begins(n + 1, m) /\ Ends(k + 1, m) => n + 1 < k + 1
    BY <2>1 DEF ReportedOnce
  <2> QED
    BY <1>3, <2>1, <2>2
<1> QED
  BY <1>1, <1>3, <1>4, <1>5

(* A load is booked: the panel stays.                                      *)
LEMMA LoadProcessed ==
  ASSUME WindowTypes, TransfersInv, ~W!Drained, reports' = Tail(reports),
         UNCHANGED <<downloads, transfers>>,
         reports[1].kind \notin {"download", "downloaded", "failed"}
  PROVE  TransfersInv'
<1>1. Known'
  BY Shifted DEF TransfersInv, Known, ItemOf
<1>2. ASSUME NEW m \in DOMAIN transfers', Single(m)'
      PROVE  ReportedOnce(m)' /\ ListedTruly(m)'
  <2>1. m \in DOMAIN transfers /\ ReportedOnce(m) /\ ListedTruly(m)
    BY <1>2 DEF TransfersInv, Single
  <2>2. ReportedOnce(m)'
    BY <2>1, ShiftedOnce DEF ReportedOnce, ItemOf
  <2>3. (\E k \in DOMAIN reports' : Ends(k, m)') <=> (\E k \in DOMAIN reports : Ends(k, m))
    BY <2>1, ShiftedOnce DEF Ends
  <2>4. ListedTruly(m)'
    BY <2>1, <2>3, ShiftedOnce DEF ListedTruly, ItemOf
  <2> QED
    BY <2>2, <2>4
<1> QED
  BY <1>1, <1>2 DEF TransfersInv

(* A start is booked: the download has its item now.                       *)
LEMMA BeginProcessed ==
  ASSUME WindowTypes, TransfersInv, ~W!Drained, reports' = Tail(reports),
         reports[1].kind = "download", W!BookDownload(reports[1].url)
  PROVE  TransfersInv'
<1> DEFINE u == reports[1].url
           item == [url |-> u, status |-> "InProgress"]
<1>1. UNCHANGED transfers /\ downloads' = Append(downloads, item)
  BY DEF W!BookDownload
<1>2. 1 \in DOMAIN reports /\ u \in Urls
  <2>1. 1 \in DOMAIN reports /\ reports[1] \in W!Report
    BY Shifted
  <2> QED
    BY <2>1 DEF W!Report
<1>3. item \in W!Item
  BY <1>2 DEF W!Item
<1>4. item.url = u /\ item.status = "InProgress"
  OBVIOUS
<1> HIDE DEF item
<1>5. PICK end \in Nat \ {0} :
        /\ DOMAIN downloads = 1..(end - 1) /\ DOMAIN downloads' = 1..end
        /\ downloads'[end] = item
        /\ \A d \in DOMAIN downloads : downloads'[d] = downloads[d]
  <2>1. /\ Len(downloads) \in Nat /\ DOMAIN downloads = 1..Len(downloads)
        /\ DOMAIN downloads' = 1..(Len(downloads) + 1)
        /\ downloads'[Len(downloads) + 1] = item
        /\ \A d \in DOMAIN downloads : downloads'[d] = downloads[d]
    BY <1>1, <1>3, AppendOf DEF WindowTypes, LogTypes
  <2> QED
    BY <2>1
<1>6. PICK v \in DOMAIN transfers : transfers[v].url = u
  BY <1>2 DEF TransfersInv, Known
<1>7. Known'
  <2>1. \A d \in DOMAIN downloads' : \E m \in DOMAIN transfers : downloads'[d].url = transfers[m].url
    <3>1. \A d \in DOMAIN downloads' : d \in DOMAIN downloads \/ d = end
      BY <1>5
    <3> QED
      BY <1>4, <1>5, <1>6, <3>1 DEF TransfersInv, Known, ItemOf
  <2> QED
    BY <1>1, <2>1, Shifted DEF TransfersInv, Known, ItemOf
<1>8. ASSUME NEW m \in DOMAIN transfers', Single(m)'
      PROVE  ReportedOnce(m)' /\ ListedTruly(m)'
  <2>1. m \in DOMAIN transfers /\ ReportedOnce(m) /\ ListedTruly(m)
    BY <1>1, <1>8 DEF TransfersInv, Single
  <2>2. (\E k \in DOMAIN reports' : Ends(k, m)') <=> (\E k \in DOMAIN reports : Ends(k, m))
    BY <1>1, <2>1, ShiftedOnce DEF Ends
  <2>3. \A d \in DOMAIN downloads' :
          \/ d \in DOMAIN downloads /\ downloads'[d] = downloads[d] /\ (ItemOf(d, m)' <=> ItemOf(d, m))
          \/ d = end /\ downloads'[d] = item /\ (ItemOf(d, m)' <=> transfers[m].url = u)
    BY <1>1, <1>4, <1>5 DEF ItemOf
  <2>4. CASE transfers[m].url = u
    <3>1. Begins(1, m)
      BY <2>4 DEF Begins
    <3>2. /\ \A d \in DOMAIN downloads : ~ItemOf(d, m)
          /\ transfers[m].running \/ \E k \in DOMAIN reports : Ends(k, m)
          /\ \A n \in DOMAIN reports : Begins(n, m) => n = 1
      BY <1>2, <2>1, <3>1 DEF ListedTruly, ReportedOnce
    <3>3. \A n \in DOMAIN reports' : ~Begins(n, m)'
      BY <1>1, <2>1, <3>2, ShiftedOnce, Shifted
    <3>4. ReportedOnce(m)'
      BY <1>1, <2>1, <2>3, <3>2, ShiftedOnce DEF ReportedOnce
    <3>5. ListedTruly(m)'
      BY <1>1, <1>4, <2>1, <2>2, <2>3, <3>2, <3>3, ShiftedOnce DEF ListedTruly
    <3> QED
      BY <3>4, <3>5
  <2>5. CASE transfers[m].url # u
    <3>1. ReportedOnce(m)'
      BY <1>1, <2>1, <2>3, <2>5, ShiftedOnce DEF ReportedOnce
    <3>2. ListedTruly(m)'
      BY <1>1, <2>1, <2>2, <2>3, <2>5, ShiftedOnce DEF ListedTruly
    <3> QED
      BY <3>1, <3>2
  <2> QED
    BY <2>4, <2>5
<1> QED
  BY <1>7, <1>8 DEF TransfersInv

(* An end is booked on the one item of the download.                       *)
LEMMA EndProcessed ==
  ASSUME WindowTypes, TransfersInv, ~W!Drained, reports' = Tail(reports),
         reports[1].kind \in {"downloaded", "failed"},
         NEW s \in {"Completed", "Failed"}, W!BookDownloaded(reports[1].url, s)
  PROVE  TransfersInv'
<1> DEFINE u == reports[1].url
<1>1. UNCHANGED transfers
  BY DEF W!BookDownloaded
<1>2. 1 \in DOMAIN reports /\ u \in Urls
  <2>1. 1 \in DOMAIN reports /\ reports[1] \in W!Report
    BY Shifted
  <2> QED
    BY <2>1 DEF W!Report
<1>3. /\ DOMAIN downloads' = DOMAIN downloads
      /\ \A d \in DOMAIN downloads :
           /\ downloads'[d].url = downloads[d].url
           /\ downloads[d].url # u => downloads'[d] = downloads[d]
           /\ downloads[d].url = u /\ (\A e \in 1..(d - 1) : downloads[e].url # u) =>
                downloads'[d].status = s
  BY <1>2, BookedOf
<1>4. Known'
  BY <1>1, <1>3, Shifted DEF TransfersInv, Known, ItemOf
<1>5. ASSUME NEW m \in DOMAIN transfers', Single(m)'
      PROVE  ReportedOnce(m)' /\ ListedTruly(m)'
  <2>1. m \in DOMAIN transfers /\ ReportedOnce(m) /\ ListedTruly(m)
    BY <1>1, <1>5 DEF TransfersInv, Single
  <2>2. \A d \in DOMAIN downloads : ItemOf(d, m)' <=> ItemOf(d, m)
    BY <1>1, <1>3 DEF ItemOf
  <2>3. ReportedOnce(m)'
    BY <1>1, <1>3, <2>1, <2>2, ShiftedOnce DEF ReportedOnce
  <2>4. CASE transfers[m].url = u
    <3>1. Ends(1, m)
      BY <2>4 DEF Ends
    <3>2. /\ ~transfers[m].running
          /\ \A k \in DOMAIN reports : ~(k # 1 /\ Ends(k, m))
          /\ \A n \in DOMAIN reports : Begins(n, m) => n < 1
      BY <1>2, <2>1, <3>1 DEF ListedTruly, ReportedOnce
    <3>3. /\ \A n \in DOMAIN reports' : ~Begins(n, m)'
          /\ ~\E k \in DOMAIN reports' : Ends(k, m)'
      BY <1>1, <2>1, <3>2, ShiftedOnce, Shifted
    <3>4. \A d \in DOMAIN downloads : ItemOf(d, m) => downloads'[d].status = s
      <4> SUFFICES ASSUME NEW d \in DOMAIN downloads, ItemOf(d, m)
                   PROVE  downloads'[d].status = s
        OBVIOUS
      <4>1. \A e \in DOMAIN downloads : downloads[e].url = u => e = d
        BY <2>1, <2>4 DEF ReportedOnce, ItemOf
      <4>2. d \in Nat /\ \A e \in 1..(d - 1) : e \in DOMAIN downloads /\ e # d
        BY SeqOf DEF WindowTypes, LogTypes
      <4> QED
        BY <1>3, <2>4, <4>1, <4>2 DEF ItemOf
    <3> QED
      BY <1>1, <1>3, <2>2, <2>3, <3>2, <3>3, <3>4 DEF ListedTruly
  <2>5. CASE transfers[m].url # u
    <3>1. (\E k \in DOMAIN reports' : Ends(k, m)') <=> (\E k \in DOMAIN reports : Ends(k, m))
      BY <1>1, <2>1, <2>5, ShiftedOnce DEF Ends
    <3>2. \A d \in DOMAIN downloads : ItemOf(d, m) => downloads'[d] = downloads[d]
      BY <1>3, <2>5 DEF ItemOf
    <3> QED
      BY <1>1, <1>3, <2>1, <2>2, <2>3, <3>1, <3>2, ShiftedOnce DEF ListedTruly
  <2> QED
    BY <2>4, <2>5
<1> QED
  BY <1>4, <1>5 DEF TransfersInv

LEMMA ProcessReportTransfers ==
  ASSUME WindowTypes, TransfersInv, W!ProcessReport
  PROVE  TransfersInv'
<1> DEFINE r == Head(reports)
<1>1. /\ ~W!Drained /\ reports' = Tail(reports) /\ r = reports[1] /\ r \in W!Report
  BY Shifted DEF W!ProcessReport
<1>2. r.kind \in {"started", "finished", "new-window", "download", "downloaded", "failed"}
  <2> HIDE DEF r
  <2> QED
    BY <1>1 DEF W!Report
<1>3. CASE r.kind \in {"started", "finished", "new-window"}
  <2>1. (\E b \in BOOLEAN : W!BookLoad(r.url, b)) \/ W!Navigate(r.url)
    BY <1>3 DEF W!ProcessReport
  <2>2. UNCHANGED <<downloads, transfers>>
    BY <2>1 DEF W!BookLoad, W!Navigate
  <2> QED
    BY <1>1, <1>3, <2>2, LoadProcessed
<1>4. CASE r.kind = "download"
  <2>1. W!BookDownload(r.url)
    BY <1>4 DEF W!ProcessReport
  <2> QED
    BY <1>1, <1>4, <2>1, BeginProcessed
<1>5. CASE r.kind \in {"downloaded", "failed"}
  <2>1. \E s \in {"Completed", "Failed"} : W!BookDownloaded(r.url, s)
    BY <1>5 DEF W!ProcessReport
  <2> QED
    BY <1>1, <1>5, <2>1, EndProcessed
<1> QED
  BY <1>2, <1>3, <1>4, <1>5

(* What has ended is cleared from the panel.                               *)
LEMMA ClearCompletedTransfers ==
  ASSUME WindowTypes, TransfersInv, W!ClearCompleted
  PROVE  TransfersInv'
<1>1. UNCHANGED <<reports, transfers>>
  BY DEF W!ClearCompleted
<1>2. PICK n \in 0..Len(downloads) :
        \E f \in [1..n -> DOMAIN downloads] :
          /\ downloads' = [k \in 1..n |-> downloads[f[k]]] /\ DOMAIN downloads' = 1..n
          /\ \A k, l \in 1..n : f[k] = f[l] => k = l
  BY ClearedOf
<1>3. PICK f \in [1..n -> DOMAIN downloads] :
        /\ downloads' = [k \in 1..n |-> downloads[f[k]]] /\ DOMAIN downloads' = 1..n
        /\ \A k, l \in 1..n : f[k] = f[l] => k = l
  BY <1>2
<1>4. \A d \in DOMAIN downloads' : f[d] \in DOMAIN downloads /\ downloads'[d] = downloads[f[d]]
  BY <1>3
<1>5. Known'
  BY <1>1, <1>4 DEF TransfersInv, Known, ItemOf
<1>6. ASSUME NEW m \in DOMAIN transfers', Single(m)'
      PROVE  ReportedOnce(m)' /\ ListedTruly(m)'
  <2>1. m \in DOMAIN transfers /\ ReportedOnce(m) /\ ListedTruly(m)
    BY <1>1, <1>6 DEF TransfersInv, Single
  <2>2. \A d \in DOMAIN downloads' : ItemOf(d, m)' <=> ItemOf(f[d], m)
    BY <1>1, <1>4 DEF ItemOf
  <2>3. /\ \A k \in DOMAIN reports : Begins(k, m)' <=> Begins(k, m)
        /\ \A k \in DOMAIN reports : Ends(k, m)' <=> Ends(k, m)
    BY <1>1 DEF Begins, Ends
  <2>4. \A d, e \in DOMAIN downloads' : ItemOf(d, m)' /\ ItemOf(e, m)' => d = e
    <3> SUFFICES ASSUME NEW d \in DOMAIN downloads', NEW e \in DOMAIN downloads',
                        ItemOf(d, m)', ItemOf(e, m)'
                 PROVE  d = e
      OBVIOUS
    <3>1. f[d] = f[e]
      BY <1>4, <2>1, <2>2 DEF ReportedOnce
    <3> QED
      BY <1>3, <3>1
  <2>5. ReportedOnce(m)'
    BY <1>1, <2>1, <2>3, <2>4 DEF ReportedOnce
  <2>6. ListedTruly(m)'
    BY <1>1, <1>4, <2>1, <2>2, <2>3 DEF ListedTruly
  <2> QED
    BY <2>5, <2>6
<1> QED
  BY <1>5, <1>6 DEF TransfersInv

(* A new download, and the URL nobody knew of if it is the only one.       *)
LEMMA StartDownloadTransfers ==
  ASSUME WindowTypes, TransfersInv, W!StartDownload
  PROVE  TransfersInv'
<1> DEFINE b == W!Says("download", going)
           e == W!Says("finished", page)
           new == [url |-> going, running |-> TRUE]
<1>1. going \in Urls /\ page \in Urls /\ UNCHANGED downloads
  BY DEF W!StartDownload, WindowTypes, WebviewTypes
<1>2. /\ b \in W!Report /\ b.kind = "download" /\ b.url = going
      /\ e \in W!Report /\ e.kind = "finished"
  BY <1>1, SaysOf
<1>3. /\ new \in [url : Urls, running : BOOLEAN] /\ new.url = going /\ new.running
      /\ reports' = reports \o <<b, e>> /\ transfers' = Append(transfers, new)
  BY <1>1 DEF W!StartDownload, W!Reports
<1> HIDE DEF b, e, new
<1>4. PICK p \in Nat \ {0} :
        /\ DOMAIN reports = 1..(p - 1) /\ DOMAIN reports' = 1..(p + 1)
        /\ \A n \in DOMAIN reports : reports'[n] = reports[n]
        /\ reports'[p] = b /\ reports'[p + 1] = e
  <2> DEFINE q == Append(reports, b)
  <2>1. reports \in Seq(W!Report) /\ q \in Seq(W!Report)
    BY <1>2, AppendOf DEF WindowTypes, LogTypes
  <2>2. /\ Len(reports) \in Nat /\ DOMAIN reports = 1..Len(reports)
        /\ DOMAIN q = 1..(Len(reports) + 1) /\ Len(q) = Len(reports) + 1
        /\ \A n \in DOMAIN reports : q[n] = reports[n]
        /\ q[Len(reports) + 1] = b
    BY <1>2, <2>1, AppendOf, AppendProperties
  <2>3. reports' = Append(q, e)
    BY <1>2, <1>3, <2>1, ConcatTwo
  <2> HIDE DEF q
  <2>4. /\ DOMAIN reports' = 1..(Len(q) + 1) /\ reports'[Len(q) + 1] = e
        /\ \A n \in DOMAIN q : reports'[n] = q[n]
    BY <1>2, <2>1, <2>3, AppendOf
  <2> QED
    BY <2>2, <2>4
<1>5. PICK end \in Nat \ {0} :
        /\ DOMAIN transfers = 1..(end - 1) /\ DOMAIN transfers' = 1..end
        /\ \A m \in DOMAIN transfers : transfers'[m] = transfers[m]
        /\ transfers'[end] = new
  <2>1. /\ Len(transfers) \in Nat /\ DOMAIN transfers = 1..Len(transfers)
        /\ DOMAIN transfers' = 1..(Len(transfers) + 1)
        /\ \A m \in DOMAIN transfers : transfers'[m] = transfers[m]
        /\ transfers'[Len(transfers) + 1] = new
    BY <1>3, AppendOf DEF WindowTypes, LogTypes
  <2> QED
    BY <2>1
<1>6. \A n \in DOMAIN reports' :
        n \in DOMAIN reports \/ n = p \/ (n = p + 1 /\ reports'[n].kind = "finished")
  BY <1>2, <1>4
<1>7. \A m \in DOMAIN transfers' : m \in DOMAIN transfers \/ m = end
  BY <1>5
<1>8. Known'
  <2>1. \A d \in DOMAIN downloads' : \E m \in DOMAIN transfers' : ItemOf(d, m)'
    BY <1>1, <1>5 DEF TransfersInv, Known, ItemOf
  <2>2. \A n \in DOMAIN reports' :
          reports'[n].kind \in {"download", "downloaded", "failed"} =>
            \E m \in DOMAIN transfers' : reports'[n].url = transfers'[m].url
    <3> SUFFICES ASSUME NEW n \in DOMAIN reports',
                        reports'[n].kind \in {"download", "downloaded", "failed"}
                 PROVE  \E m \in DOMAIN transfers' : reports'[n].url = transfers'[m].url
      OBVIOUS
    <3>1. CASE n \in DOMAIN reports
      BY <1>4, <1>5, <3>1 DEF TransfersInv, Known
    <3>2. CASE n = p
      BY <1>2, <1>3, <1>4, <1>5, <3>2
    <3> QED
      BY <1>6, <3>1, <3>2
  <2> QED
    BY <2>1, <2>2 DEF Known
<1>9. ASSUME NEW m \in DOMAIN transfers, Single(m)'
      PROVE  ReportedOnce(m)' /\ ListedTruly(m)'
  <2>1. ReportedOnce(m) /\ ListedTruly(m)
    BY <1>5, <1>9 DEF TransfersInv, Single
  <2>2. transfers'[m] = transfers[m] /\ transfers[m].url # going
    <3>1. /\ transfers'[m] = transfers[m] /\ m \in DOMAIN transfers'
          /\ end \in DOMAIN transfers' /\ transfers'[end].url = going /\ end # m
      BY <1>3, <1>5
    <3>2. transfers'[end].url # transfers'[m].url
      BY <1>9, <3>1 DEF Single
    <3> QED
      BY <3>1, <3>2
  <2>3. /\ \A n \in DOMAIN reports' : Begins(n, m)' <=> n \in DOMAIN reports /\ Begins(n, m)
        /\ \A n \in DOMAIN reports' : Ends(n, m)' <=> n \in DOMAIN reports /\ Ends(n, m)
    BY <1>2, <1>4, <1>6, <2>2 DEF Begins, Ends
  <2>4. (\E k \in DOMAIN reports' : Ends(k, m)') <=> (\E k \in DOMAIN reports : Ends(k, m))
    BY <1>4, <2>3
  <2>5. \A d \in DOMAIN downloads : ItemOf(d, m)' <=> ItemOf(d, m)
    BY <1>1, <2>2 DEF ItemOf
  <2> QED
    BY <1>1, <2>1, <2>2, <2>3, <2>4, <2>5 DEF ReportedOnce, ListedTruly
<1>10. ASSUME Single(end)'
       PROVE  ReportedOnce(end)' /\ ListedTruly(end)'
  <2>1. \A m \in DOMAIN transfers : transfers[m].url # going
    BY <1>3, <1>5, <1>10 DEF Single
  <2>2. \A d \in DOMAIN downloads' : ~ItemOf(d, end)'
    BY <1>1, <1>3, <1>5, <2>1 DEF TransfersInv, Known, ItemOf
  <2>3. ASSUME NEW n \in DOMAIN reports'
        PROVE  ~Ends(n, end)' /\ (Begins(n, end)' => n = p)
    <3>1. transfers'[end].url = going
      BY <1>3, <1>5
    <3>2. CASE n \in DOMAIN reports
      <4>1. reports'[n] = reports[n]
        BY <1>4, <3>2
      <4>2. reports[n].kind \in {"download", "downloaded", "failed"} => reports[n].url # going
        BY <2>1, <3>2 DEF TransfersInv, Known
      <4> QED
        BY <3>1, <4>1, <4>2 DEF Begins, Ends
    <3>3. CASE n = p
      <4>1. reports'[n].kind = "download"
        BY <1>2, <1>4, <3>3
      <4> QED
        BY <3>3, <4>1 DEF Ends
    <3>4. CASE n = p + 1 /\ reports'[n].kind = "finished"
      BY <3>4 DEF Begins, Ends
    <3> QED
      BY <1>6, <3>2, <3>3, <3>4
  <2>4. transfers'[end].running
    BY <1>3, <1>5
  <2> QED
    BY <2>2, <2>3, <2>4 DEF ReportedOnce, ListedTruly
<1> QED
  BY <1>7, <1>8, <1>9, <1>10 DEF TransfersInv

(* A download ends, well or not.                                           *)
LEMMA EndDownloadTransfers ==
  ASSUME WindowTypes, TransfersInv, NEW v \in 1..MaxDownloads, W!EndDownload(v)
  PROVE  TransfersInv'
<1>1. /\ v \in DOMAIN transfers /\ transfers[v].running /\ transfers[v].url \in Urls
      /\ \A m \in DOMAIN transfers : transfers[m] \in [url : Urls, running : BOOLEAN]
      /\ UNCHANGED downloads
  <2>1. /\ v \in DOMAIN transfers /\ transfers[v].running /\ UNCHANGED downloads
        /\ \A m \in DOMAIN transfers : transfers[m] \in [url : Urls, running : BOOLEAN]
    BY SeqOf DEF W!EndDownload, WindowTypes, LogTypes
  <2> QED
    BY <2>1
<1>2. /\ DOMAIN transfers' = DOMAIN transfers
      /\ \A m \in DOMAIN transfers : transfers'[m].url = transfers[m].url
      /\ \A m \in DOMAIN transfers : m # v => transfers'[m] = transfers[m]
      /\ ~transfers'[v].running
  BY <1>1 DEF W!EndDownload
<1>3. PICK kind \in {"downloaded", "failed"} :
        reports' = reports \o <<W!Says(kind, transfers[v].url)>>
  BY DEF W!EndDownload, W!Reports
<1> DEFINE e == W!Says(kind, transfers[v].url)
<1>4. e \in W!Report /\ e.kind = kind /\ e.url = transfers[v].url /\ reports' = Append(reports, e)
  BY <1>1, <1>3, SaysOf
<1> HIDE DEF e
<1>5. PICK end \in Nat \ {0} :
        /\ DOMAIN reports = 1..(end - 1) /\ DOMAIN reports' = 1..end
        /\ reports'[end] = e /\ \A n \in DOMAIN reports : reports'[n] = reports[n]
  <2>1. /\ DOMAIN reports' = 1..(Len(reports) + 1) /\ reports'[Len(reports) + 1] = e
        /\ Len(reports) \in Nat /\ DOMAIN reports = 1..Len(reports)
        /\ \A n \in DOMAIN reports : reports'[n] = reports[n]
    BY <1>4, AppendOf DEF WindowTypes, LogTypes
  <2> QED
    BY <2>1
<1>6. \A n \in DOMAIN reports' : n \in DOMAIN reports \/ n = end
  BY <1>5
<1>7. Known'
  <2>1. \A d \in DOMAIN downloads' : \E m \in DOMAIN transfers' : ItemOf(d, m)'
    BY <1>1, <1>2 DEF TransfersInv, Known, ItemOf
  <2>2. \A n \in DOMAIN reports' :
          reports'[n].kind \in {"download", "downloaded", "failed"} =>
            \E m \in DOMAIN transfers' : reports'[n].url = transfers'[m].url
    BY <1>1, <1>2, <1>4, <1>5, <1>6 DEF TransfersInv, Known
  <2> QED
    BY <2>1, <2>2 DEF Known
<1>8. ASSUME NEW m \in DOMAIN transfers', Single(m)'
      PROVE  ReportedOnce(m)' /\ ListedTruly(m)'
  <2>1. m \in DOMAIN transfers /\ ReportedOnce(m) /\ ListedTruly(m)
    BY <1>2, <1>8 DEF TransfersInv, Single
  <2>2. /\ transfers'[m].url = transfers[m].url
        /\ transfers[v].url = transfers[m].url => v = m
    BY <1>1, <1>2, <1>8, <2>1 DEF Single
  <2>3. /\ \A n \in DOMAIN reports' : Begins(n, m)' <=> n \in DOMAIN reports /\ Begins(n, m)
        /\ \A n \in DOMAIN reports' :
             Ends(n, m)' <=> (n \in DOMAIN reports /\ Ends(n, m)) \/ (n = end /\ m = v)
    BY <1>4, <1>5, <1>6, <2>2 DEF Begins, Ends
  <2>4. \A d \in DOMAIN downloads : ItemOf(d, m)' <=> ItemOf(d, m)
    BY <1>1, <2>2 DEF ItemOf
  <2>5. CASE m = v
    <3>1. \A n \in DOMAIN reports : ~Ends(n, m)
      BY <1>1, <2>1, <2>5 DEF ListedTruly
    <3>2. /\ \A n \in DOMAIN reports' : Ends(n, m)' <=> n = end
          /\ \A n \in DOMAIN reports : n < end
      BY <1>5, <2>3, <2>5, <3>1
    <3>3. ReportedOnce(m)'
      BY <1>1, <2>1, <2>3, <2>4, <3>2 DEF ReportedOnce
    <3>4. \E k \in DOMAIN reports' : Ends(k, m)'
      <4>1. end \in DOMAIN reports'
        BY <1>5
      <4> QED
        BY <3>2, <4>1
    <3>5. ListedTruly(m)'
      BY <1>1, <1>2, <2>1, <2>3, <2>4, <2>5, <3>4 DEF ListedTruly
    <3> QED
      BY <3>3, <3>5
  <2>6. CASE m # v
    <3>1. transfers'[m] = transfers[m]
      BY <1>2, <2>1, <2>6
    <3>2. (\E k \in DOMAIN reports' : Ends(k, m)') <=> (\E k \in DOMAIN reports : Ends(k, m))
      BY <1>5, <2>3, <2>6
    <3>3. ReportedOnce(m)'
      BY <1>1, <2>1, <2>3, <2>4, <2>6 DEF ReportedOnce
    <3>4. ListedTruly(m)'
      BY <1>1, <2>1, <2>3, <2>4, <2>6, <3>1, <3>2 DEF ListedTruly
    <3> QED
      BY <3>3, <3>4
  <2> QED
    BY <2>5, <2>6
<1> QED
  BY <1>7, <1>8 DEF TransfersInv

LEMMA TransfersInit == Init => TransfersInv
  BY DEF Init, W!Init, TransfersInv, Known

LEMMA TransfersStep ==
  ASSUME WindowTypes, TransfersInv, Next
  PROVE  TransfersInv'
<1>1. CASE UNCHANGED <<reports, downloads, transfers>>
  BY <1>1, LoadsReported
<1>2. CASE W!WindowNext
  <2>1. ASSUME NEW u \in Urls, NEW k \in {"started", "finished", "new-window"},
               reports' = reports \o <<W!Says(k, u)>>, UNCHANGED <<downloads, transfers>>
        PROVE  TransfersInv'
    <3> DEFINE e == W!Says(k, u)
    <3>1. e \in W!Report /\ e.kind = k /\ reports' = Append(reports, e)
      BY <2>1, SaysOf
    <3> HIDE DEF e
    <3>2. /\ \A n \in DOMAIN reports : n \in DOMAIN reports' /\ reports'[n] = reports[n]
          /\ \A n \in DOMAIN reports' : n \in DOMAIN reports \/ reports'[n] = e
      <4>1. /\ DOMAIN reports' = 1..(Len(reports) + 1) /\ reports'[Len(reports) + 1] = e
            /\ Len(reports) \in Nat /\ DOMAIN reports = 1..Len(reports)
            /\ \A n \in DOMAIN reports : reports'[n] = reports[n]
        BY <3>1, AppendOf DEF WindowTypes, LogTypes
      <4> QED
        BY <4>1
    <3> QED
      BY <2>1, <3>1, <3>2, LoadsReported
  <2>2. CASE W!Commit \/ W!Finish \/ W!FinishOvertaken \/ \E u \in Urls : W!OpenWindow(u)
    <3>1. page \in Urls /\ (phase = "pending" => going \in Urls)
      BY DEF WindowTypes, WebviewTypes
    <3> QED
      BY <2>1, <2>2, <3>1 DEF W!Commit, W!Finish, W!FinishOvertaken, W!OpenWindow, W!Reports
  <2>3. CASE W!InitBrowser \/ W!EnterAddress
             \/ \E u \in Urls : W!UserNavigates(u) \/ W!TypeAddress(u) \/ W!CommandNavigate(u) \/ W!PageGoes(u)
    BY <1>1, <2>3 DEF W!InitBrowser, W!EnterAddress, W!Navigate, W!UserNavigates, W!TypeAddress,
                      W!CommandNavigate, W!PageGoes
  <2>4. CASE W!TabStrip
    BY <1>1, <2>4 DEF W!TabStrip, W!NewTab, W!SwitchTab, W!CloseTab
  <2> QED
    BY <1>2, <2>2, <2>3, <2>4, ProcessReportTransfers, ClearCompletedTransfers,
       StartDownloadTransfers, EndDownloadTransfers
       DEF W!WindowNext
<1>3. CASE UNCHANGED windowVars
  BY <1>1, <1>3 DEF windowVars
<1> QED
  BY <1>2, <1>3 DEF Next

LEMMA OnceIsSingle ==
  ASSUME WindowTypes, NEW m \in DOMAIN transfers, W!Once(transfers[m].url)
  PROVE  Single(m)
<1> DEFINE same == {k \in DOMAIN transfers : transfers[k].url = transfers[m].url}
<1>1. IsFiniteSet(same)
  <2>1. Len(transfers) \in Nat /\ DOMAIN transfers = 1..Len(transfers)
    BY SeqOf DEF WindowTypes, LogTypes
  <2>2. IsFiniteSet(DOMAIN transfers)
    BY <2>1, FS_Interval
  <2> QED
    BY <2>2, FS_Subset
<1>2. Cardinality(same) = 1
  BY DEF W!Once, W!Cardinality, Cardinality
<1> HIDE DEF same
<1>3. PICK x : same = {x}
  BY <1>1, <1>2, FS_Singleton
<1>4. m \in same /\ \A k \in DOMAIN transfers : transfers[k].url = transfers[m].url => k \in same
  BY DEF same
<1> QED
  BY <1>3, <1>4 DEF Single

LEMMA WindowTold ==
  ASSUME WindowTypes, TabsInv, TransfersInv
  PROVE  W!WindowTellsTheTruth
<1> SUFFICES ASSUME W!Settled
             PROVE  /\ ~refused => /\ tabs[W!Active].url = page /\ ~tabs[W!Active].spinning
                                   /\ ~edited => addressBar = page
                    /\ \A n \in DOMAIN downloads, m \in DOMAIN transfers :
                         W!Once(downloads[n].url) /\ downloads[n].url = transfers[m].url =>
                           (downloads[n].status = "InProgress" <=> transfers[m].running)
  BY DEF W!WindowTellsTheTruth
<1>1. DOMAIN reports = {} /\ Idle
  BY DEF W!Settled, W!Drained, Idle
<1>2. ~refused => ShowsPage
  BY <1>1 DEF TabsInv
<1>3. W!Active \in DOMAIN tabs /\ tabs[W!Active].id = activeTab
  BY DEF W!Active, WindowTypes, TableTypes
<1>4. ASSUME NEW n \in DOMAIN downloads, NEW m \in DOMAIN transfers,
             W!Once(downloads[n].url), downloads[n].url = transfers[m].url
      PROVE  downloads[n].status = "InProgress" <=> transfers[m].running
  <2>1. Single(m)
    BY <1>4, OnceIsSingle
  <2> QED
    BY <1>1, <1>4, <2>1 DEF TransfersInv, ListedTruly, ItemOf
<1> QED
  BY <1>2, <1>3, <1>4 DEF ShowsPage

-----------------------------------------------------------------------------
(* The board of the swarms.                                                *)

Event == [kind : {"plan", "update", "done", "error"}, swarm : Swarms,
          role : Roles, status : K!Statuses]
Announces(n, s) == updates[n].kind = "plan" /\ updates[n].swarm = s
Tells(n, s, w) == updates[n].kind = "update" /\ updates[n].role = plan[s][w]

(* The board has the plan of its swarm.  A plan is announced once, before  *)
(* it is on the board, and only roles of a plan, or the coordinator, are   *)
(* reported on.                                                            *)
HasPlan ==
  /\ shown = NoSwarm => cards = <<>>
  /\ shown # NoSwarm =>
       /\ plan[shown] # <<>> /\ DOMAIN cards = DOMAIN plan[shown]
       /\ \A n \in DOMAIN cards : cards[n].role = plan[shown][n]
AnnouncedOnce(n) ==
  updates[n].kind = "plan" =>
    /\ plan[updates[n].swarm] # <<>> /\ shown # updates[n].swarm
    /\ \A m \in DOMAIN updates : Announces(m, updates[n].swarm) => m = n
RoleKnown(n) ==
  updates[n].kind = "update" /\ updates[n].role # "Coordinator" =>
    \E v \in DOMAIN plan[updates[n].swarm] : plan[updates[n].swarm][v] = updates[n].role
PlanInv ==
  /\ \A s \in Swarms : DOMAIN reported[s] = DOMAIN plan[s]
  /\ HasPlan
  /\ \A n \in DOMAIN updates : AnnouncedOnce(n) /\ RoleKnown(n)

(* The last event of a worker has what it reported last, its events come   *)
(* after the plan, and when there are none the card has it.                *)
Followed(s, w) ==
  /\ \A n \in DOMAIN updates :
       Tells(n, s, w) /\ (\A m \in DOMAIN updates : Tells(m, s, w) => m <= n) =>
         updates[n].status = reported[s][w]
  /\ \A p \in DOMAIN updates : Announces(p, s) =>
       /\ \A n \in DOMAIN updates : Tells(n, s, w) => p < n
       /\ (\A n \in DOMAIN updates : ~Tells(n, s, w)) => reported[s][w] = "Pending"
  /\ shown = s /\ (\A n \in DOMAIN updates : ~Tells(n, s, w)) =>
       cards[w].status = reported[s][w]

CardInv ==
  \A s \in Swarms : \A w \in DOMAIN plan[s] : K!Unambiguous(plan[s][w]) => Followed(s, w)

(* The swarm on the board once the first n events are folded.              *)
BoardAt(n, s) ==
  \/ \E p \in 1..n : Announces(p, s) /\ \A m \in (p + 1)..n : updates[m].kind # "plan"
  \/ shown = s /\ \A m \in 1..n : updates[m].kind # "plan"

(* As long as no two swarms were live at once, an answer, and a live       *)
(* swarm, finds its own plan on the board.                                 *)
AnswerInv ==
  ~overlap =>
    /\ answer \in {NoSwarm, shown}
    /\ \A n \in DOMAIN updates : updates[n].kind = "done" => BoardAt(n, updates[n].swarm)
    /\ \A s \in Swarms : K!Live(s) => BoardAt(Len(updates), s)

CardsInv == K!SwarmCardsTypeOK /\ PlanInv /\ CardInv /\ AnswerInv

LEMMA PlanOf ==
  ASSUME K!SwarmCardsTypeOK, NEW s \in Swarms
  PROVE  /\ plan[s] \in Seq(Roles) /\ reported[s] \in Seq(K!Statuses)
         /\ plan[s] # <<>> <=> DOMAIN plan[s] # {}
         /\ DOMAIN plan[s] \subseteq Nat \ {0}
         /\ \A w \in DOMAIN plan[s] : plan[s][w] \in Roles /\ \A k \in 1..w : k \in DOMAIN plan[s]
<1>1. plan[s] \in Seq(Roles) /\ reported[s] \in Seq(K!Statuses)
  BY DEF K!SwarmCardsTypeOK
<1>2. /\ Len(plan[s]) \in Nat /\ DOMAIN plan[s] = 1..Len(plan[s])
      /\ \A w \in DOMAIN plan[s] : plan[s][w] \in Roles
  BY <1>1, SeqOf
<1>3. plan[s] # <<>> <=> Len(plan[s]) # 0
  BY <1>1, EmptySeq
<1> QED
  BY <1>1, <1>2, <1>3

LEMMA UpdatesOf ==
  ASSUME K!SwarmCardsTypeOK
  PROVE  /\ updates \in Seq(Event) /\ Len(updates) \in Nat
         /\ DOMAIN updates = 1..Len(updates)
         /\ \A n \in DOMAIN updates : updates[n] \in Event
<1>1. updates \in Seq(Event)
  BY DEF K!SwarmCardsTypeOK, Event
<1> QED
  BY <1>1, SeqOf

LEMMA EmitOf ==
  ASSUME K!SwarmCardsTypeOK, NEW e \in Event, K!Emit(e)
  PROVE  /\ updates' \in Seq(Event)
         /\ Len(updates) \in Nat /\ DOMAIN updates = 1..Len(updates)
         /\ Len(updates') = Len(updates) + 1 /\ DOMAIN updates' = 1..(Len(updates) + 1)
         /\ updates'[Len(updates) + 1] = e
         /\ \A n \in DOMAIN updates : updates'[n] = updates[n]
<1>1. updates' = Append(updates, e) /\ updates \in Seq(Event)
  BY UpdatesOf DEF K!Emit
<1>2. Len(Append(updates, e)) = Len(updates) + 1
  BY <1>1, AppendProperties
<1> QED
  BY <1>1, <1>2, AppendOf

LEMMA FoldOf ==
  ASSUME K!SwarmCardsTypeOK, K!Fold
  PROVE  /\ updates' \in Seq(Event) /\ Head(updates) = updates[1] /\ updates[1] \in Event
         /\ Len(updates) \in Nat \ {0} /\ DOMAIN updates = 1..Len(updates)
         /\ Len(updates') = Len(updates) - 1 /\ DOMAIN updates' = 1..(Len(updates) - 1)
         /\ \A n \in DOMAIN updates' : updates'[n] = updates[n + 1]
<1>1. updates # <<>> /\ updates' = Tail(updates) /\ updates \in Seq(Event)
  BY UpdatesOf DEF K!Fold
<1>2. Len(Tail(updates)) = Len(updates) - 1
  BY <1>1, HeadTailProperties
<1> QED
  BY <1>1, <1>2, TailOf

(* What a step adds to the channel, and to what it says of a plan.         *)
LEMMA EventOf ==
  ASSUME NEW kind \in {"plan", "update", "done", "error"}, NEW s \in Swarms,
         NEW role \in Roles, NEW status \in K!Statuses
  PROVE  [kind |-> kind, swarm |-> s, role |-> role, status |-> status] \in Event
  BY DEF Event

LEMMA CoordinatorIsRole == "Coordinator" \in Roles
  BY DesktopAssumption DEF K!SwarmCardsAssumption

LEMMA CardTypesInit == Init => K!SwarmCardsTypeOK
<1>1. <<>> \in Seq(Roles) /\ <<>> \in Seq(K!Statuses) /\ <<>> \in Seq(Event)
      /\ <<>> \in Seq([role : Roles, status : K!Statuses])
  BY EmptySeq
<1> QED
  BY <1>1 DEF Init, K!Init, K!SwarmCardsTypeOK, Event

LEMMA FoldTypes ==
  ASSUME K!SwarmCardsTypeOK, K!Fold
  PROVE  K!SwarmCardsTypeOK'
<1> DEFINE e == Head(updates)
           Card == [role : Roles, status : K!Statuses]
<1>1. updates' \in Seq(Event) /\ e \in Event
  BY FoldOf
<1>2. cards \in Seq(Card)
  BY DEF K!SwarmCardsTypeOK
<1>3. e.kind \in {"plan", "update", "done", "error"} /\ e.swarm \in Swarms /\ e.role \in Roles
      /\ e.status \in K!Statuses
  BY <1>1 DEF Event
<1>4. shown' \in Swarms \cup {NoSwarm} /\ answer' \in Swarms \cup {NoSwarm}
  BY <1>3 DEF K!Fold, K!SwarmCardsTypeOK
<1>5. cards' \in Seq(Card)
  <2>1. CASE e.kind = "plan"
    <3> DEFINE roles == plan[e.swarm]
    <3>1. roles \in Seq(Roles) /\ \A n \in DOMAIN roles : roles[n] \in Roles
      BY <1>3, PlanOf
    <3>2. cards' = [n \in DOMAIN roles |-> [role |-> roles[n], status |-> "Pending"]]
      BY <2>1 DEF K!Fold
    <3>3. cards' \in [DOMAIN roles -> Card]
      BY <3>1, <3>2 DEF K!Statuses
    <3> HIDE DEF roles
    <3> QED
      BY <3>1, <3>3, MappedOf
  <2>2. CASE e.kind = "update"
    <3>1. cards' = [n \in DOMAIN cards |-> IF n \in K!CardFor(e.role)
                                          THEN [cards[n] EXCEPT !.status = e.status] ELSE cards[n]]
      BY <2>2 DEF K!Fold
    <3>2. ASSUME NEW n \in DOMAIN cards
          PROVE  cards[n] \in Card /\ [cards[n] EXCEPT !.status = e.status] \in Card
      <4>1. cards[n] \in Card
        BY <1>2, SeqOf
      <4>2. \A c \in Card, x \in K!Statuses : [c EXCEPT !.status = x] \in Card
        OBVIOUS
      <4> QED
        BY <1>3, <4>1, <4>2
    <3>3. cards' \in [DOMAIN cards -> Card]
      BY <3>1, <3>2
    <3> QED
      BY <1>2, <3>3, MappedOf
  <2>3. CASE e.kind \in {"done", "error"}
    <3>1. cards' = cards
      BY <2>3 DEF K!Fold
    <3> QED
      BY <1>2, <3>1
  <2> QED
    BY <1>3, <2>1, <2>2, <2>3
<1> HIDE DEF e
<1> QED
  BY <1>1, <1>4, <1>5 DEF K!Fold, K!SwarmCardsTypeOK, Event

LEMMA CardTypesStep ==
  ASSUME K!SwarmCardsTypeOK, Next
  PROVE  K!SwarmCardsTypeOK'
<1>1. CASE UNCHANGED cardVars
  BY <1>1 DEF cardVars, K!SwarmCardsTypeOK
<1>2. ASSUME NEW s \in Swarms, K!PlanReady(s)
      PROVE  K!SwarmCardsTypeOK'
  <2>1. updates' \in Seq(Event)
    BY <1>2, EventOf, EmitOf, CoordinatorIsRole DEF K!PlanReady, K!Statuses
  <2>2. PICK roles \in Plans :
          /\ plan' = [plan EXCEPT ![s] = roles]
          /\ reported' = [reported EXCEPT ![s] = [w \in DOMAIN roles |-> "Pending"]]
    BY <1>2 DEF K!PlanReady
  <2>3. roles \in Seq(Roles)
    BY DesktopAssumption DEF K!SwarmCardsAssumption
  <2>4. [w \in DOMAIN roles |-> "Pending"] \in Seq(K!Statuses)
    <3>1. [w \in DOMAIN roles |-> "Pending"] \in [DOMAIN roles -> K!Statuses]
      BY DEF K!Statuses
    <3> QED
      BY <2>3, <3>1, MappedOf
  <2> HIDE DEF Event
  <2> QED
    BY <1>2, <2>1, <2>2, <2>3, <2>4 DEF K!PlanReady, K!SwarmCardsTypeOK, Event
<1>3. ASSUME NEW s \in Swarms, NEW w \in K!Workers(s), NEW status \in K!Statuses,
             K!Report(s, w, status)
      PROVE  K!SwarmCardsTypeOK'
  <2>1. updates' \in Seq(Event)
    BY <1>3, EventOf, EmitOf, PlanOf DEF K!Report, K!Workers
  <2>2. reported' = [reported EXCEPT ![s] = [reported[s] EXCEPT ![w] = status]]
    BY <1>3 DEF K!Report
  <2>3. [reported[s] EXCEPT ![w] = status] \in Seq(K!Statuses)
    <3>1. reported[s] \in Seq(K!Statuses) /\ \A n \in DOMAIN reported[s] : reported[s][n] \in K!Statuses
      BY PlanOf, SeqOf
    <3>2. [reported[s] EXCEPT ![w] = status] \in [DOMAIN reported[s] -> K!Statuses]
      BY <3>1, SeqOf
    <3> QED
      BY <3>1, <3>2, MappedOf
  <2> QED
    BY <1>3, <2>1, <2>2, <2>3 DEF K!Report, K!SwarmCardsTypeOK, Event
<1>4. ASSUME NEW s \in Swarms, K!CoordinatorSays(s)
      PROVE  K!SwarmCardsTypeOK'
  <2>1. updates' \in Seq(Event)
    BY <1>4, EventOf, EmitOf, CoordinatorIsRole DEF K!CoordinatorSays, K!Statuses
  <2> QED
    BY <1>4, <2>1 DEF K!CoordinatorSays, K!SwarmCardsTypeOK, Event
<1>5. ASSUME NEW s \in Swarms, K!SwarmEnds(s)
      PROVE  K!SwarmCardsTypeOK'
  <2>1. updates' \in Seq(Event)
    BY <1>5, EventOf, EmitOf, CoordinatorIsRole DEF K!SwarmEnds, K!Statuses
  <2> QED
    BY <1>5, <2>1 DEF K!SwarmEnds, K!SwarmCardsTypeOK, Event
<1> QED
  BY <1>1, <1>2, <1>3, <1>4, <1>5, FoldTypes DEF Next, K!SwarmCardsNext

(* An event that is appended leaves what is on the board after the others, *)
(* and after itself unless it is a plan.                                   *)
LEMMA BoardAppended ==
  ASSUME K!SwarmCardsTypeOK, NEW e \in Event, K!Emit(e), shown' = shown,
         NEW s \in Swarms
  PROVE  /\ \A n \in DOMAIN updates : BoardAt(n, s) => BoardAt(n, s)'
         /\ e.kind # "plan" /\ BoardAt(Len(updates), s) => BoardAt(Len(updates), s)'
<1>1. /\ Len(updates) \in Nat /\ DOMAIN updates = 1..Len(updates)
      /\ Len(updates') = Len(updates) + 1 /\ updates'[Len(updates) + 1] = e
      /\ \A n \in DOMAIN updates : updates'[n] = updates[n]
  BY EmitOf
<1>2. ASSUME NEW n \in 0..Len(updates), BoardAt(n, s)
      PROVE  /\ BoardAt(n, s)'
             /\ n = Len(updates) /\ e.kind # "plan" => BoardAt(n + 1, s)'
  <2>1. \A m \in 1..n : updates'[m] = updates[m]
    BY <1>1
  <2>2. n = Len(updates) => updates'[n + 1] = e
    BY <1>1
  <2>3. CASE \E p \in 1..n : Announces(p, s) /\ \A m \in (p + 1)..n : updates[m].kind # "plan"
    <3>1. PICK p \in 1..n : Announces(p, s) /\ \A m \in (p + 1)..n : updates[m].kind # "plan"
      BY <2>3
    <3>2. Announces(p, s)' /\ \A m \in (p + 1)..n : updates'[m].kind # "plan"
      BY <2>1, <3>1 DEF Announces
    <3>3. ASSUME n = Len(updates), e.kind # "plan"
          PROVE  \A m \in (p + 1)..(n + 1) : updates'[m].kind # "plan"
      BY <2>2, <3>2, <3>3
    <3> QED
      BY <3>2, <3>3 DEF BoardAt
  <2>4. CASE shown = s /\ \A m \in 1..n : updates[m].kind # "plan"
    <3>1. shown' = s /\ \A m \in 1..n : updates'[m].kind # "plan"
      BY <2>1, <2>4
    <3>2. ASSUME n = Len(updates), e.kind # "plan"
          PROVE  \A m \in 1..(n + 1) : updates'[m].kind # "plan"
      BY <2>2, <3>1, <3>2
    <3> QED
      BY <3>1, <3>2 DEF BoardAt
  <2> QED
    BY <1>2, <2>3, <2>4 DEF BoardAt
<1>3. Len(updates) \in 0..Len(updates) /\ \A n \in DOMAIN updates : n \in 0..Len(updates)
  BY <1>1
<1>4. \A n \in DOMAIN updates : BoardAt(n, s) => BoardAt(n, s)'
  BY <1>2, <1>3
<1>5. ASSUME e.kind # "plan", BoardAt(Len(updates), s)
      PROVE  BoardAt(Len(updates), s)'
  <2>1. PICK n \in 0..Len(updates) : n = Len(updates)
    BY <1>3
  <2>2. BoardAt(n + 1, s)'
    BY <1>2, <1>5, <2>1
  <2> QED
    BY <1>1, <2>1, <2>2
<1> QED
  BY <1>4, <1>5

(* An event that is folded leaves what is on the board after the others.   *)
LEMMA BoardFolded ==
  ASSUME K!SwarmCardsTypeOK, K!Fold, NEW s \in Swarms
  PROVE  \A n \in 0..Len(updates') : BoardAt(n + 1, s) => BoardAt(n, s)'
<1>1. /\ Len(updates) \in Nat \ {0} /\ Len(updates') = Len(updates) - 1
      /\ DOMAIN updates' = 1..(Len(updates) - 1)
      /\ Head(updates) = updates[1]
      /\ \A n \in DOMAIN updates' : updates'[n] = updates[n + 1]
  BY FoldOf
<1>2. shown' = IF updates[1].kind = "plan" THEN updates[1].swarm ELSE shown
  <2>1. updates[1].kind \in {"plan", "update", "done", "error"}
    BY FoldOf DEF Event
  <2> QED
    BY <1>1, <2>1 DEF K!Fold
<1> SUFFICES ASSUME NEW n \in 0..Len(updates'), BoardAt(n + 1, s)
             PROVE  BoardAt(n, s)'
  OBVIOUS
<1>3. \A m \in 1..n : updates'[m] = updates[m + 1]
  BY <1>1
<1>4. ASSUME NEW p \in 1..(n + 1), Announces(p, s),
             \A m \in (p + 1)..(n + 1) : updates[m].kind # "plan"
      PROVE  BoardAt(n, s)'
  <2>1. CASE p = 1
    <3>1. \A m \in 1..n : updates'[m].kind # "plan"
      <4>1. \A m \in 1..n : m + 1 \in (p + 1)..(n + 1)
        BY <1>1, <2>1
      <4> QED
        BY <1>3, <1>4, <4>1
    <3>2. shown' = s
      BY <1>2, <1>4, <2>1 DEF Announces
    <3> QED
      BY <3>1, <3>2 DEF BoardAt
  <2>2. CASE p # 1
    <3> DEFINE q == p - 1
    <3>1. q \in 1..n /\ q + 1 = p
      BY <1>1, <2>2
    <3> HIDE DEF q
    <3>2. Announces(q, s)'
      BY <1>3, <1>4, <3>1 DEF Announces
    <3>3. \A m \in (q + 1)..n : m \in 1..n /\ m + 1 \in (p + 1)..(n + 1)
      BY <1>1, <3>1
    <3>4. \A m \in (q + 1)..n : updates'[m].kind # "plan"
      BY <1>3, <1>4, <3>3
    <3> QED
      BY <3>1, <3>2, <3>4 DEF BoardAt
  <2> QED
    BY <2>1, <2>2
<1>5. ASSUME shown = s, \A m \in 1..(n + 1) : updates[m].kind # "plan"
      PROVE  BoardAt(n, s)'
  <2>1. 1 \in 1..(n + 1) /\ \A m \in 1..n : m + 1 \in 1..(n + 1)
    BY <1>1
  <2>2. shown' = s /\ \A m \in 1..n : updates'[m].kind # "plan"
    BY <1>2, <1>3, <1>5, <2>1
  <2> QED
    BY <2>2 DEF BoardAt
<1> QED
  BY <1>4, <1>5 DEF BoardAt

(* Events of workers and coordinators, and ends.                           *)
LEMMA EmitPlans ==
  ASSUME K!SwarmCardsTypeOK, PlanInv, NEW e \in Event, K!Emit(e), e.kind # "plan",
         e.kind = "update" /\ e.role # "Coordinator" =>
           \E v \in DOMAIN plan[e.swarm] : plan[e.swarm][v] = e.role,
         UNCHANGED <<plan, shown, cards>>,
         \A s \in Swarms : DOMAIN reported'[s] = DOMAIN reported[s]
  PROVE  PlanInv'
<1>1. PICK end \in Nat \ {0} :
        /\ DOMAIN updates = 1..(end - 1) /\ DOMAIN updates' = 1..end
        /\ updates'[end] = e /\ \A n \in DOMAIN updates : updates'[n] = updates[n]
  <2>1. /\ Len(updates) \in Nat /\ DOMAIN updates = 1..Len(updates)
        /\ DOMAIN updates' = 1..(Len(updates) + 1) /\ updates'[Len(updates) + 1] = e
        /\ \A n \in DOMAIN updates : updates'[n] = updates[n]
    BY EmitOf
  <2> QED
    BY <2>1
<1>2. \A n \in DOMAIN updates' : n = end \/ n \in DOMAIN updates
  BY <1>1
<1>3. ASSUME NEW n \in DOMAIN updates' PROVE AnnouncedOnce(n)' /\ RoleKnown(n)'
  <2>1. CASE n = end
    BY <1>1, <2>1 DEF AnnouncedOnce, RoleKnown
  <2>2. CASE n \in DOMAIN updates
    <3>1. updates'[n] = updates[n] /\ AnnouncedOnce(n) /\ RoleKnown(n)
      BY <1>1, <2>2 DEF PlanInv
    <3>2. \A m \in DOMAIN updates', s \in Swarms :
            Announces(m, s)' => m \in DOMAIN updates /\ Announces(m, s)
      BY <1>1, <1>2 DEF Announces
    <3>3. updates[n].swarm \in Swarms
      BY <2>2, UpdatesOf DEF Event
    <3>4. AnnouncedOnce(n)'
      BY <3>1, <3>2, <3>3 DEF AnnouncedOnce
    <3>5. RoleKnown(n)'
      BY <3>1 DEF RoleKnown
    <3> QED
      BY <3>4, <3>5
  <2> QED
    BY <1>2, <2>1, <2>2
<1>4. HasPlan'
  BY DEF PlanInv, HasPlan
<1> QED
  BY <1>3, <1>4 DEF PlanInv

LEMMA EmitFollowed ==
  ASSUME K!SwarmCardsTypeOK, NEW s \in Swarms, NEW w \in DOMAIN plan[s], Followed(s, w),
         NEW e \in Event, K!Emit(e), e.kind # "plan", e.kind = "update" => e.role # plan[s][w],
         UNCHANGED <<shown, cards>>, plan'[s] = plan[s], reported'[s][w] = reported[s][w]
  PROVE  Followed(s, w)'
<1>1. PICK end \in Nat \ {0} :
        /\ DOMAIN updates = 1..(end - 1) /\ DOMAIN updates' = 1..end
        /\ updates'[end] = e /\ \A n \in DOMAIN updates : updates'[n] = updates[n]
  <2>1. /\ Len(updates) \in Nat /\ DOMAIN updates = 1..Len(updates)
        /\ DOMAIN updates' = 1..(Len(updates) + 1) /\ updates'[Len(updates) + 1] = e
        /\ \A n \in DOMAIN updates : updates'[n] = updates[n]
    BY EmitOf
  <2> QED
    BY <2>1
<1>2. /\ \A n \in DOMAIN updates' : n = end \/ n \in DOMAIN updates
      /\ \A n \in DOMAIN updates : n \in DOMAIN updates'
  BY <1>1
<1>3. \A n \in DOMAIN updates' : Tells(n, s, w)' <=> n \in DOMAIN updates /\ Tells(n, s, w)
  BY <1>1, <1>2 DEF Tells
<1>4. \A n \in DOMAIN updates' : Announces(n, s)' <=> n \in DOMAIN updates /\ Announces(n, s)
  BY <1>1, <1>2 DEF Announces
<1> QED
  BY <1>1, <1>2, <1>3, <1>4 DEF Followed

LEMMA EmitAnswers ==
  ASSUME K!SwarmCardsTypeOK, AnswerInv, NEW e \in Event, K!Emit(e), e.kind # "plan",
         e.kind = "done" => K!Live(e.swarm),
         UNCHANGED <<plan, shown, answer, overlap>>, ended \subseteq ended'
  PROVE  AnswerInv'
<1> SUFFICES ASSUME ~overlap PROVE AnswerInv'
  BY DEF AnswerInv
<1>1. /\ Len(updates) \in Nat /\ DOMAIN updates = 1..Len(updates)
      /\ Len(updates') = Len(updates) + 1 /\ DOMAIN updates' = 1..(Len(updates) + 1)
      /\ updates'[Len(updates) + 1] = e
      /\ \A n \in DOMAIN updates : updates'[n] = updates[n]
  BY EmitOf
<1>2. \A s \in Swarms : /\ \A n \in DOMAIN updates : BoardAt(n, s) => BoardAt(n, s)'
                        /\ BoardAt(Len(updates), s) => BoardAt(Len(updates), s)'
  BY BoardAppended
<1>3. \A s \in Swarms : K!Live(s)' => K!Live(s)
  BY DEF K!Live
<1>4. \A s \in Swarms : K!Live(s)' => BoardAt(Len(updates), s)'
  BY <1>2, <1>3 DEF AnswerInv
<1>5. ASSUME NEW n \in DOMAIN updates', updates'[n].kind = "done"
      PROVE  BoardAt(n, updates[n].swarm)'
  <2>1. CASE n \in DOMAIN updates
    <3>1. PICK s \in Swarms : s = updates[n].swarm
      BY <2>1, UpdatesOf DEF Event
    <3>2. BoardAt(n, s)'
      BY <1>1, <1>2, <1>5, <2>1, <3>1 DEF AnswerInv
    <3> QED
      BY <1>1, <2>1, <3>1, <3>2
  <2>2. CASE n = Len(updates) + 1
    <3>1. PICK s \in Swarms : s = e.swarm
      BY DEF Event
    <3>2. updates'[n] = e /\ e.kind = "done"
      BY <1>1, <1>5, <2>2
    <3>3. BoardAt(Len(updates), s)'
      BY <1>2, <3>1, <3>2 DEF AnswerInv
    <3>4. BoardAt(n, s)'
      BY <1>1, <2>2, <3>3
    <3> QED
      BY <3>1, <3>2, <3>4
  <2> QED
    BY <1>1, <2>1, <2>2
<1> QED
  BY <1>4, <1>5 DEF AnswerInv

(* A worker starts or ends.                                                *)
LEMMA ReportCards ==
  ASSUME CardsInv, NEW s \in Swarms, NEW v \in DOMAIN plan[s], NEW status \in K!Statuses,
         K!Report(s, v, status)
  PROVE  PlanInv' /\ CardInv' /\ AnswerInv'
<1> USE DEF CardsInv
<1> DEFINE e == [kind |-> "update", swarm |-> s, role |-> plan[s][v], status |-> status]
<1>1. e \in Event /\ K!Emit(e)
  BY EventOf, PlanOf DEF K!Report
<1>2. e.kind = "update" /\ e.swarm = s /\ e.role = plan[s][v] /\ e.status = status
  OBVIOUS
<1> HIDE DEF e
<1>3. PICK end \in Nat \ {0} :
        /\ DOMAIN updates = 1..(end - 1) /\ DOMAIN updates' = 1..end
        /\ updates'[end] = e /\ \A n \in DOMAIN updates : updates'[n] = updates[n]
  <2>1. /\ Len(updates) \in Nat /\ DOMAIN updates = 1..Len(updates)
        /\ DOMAIN updates' = 1..(Len(updates) + 1) /\ updates'[Len(updates) + 1] = e
        /\ \A n \in DOMAIN updates : updates'[n] = updates[n]
    BY <1>1, EmitOf
  <2> QED
    BY <2>1
<1>4. /\ \A n \in DOMAIN updates' : n \in DOMAIN updates \/ n = end
      /\ \A n \in DOMAIN updates : n < end /\ n \in DOMAIN updates'
      /\ end \in DOMAIN updates'
  BY <1>3
<1>5. /\ UNCHANGED <<plan, shown, cards, ended, overlap, answer>>
      /\ reported' = [reported EXCEPT ![s] = [reported[s] EXCEPT ![v] = status]]
  BY DEF K!Report
<1>6. /\ reported'[s] = [reported[s] EXCEPT ![v] = status]
      /\ \A r \in Swarms : r # s => reported'[r] = reported[r]
  BY <1>5 DEF K!SwarmCardsTypeOK
<1>7. /\ \A r \in Swarms : DOMAIN reported'[r] = DOMAIN reported[r]
      /\ v \in DOMAIN reported[s]
  BY <1>6 DEF PlanInv
<1>8. /\ reported'[s][v] = status
      /\ \A r \in Swarms : \A w \in DOMAIN plan[r] :
           ~(r = s /\ w = v) => reported'[r][w] = reported[r][w]
  BY <1>6, <1>7 DEF PlanInv
<1>9. PlanInv'
  BY <1>1, <1>2, <1>5, <1>7, EmitPlans
<1>10. AnswerInv'
  BY <1>1, <1>2, <1>5, EmitAnswers
<1>11. ASSUME NEW r \in Swarms, NEW w \in DOMAIN plan[r], K!Unambiguous(plan[r][w])
       PROVE  Followed(r, w)'
  <2>1. Followed(r, w)
    BY <1>11 DEF CardInv
  <2>2. CASE r = s /\ w = v
    <3>1. Tells(end, r, w)'
      BY <1>2, <1>3, <1>5, <2>2 DEF Tells
    <3>2. ASSUME NEW n \in DOMAIN updates', \A m \in DOMAIN updates' : Tells(m, r, w)' => m <= n
          PROVE  updates'[n].status = reported'[r][w]
      <4>1. end <= n
        BY <1>4, <3>1, <3>2
      <4>2. n = end
        BY <1>3, <4>1
      <4> QED
        BY <1>2, <1>3, <1>8, <2>2, <4>2
    <3>3. ASSUME NEW p \in DOMAIN updates', Announces(p, r)', NEW n \in DOMAIN updates', Tells(n, r, w)'
          PROVE  p < n
      <4>1. p \in DOMAIN updates /\ Announces(p, r)
        BY <1>2, <1>3, <1>4, <3>3 DEF Announces
      <4>2. n \in DOMAIN updates => Tells(n, r, w)
        BY <1>3, <1>5, <3>3 DEF Tells
      <4> QED
        BY <1>4, <2>1, <4>1, <4>2 DEF Followed
    <3> QED
      BY <1>4, <3>1, <3>2, <3>3 DEF Followed
  <2>3. CASE ~(r = s /\ w = v)
    <3>1. plan[r][w] # plan[s][v]
      BY <1>11, <2>3 DEF K!Unambiguous, K!Workers
    <3> QED
      BY <1>1, <1>2, <1>5, <1>8, <2>1, <2>3, <3>1, EmitFollowed
  <2> QED
    BY <2>2, <2>3
<1>12. CardInv'
  <2>1. \A r \in Swarms : \A w \in DOMAIN plan[r] :
          K!Unambiguous(plan[r][w])' => K!Unambiguous(plan[r][w])
    BY <1>5 DEF K!Unambiguous, K!Workers
  <2> QED
    BY <1>5, <1>11, <2>1 DEF CardInv
<1> QED
  BY <1>9, <1>10, <1>12

(* A coordinator says it runs, or a swarm is over.                         *)
LEMMA SwarmSaysCards ==
  ASSUME CardsInv, NEW s \in Swarms, K!CoordinatorSays(s) \/ K!SwarmEnds(s)
  PROVE  PlanInv' /\ CardInv' /\ AnswerInv'
<1> USE DEF CardsInv
<1>1. PICK e \in Event :
        /\ K!Emit(e) /\ e.kind \in {"update", "done", "error"} /\ e.role = "Coordinator"
        /\ e.kind = "done" => K!Live(e.swarm)
  <2>1. ASSUME NEW kind \in {"update", "done", "error"}, NEW status \in {"Pending", "Running"},
               K!Emit([kind |-> kind, swarm |-> s, role |-> "Coordinator", status |-> status]),
               kind = "done" => K!Live(s)
        PROVE  \E e \in Event :
                 /\ K!Emit(e) /\ e.kind \in {"update", "done", "error"} /\ e.role = "Coordinator"
                 /\ e.kind = "done" => K!Live(e.swarm)
    <3> DEFINE e == [kind |-> kind, swarm |-> s, role |-> "Coordinator", status |-> status]
    <3>1. e \in Event
      BY EventOf, CoordinatorIsRole DEF K!Statuses
    <3>2. e.kind = kind /\ e.swarm = s /\ e.role = "Coordinator" /\ K!Emit(e)
      BY <2>1
    <3> HIDE DEF e
    <3> QED
      BY <2>1, <3>1, <3>2
  <2>2. CASE K!CoordinatorSays(s)
    BY <2>1, <2>2 DEF K!CoordinatorSays
  <2>3. CASE K!SwarmEnds(s)
    BY <2>1, <2>3 DEF K!SwarmEnds
  <2> QED
    BY <2>2, <2>3
<1>2. UNCHANGED <<plan, reported, shown, cards, overlap, answer>> /\ ended \subseteq ended'
  BY DEF K!CoordinatorSays, K!SwarmEnds
<1>3. PlanInv'
  BY <1>1, <1>2, EmitPlans
<1>4. AnswerInv'
  BY <1>1, <1>2, EmitAnswers
<1>5. ASSUME NEW r \in Swarms, NEW w \in DOMAIN plan[r], K!Unambiguous(plan[r][w])
      PROVE  Followed(r, w)'
  <2>1. Followed(r, w) /\ plan[r][w] # "Coordinator"
    BY <1>5 DEF CardInv, K!Unambiguous
  <2> QED
    BY <1>1, <1>2, <2>1, EmitFollowed
<1>6. \A r \in Swarms : \A w \in DOMAIN plan[r] :
        K!Unambiguous(plan[r][w])' => K!Unambiguous(plan[r][w])
  BY <1>2 DEF K!Unambiguous, K!Workers
<1> QED
  BY <1>2, <1>3, <1>4, <1>5, <1>6 DEF CardInv

(* A plan is announced.                                                    *)
LEMMA PlanReadyCards ==
  ASSUME CardsInv, NEW s \in Swarms, K!PlanReady(s)
  PROVE  PlanInv' /\ CardInv' /\ AnswerInv'
<1> USE DEF CardsInv
<1>1. PICK e \in Event : K!Emit(e) /\ e.kind = "plan" /\ e.swarm = s
  <2> DEFINE e == [kind |-> "plan", swarm |-> s, role |-> "Coordinator", status |-> "Pending"]
  <2>1. e \in Event /\ K!Emit(e)
    BY EventOf, CoordinatorIsRole DEF K!PlanReady, K!Statuses
  <2>2. e.kind = "plan" /\ e.swarm = s
    OBVIOUS
  <2> QED
    BY <2>1, <2>2
<1>2. PICK end \in Nat \ {0} :
        /\ DOMAIN updates = 1..(end - 1) /\ DOMAIN updates' = 1..end
        /\ Len(updates) = end - 1 /\ Len(updates') = end
        /\ updates'[end] = e /\ \A n \in DOMAIN updates : updates'[n] = updates[n]
  <2>1. /\ Len(updates) \in Nat /\ DOMAIN updates = 1..Len(updates)
        /\ Len(updates') = Len(updates) + 1
        /\ DOMAIN updates' = 1..(Len(updates) + 1) /\ updates'[Len(updates) + 1] = e
        /\ \A n \in DOMAIN updates : updates'[n] = updates[n]
    BY <1>1, EmitOf
  <2> QED
    BY <2>1
<1>3. /\ \A n \in DOMAIN updates' : n \in DOMAIN updates \/ n = end
      /\ \A n \in DOMAIN updates : n < end /\ n \in DOMAIN updates'
      /\ end \in DOMAIN updates'
  BY <1>2
<1>4. PICK roles \in Plans :
        /\ plan' = [plan EXCEPT ![s] = roles]
        /\ reported' = [reported EXCEPT ![s] = [w \in DOMAIN roles |-> "Pending"]]
  BY DEF K!PlanReady
<1>5. /\ plan[s] = <<>> /\ s \notin ended /\ roles # <<>>
      /\ UNCHANGED <<shown, cards, ended, answer>>
      /\ overlap' = (overlap \/ \E r \in Swarms : K!Live(r))
  BY DesktopAssumption DEF K!PlanReady, K!SwarmCardsAssumption
<1>6. /\ plan'[s] = roles /\ \A r \in Swarms : r # s => plan'[r] = plan[r]
      /\ reported'[s] = [w \in DOMAIN roles |-> "Pending"]
      /\ \A r \in Swarms : r # s => reported'[r] = reported[r]
  BY <1>4 DEF K!SwarmCardsTypeOK
<1>7. /\ shown # s
      /\ \A n \in DOMAIN updates : ~Announces(n, s)
      /\ DOMAIN plan[s] = {}
  <2>1. s # NoSwarm
    BY DesktopAssumption DEF K!SwarmCardsAssumption
  <2>2. shown # s
    BY <1>5, <2>1 DEF PlanInv, HasPlan
  <2>3. \A n \in DOMAIN updates : ~Announces(n, s)
    BY <1>5 DEF PlanInv, AnnouncedOnce, Announces
  <2> QED
    BY <1>5, <2>2, <2>3, PlanOf
<1>8. shown # NoSwarm => shown \in Swarms
  BY DEF K!SwarmCardsTypeOK
<1>9. \A n \in DOMAIN updates :
        updates[n].kind = "update" /\ updates[n].role # "Coordinator" =>
          \E r \in Swarms : \E v \in DOMAIN plan[r] :
            r = updates[n].swarm /\ r # s /\ plan[r][v] = updates[n].role
  BY <1>7, UpdatesOf DEF PlanInv, RoleKnown, Event
<1>10. PlanInv'
  <2>1. \A r \in Swarms : DOMAIN reported'[r] = DOMAIN plan'[r]
    BY <1>6 DEF PlanInv
  <2>2. HasPlan'
    <3>1. CASE shown = NoSwarm
      BY <1>5, <3>1 DEF PlanInv, HasPlan
    <3>2. CASE shown # NoSwarm
      <4>1. plan'[shown] = plan[shown]
        BY <1>6, <1>7, <1>8, <3>2
      <4> QED
        BY <1>5, <3>2, <4>1 DEF PlanInv, HasPlan
    <3> QED
      BY <3>1, <3>2
  <2>3. ASSUME NEW n \in DOMAIN updates' PROVE AnnouncedOnce(n)' /\ RoleKnown(n)'
    <3>1. CASE n = end
      <4>1. updates'[n].kind = "plan" /\ updates'[n].swarm = s
        BY <1>1, <1>2, <3>1
      <4>2. \A m \in DOMAIN updates' : Announces(m, s)' => m = n
        BY <1>2, <1>3, <1>7, <3>1 DEF Announces
      <4>3. AnnouncedOnce(n)'
        BY <1>5, <1>6, <1>7, <4>1, <4>2 DEF AnnouncedOnce
      <4> QED
        BY <4>1, <4>3 DEF RoleKnown
    <3>2. CASE n \in DOMAIN updates
      <4>1. updates'[n] = updates[n] /\ AnnouncedOnce(n)
        BY <1>2, <3>2 DEF PlanInv
      <4>2. PICK r \in Swarms : r = updates[n].swarm
        BY <3>2, UpdatesOf DEF Event
      <4>3. updates[n].kind = "plan" => r # s
        BY <1>7, <3>2, <4>2 DEF Announces
      <4>4. \A m \in DOMAIN updates' :
              r # s => (Announces(m, r)' => m \in DOMAIN updates /\ Announces(m, r))
        BY <1>1, <1>2, <1>3 DEF Announces
      <4>5. AnnouncedOnce(n)'
        BY <1>5, <1>6, <4>1, <4>2, <4>3, <4>4 DEF AnnouncedOnce
      <4>6. RoleKnown(n)'
        BY <1>6, <1>9, <3>2, <4>1 DEF RoleKnown
      <4> QED
        BY <4>5, <4>6
    <3> QED
      BY <1>3, <3>1, <3>2
  <2> QED
    BY <2>1, <2>2, <2>3 DEF PlanInv
<1>11. ASSUME NEW r \in Swarms, NEW w \in DOMAIN plan'[r], K!Unambiguous(plan[r][w])'
       PROVE  Followed(r, w)'
  <2>1. \A n \in DOMAIN updates' : Tells(n, r, w)' => n \in DOMAIN updates
    BY <1>1, <1>2, <1>3 DEF Tells
  <2>2. CASE r = s
    <3>1. \A n \in DOMAIN updates' : ~Tells(n, r, w)'
      <4> SUFFICES ASSUME NEW n \in DOMAIN updates', Tells(n, r, w)' PROVE FALSE
        OBVIOUS
      <4>1. /\ n \in DOMAIN updates /\ updates[n].kind = "update"
            /\ updates[n].role = plan'[r][w] /\ updates[n].role # "Coordinator"
        BY <1>2, <1>11, <2>1 DEF Tells, K!Unambiguous
      <4>2. PICK t \in Swarms : t # s /\ \E v \in DOMAIN plan[t] : plan[t][v] = updates[n].role
        BY <1>9, <4>1
      <4>3. PICK v \in DOMAIN plan[t] : plan[t][v] = updates[n].role
        BY <4>2
      <4>4. v \in DOMAIN plan'[t] /\ plan'[t][v] = plan'[r][w]
        BY <1>6, <4>1, <4>2, <4>3
      <4> QED
        BY <1>11, <2>2, <4>2, <4>4 DEF K!Unambiguous, K!Workers
    <3>2. reported'[r][w] = "Pending"
      BY <1>6, <1>11, <2>2
    <3> QED
      BY <1>5, <1>7, <2>2, <3>1, <3>2 DEF Followed
  <2>3. CASE r # s
    <3>1. plan'[r] = plan[r] /\ reported'[r] = reported[r]
      BY <1>6, <2>3
    <3>2. \A t \in Swarms : \A v \in DOMAIN plan[t] : v \in DOMAIN plan'[t] /\ plan'[t][v] = plan[t][v]
      BY <1>6, <1>7
    <3>3. K!Unambiguous(plan[r][w])
      BY <1>11, <3>1, <3>2 DEF K!Unambiguous, K!Workers
    <3>4. Followed(r, w)
      BY <1>11, <3>1, <3>3 DEF CardInv
    <3>5. \A n \in DOMAIN updates' : Tells(n, r, w)' <=> n \in DOMAIN updates /\ Tells(n, r, w)
      BY <1>2, <1>3, <2>1, <3>1 DEF Tells
    <3>6. \A n \in DOMAIN updates' : Announces(n, r)' <=> n \in DOMAIN updates /\ Announces(n, r)
      BY <1>1, <1>2, <1>3, <2>3 DEF Announces
    <3> QED
      BY <1>2, <1>3, <1>5, <3>1, <3>4, <3>5, <3>6 DEF Followed
  <2> QED
    BY <2>2, <2>3
<1>12. AnswerInv'
  <2> SUFFICES ASSUME ~overlap' PROVE AnswerInv'
    BY DEF AnswerInv
  <2>1. ~overlap /\ \A r \in Swarms : ~K!Live(r)
    BY <1>5 DEF K!SwarmCardsTypeOK
  <2>2. \A r \in Swarms : K!Live(r)' => r = s
    BY <1>5, <1>6, <2>1 DEF K!Live
  <2>3. BoardAt(end, s)'
    <3>1. end \in 1..end /\ (end + 1)..end = {} /\ Announces(end, s)'
      BY <1>1, <1>2 DEF Announces
    <3> QED
      BY <3>1 DEF BoardAt
  <2>4. \A r \in Swarms : K!Live(r)' => BoardAt(Len(updates), r)'
    BY <1>2, <2>2, <2>3
  <2>5. ASSUME NEW n \in DOMAIN updates', updates'[n].kind = "done"
        PROVE  BoardAt(n, updates[n].swarm)'
    <3>1. n \in DOMAIN updates /\ updates'[n] = updates[n]
      BY <1>1, <1>2, <1>3, <2>5
    <3>2. PICK r \in Swarms : r = updates[n].swarm
      BY <3>1, UpdatesOf DEF Event
    <3>3. BoardAt(n, r)'
      BY <1>1, <1>5, <2>1, <2>5, <3>1, <3>2, BoardAppended DEF AnswerInv
    <3> QED
      BY <3>1, <3>2, <3>3
  <2> QED
    BY <1>5, <2>1, <2>4, <2>5 DEF AnswerInv
<1> QED
  BY <1>10, <1>11, <1>12 DEF CardInv

(* An event is folded.                                                     *)
LEMMA FoldCards ==
  ASSUME CardsInv, K!Fold
  PROVE  PlanInv' /\ CardInv' /\ AnswerInv'
<1> USE DEF CardsInv
<1>1. PICK e \in Event : e = Head(updates)
  BY FoldOf
<1>2. PICK len \in Nat :
        /\ DOMAIN updates = 1..(len + 1) /\ DOMAIN updates' = 1..len
        /\ Len(updates) = len + 1 /\ Len(updates') = len
        /\ updates[1] = e /\ \A n \in DOMAIN updates' : updates'[n] = updates[n + 1]
  <2>1. /\ Len(updates) \in Nat \ {0} /\ DOMAIN updates = 1..Len(updates)
        /\ Len(updates') = Len(updates) - 1 /\ DOMAIN updates' = 1..(Len(updates) - 1)
        /\ Head(updates) = updates[1]
        /\ \A n \in DOMAIN updates' : updates'[n] = updates[n + 1]
    BY FoldOf
  <2>2. Len(updates) - 1 \in Nat /\ Len(updates) = (Len(updates) - 1) + 1
    BY <2>1
  <2> QED
    BY <1>1, <2>1, <2>2
<1>3. /\ 1 \in DOMAIN updates
      /\ \A n \in DOMAIN updates' : n + 1 \in DOMAIN updates /\ n \in Nat \ {0}
      /\ \A n \in DOMAIN updates : n = 1 \/ \E m \in DOMAIN updates' : n = m + 1
  <2>1. \A n \in DOMAIN updates : n = 1 \/ (n - 1 \in DOMAIN updates' /\ n = (n - 1) + 1)
    BY <1>2
  <2> QED
    BY <1>2, <2>1
<1>4. /\ UNCHANGED <<plan, reported, ended, overlap>>
      /\ e.kind \in {"plan", "update", "done", "error"} /\ e.swarm \in Swarms
  BY DEF K!Fold, Event
<1>5. /\ e.kind = "plan" =>
           /\ shown' = e.swarm /\ answer' = NoSwarm
           /\ cards' = [n \in DOMAIN plan[e.swarm] |->
                          [role |-> plan[e.swarm][n], status |-> "Pending"]]
      /\ e.kind = "update" =>
           /\ cards' = [n \in DOMAIN cards |-> IF n \in K!CardFor(e.role)
                                               THEN [cards[n] EXCEPT !.status = e.status] ELSE cards[n]]
           /\ UNCHANGED <<shown, answer>>
      /\ e.kind = "done" =>
           /\ answer' = IF shown = NoSwarm THEN NoSwarm ELSE e.swarm
           /\ UNCHANGED <<shown, cards>>
      /\ e.kind = "error" => UNCHANGED <<shown, cards, answer>>
  BY <1>1, <1>4 DEF K!Fold
<1>6. /\ \A n \in DOMAIN updates', s \in Swarms : Announces(n, s)' <=> Announces(n + 1, s)
      /\ \A n \in DOMAIN updates' : \A s \in Swarms, w \in Nat : Tells(n, s, w)' <=> Tells(n + 1, s, w)
  BY <1>2, <1>4 DEF Announces, Tells
<1>7. /\ e.kind = "plan" => plan[e.swarm] # <<>>
      /\ \A n \in DOMAIN updates : Announces(n, e.swarm) /\ e.kind = "plan" => n = 1
  BY <1>2, <1>3 DEF PlanInv, AnnouncedOnce
<1>8. HasPlan'
  <2>1. CASE e.kind = "plan"
    <3>1. NoSwarm \notin Swarms
      BY DesktopAssumption DEF K!SwarmCardsAssumption
    <3> QED
      BY <1>4, <1>5, <1>7, <2>1, <3>1 DEF HasPlan
  <2>2. CASE e.kind = "update"
    <3>1. DOMAIN cards' = DOMAIN cards
      BY <1>5, <2>2
    <3>2. ASSUME NEW n \in DOMAIN cards PROVE cards'[n].role = cards[n].role
      <4>1. cards[n] \in [role : Roles, status : K!Statuses]
        BY SeqOf DEF K!SwarmCardsTypeOK
      <4>2. [cards[n] EXCEPT !.status = e.status].role = cards[n].role
        BY <4>1
      <4> QED
        BY <1>5, <2>2, <4>2
    <3>3. shown' = NoSwarm => cards' = <<>>
      <4> SUFFICES ASSUME shown = NoSwarm PROVE cards' = <<>>
        BY <1>5, <2>2
      <4>1. cards = <<>>
        BY DEF PlanInv, HasPlan
      <4> QED
        BY <1>5, <2>2, <4>1
    <3> QED
      BY <1>4, <1>5, <2>2, <3>1, <3>2, <3>3 DEF PlanInv, HasPlan
  <2>3. CASE e.kind \in {"done", "error"}
    BY <1>4, <1>5, <2>3 DEF PlanInv, HasPlan
  <2> QED
    BY <1>4, <2>1, <2>2, <2>3
<1>9. ASSUME NEW n \in DOMAIN updates' PROVE AnnouncedOnce(n)' /\ RoleKnown(n)'
  <2>1. n + 1 \in DOMAIN updates /\ updates'[n] = updates[n + 1] /\ n \in Nat \ {0}
    BY <1>2, <1>3
  <2>2. AnnouncedOnce(n + 1) /\ RoleKnown(n + 1)
    BY <2>1 DEF PlanInv
  <2>3. RoleKnown(n)'
    BY <1>4, <2>1, <2>2 DEF RoleKnown
  <2>4. PICK s \in Swarms : s = updates[n + 1].swarm
    BY <2>1, UpdatesOf DEF Event
  <2>5. ASSUME updates[n + 1].kind = "plan"
        PROVE  plan[s] # <<>> /\ shown' # s /\ \A m \in DOMAIN updates' : Announces(m, s)' => m = n
    <3>1. \A m \in DOMAIN updates : Announces(m, s) => m = n + 1
      BY <2>2, <2>4, <2>5 DEF AnnouncedOnce
    <3>2. \A m \in DOMAIN updates' : Announces(m, s)' => m = n
      BY <1>3, <1>6, <2>1, <3>1
    <3>3. e.kind = "plan" => e.swarm # s
      BY <1>2, <1>3, <2>1, <3>1 DEF Announces
    <3> QED
      BY <1>4, <1>5, <2>2, <2>4, <2>5, <3>2, <3>3 DEF AnnouncedOnce
  <2>6. AnnouncedOnce(n)'
    BY <1>4, <2>1, <2>4, <2>5 DEF AnnouncedOnce
  <2> QED
    BY <2>3, <2>6
<1>10. PlanInv'
  BY <1>4, <1>8, <1>9 DEF PlanInv
<1>11. ASSUME NEW s \in Swarms, NEW w \in DOMAIN plan[s], K!Unambiguous(plan[s][w])
       PROVE  Followed(s, w)'
  <2>1. Followed(s, w) /\ w \in Nat
    BY <1>11, PlanOf DEF CardInv
  <2>2. /\ \A n \in DOMAIN updates' : Tells(n, s, w)' <=> Tells(n + 1, s, w)
        /\ \A n \in DOMAIN updates' : Announces(n, s)' <=> Announces(n + 1, s)
    BY <1>6, <2>1
  <2>3. ASSUME NEW n \in DOMAIN updates', Tells(n, s, w)',
               \A m \in DOMAIN updates' : Tells(m, s, w)' => m <= n
        PROVE  updates'[n].status = reported'[s][w]
    <3>1. n + 1 \in DOMAIN updates /\ updates'[n] = updates[n + 1] /\ n \in Nat
      BY <1>2, <1>3
    <3>2. \A m \in DOMAIN updates : Tells(m, s, w) => m <= n + 1
      BY <1>3, <2>2, <2>3, <3>1
    <3>3. Tells(n + 1, s, w)
      BY <2>2, <2>3
    <3> QED
      BY <1>4, <2>1, <3>1, <3>2, <3>3 DEF Followed
  <2>4. ASSUME NEW p \in DOMAIN updates', Announces(p, s)'
        PROVE  /\ \A n \in DOMAIN updates' : Tells(n, s, w)' => p < n
               /\ (\A n \in DOMAIN updates' : ~Tells(n, s, w)') => reported'[s][w] = "Pending"
    <3>1. p + 1 \in DOMAIN updates /\ Announces(p + 1, s) /\ p \in Nat \ {0}
      BY <1>3, <2>2, <2>4
    <3>2. \A n \in DOMAIN updates : Tells(n, s, w) => p + 1 < n
      BY <2>1, <3>1 DEF Followed
    <3>3. \A n \in DOMAIN updates' : Tells(n, s, w)' => p < n
      BY <1>3, <2>2, <3>1, <3>2
    <3>4. ~Tells(1, s, w)
      BY <1>3, <3>1, <3>2
    <3>5. (\A n \in DOMAIN updates' : ~Tells(n, s, w)') => \A n \in DOMAIN updates : ~Tells(n, s, w)
      BY <1>3, <2>2, <3>4
    <3> QED
      BY <1>4, <2>1, <3>1, <3>3, <3>5 DEF Followed
  <2>5. ASSUME shown' = s, \A n \in DOMAIN updates' : ~Tells(n, s, w)'
        PROVE  cards'[w].status = reported'[s][w]
    <3>1. \A n \in DOMAIN updates : Tells(n, s, w) => n = 1
      BY <1>3, <2>2, <2>5
    <3>2. CASE e.kind = "plan"
      <4>1. s = e.swarm /\ Announces(1, s) /\ ~Tells(1, s, w)
        BY <1>2, <1>5, <2>5, <3>2 DEF Announces, Tells
      <4>2. reported[s][w] = "Pending"
        BY <1>3, <2>1, <3>1, <4>1 DEF Followed
      <4>3. cards'[w].status = "Pending"
        BY <1>5, <1>11, <3>2, <4>1
      <4> QED
        BY <1>4, <4>2, <4>3
    <3>3. CASE e.kind = "update"
      <4>1. shown = s /\ DOMAIN cards = DOMAIN plan[s] /\ \A n \in DOMAIN cards : cards[n].role = plan[s][n]
        <5>1. shown = s /\ s # NoSwarm
          BY <1>5, <2>5, <3>3, DesktopAssumption DEF K!SwarmCardsAssumption
        <5> QED
          BY <5>1 DEF PlanInv, HasPlan
      <4>2. CASE e.role = plan[s][w]
        <5>1. Tells(1, s, w)
          BY <1>2, <3>3, <4>2 DEF Tells
        <5>2. e.status = reported[s][w]
          <6>1. \A m \in DOMAIN updates : Tells(m, s, w) => m <= 1
            BY <3>1
          <6> QED
            BY <1>2, <1>3, <2>1, <5>1, <6>1 DEF Followed
        <5>3. w \in K!CardFor(e.role)
          <6>1. \A k \in 1..(w - 1) : k \in DOMAIN plan[s] /\ k # w
            BY PlanOf, <2>1
          <6>2. \A k \in 1..(w - 1) : plan[s][k] # plan[s][w]
            BY <1>11, <6>1 DEF K!Unambiguous, K!Workers
          <6> QED
            BY <4>1, <4>2, <6>1, <6>2 DEF K!CardFor
        <5>4. cards'[w] = [cards[w] EXCEPT !.status = e.status]
          BY <1>5, <3>3, <4>1, <5>3
        <5>5. cards[w] \in [role : Roles, status : K!Statuses]
          BY <4>1, SeqOf DEF K!SwarmCardsTypeOK
        <5> QED
          BY <1>4, <5>2, <5>4, <5>5
      <4>3. CASE e.role # plan[s][w]
        <5>1. w \notin K!CardFor(e.role)
          BY <4>1, <4>3 DEF K!CardFor
        <5>2. cards'[w] = cards[w]
          BY <1>5, <3>3, <4>1, <5>1
        <5>3. \A n \in DOMAIN updates : ~Tells(n, s, w)
          BY <1>2, <3>1, <4>3 DEF Tells
        <5> QED
          BY <1>4, <2>1, <4>1, <5>2, <5>3 DEF Followed
      <4> QED
        BY <4>2, <4>3
    <3>4. CASE e.kind \in {"done", "error"}
      <4>1. \A n \in DOMAIN updates : ~Tells(n, s, w)
        BY <1>2, <3>1, <3>4 DEF Tells
      <4> QED
        BY <1>4, <1>5, <2>1, <2>5, <3>4, <4>1 DEF Followed
    <3> QED
      BY <1>4, <3>2, <3>3, <3>4
  <2> QED
    BY <2>3, <2>4, <2>5 DEF Followed
<1>12. CardInv'
  <2>1. \A r \in Swarms : \A w \in DOMAIN plan[r] :
          K!Unambiguous(plan[r][w])' => K!Unambiguous(plan[r][w])
    BY <1>4 DEF K!Unambiguous, K!Workers
  <2> QED
    BY <1>4, <1>11, <2>1 DEF CardInv
<1>13. AnswerInv'
  <2> SUFFICES ASSUME ~overlap PROVE AnswerInv'
    BY <1>4 DEF AnswerInv
  <2>1. ASSUME NEW s \in Swarms, NEW n \in 0..len, BoardAt(n + 1, s)
        PROVE  BoardAt(n, s)'
    BY <1>2, <2>1, BoardFolded
  <2>2. answer' \in {NoSwarm, shown'}
    <3>1. CASE e.kind = "done"
      <4>1. PICK s \in Swarms : s = e.swarm
        BY <1>4
      <4>2. BoardAt(1, s)
        BY <1>2, <1>3, <3>1, <4>1 DEF AnswerInv
      <4>3. shown = s
        BY <1>2, <3>1, <4>2 DEF BoardAt, Announces
      <4> QED
        BY <1>5, <3>1, <4>1, <4>3
    <3>2. CASE e.kind # "done"
      BY <1>4, <1>5, <3>2 DEF AnswerInv
    <3> QED
      BY <3>1, <3>2
  <2>3. ASSUME NEW n \in DOMAIN updates', updates'[n].kind = "done"
        PROVE  BoardAt(n, updates[n].swarm)'
    <3>1. n + 1 \in DOMAIN updates /\ updates'[n] = updates[n + 1] /\ n \in 0..len
      BY <1>2, <1>3
    <3>2. PICK s \in Swarms : s = updates[n + 1].swarm
      BY <3>1, UpdatesOf DEF Event
    <3>3. BoardAt(n + 1, s)
      BY <2>3, <3>1, <3>2 DEF AnswerInv
    <3>4. BoardAt(n, s)'
      BY <2>1, <3>1, <3>3
    <3> QED
      BY <3>1, <3>2, <3>4
  <2>4. ASSUME NEW s \in Swarms, K!Live(s)'
        PROVE  BoardAt(Len(updates), s)'
    <3>1. K!Live(s)
      BY <1>4, <2>4 DEF K!Live
    <3>2. BoardAt(len + 1, s)
      BY <1>2, <3>1 DEF AnswerInv
    <3>3. BoardAt(len, s)'
      BY <2>1, <3>2
    <3> QED
      BY <1>2, <3>3
  <2> QED
    BY <2>2, <2>3, <2>4 DEF AnswerInv
<1> QED
  BY <1>10, <1>12, <1>13

LEMMA CardsInit == Init => CardsInv
<1> SUFFICES ASSUME Init PROVE CardsInv
  OBVIOUS
<1>1. /\ plan = [s \in Swarms |-> <<>>] /\ reported = [s \in Swarms |-> <<>>]
      /\ updates = <<>> /\ shown = NoSwarm /\ cards = <<>> /\ answer = NoSwarm
  BY DEF Init, K!Init
<1>2. PlanInv /\ CardInv
  BY <1>1 DEF PlanInv, HasPlan, CardInv
<1>3. AnswerInv
  BY <1>1 DEF AnswerInv, K!Live
<1> QED
  BY <1>2, <1>3, CardTypesInit DEF CardsInv

LEMMA CardsStep ==
  ASSUME CardsInv, Next
  PROVE  CardsInv'
<1>1. CASE UNCHANGED cardVars
  BY <1>1 DEF cardVars, CardsInv, K!SwarmCardsTypeOK, PlanInv, HasPlan, AnnouncedOnce, RoleKnown,
              CardInv, Followed, AnswerInv, BoardAt, Announces, Tells, K!Live, K!Unambiguous, K!Workers
<1>2. CASE K!SwarmCardsNext
  BY <1>2, CardTypesStep, FoldCards, PlanReadyCards, SwarmSaysCards, ReportCards
     DEF CardsInv, K!SwarmCardsNext, K!Workers
<1> QED
  BY <1>1, <1>2 DEF Next

LEMMA CardsTold ==
  ASSUME CardsInv
  PROVE  K!CardsTellTheTruth
<1> SUFFICES ASSUME updates = <<>>, shown # NoSwarm
             PROVE  /\ \A n \in DOMAIN cards :
                         K!Unambiguous(cards[n].role) => cards[n].status = reported[shown][n]
                    /\ answer = NoSwarm \/ answer = shown \/ overlap
  BY DEF K!CardsTellTheTruth
<1>1. shown \in Swarms /\ DOMAIN cards = DOMAIN plan[shown]
      /\ \A n \in DOMAIN cards : cards[n].role = plan[shown][n]
  BY DEF CardsInv, K!SwarmCardsTypeOK, PlanInv, HasPlan
<1>2. ASSUME NEW n \in DOMAIN cards, K!Unambiguous(cards[n].role)
      PROVE  cards[n].status = reported[shown][n]
  <2>1. Followed(shown, n)
    BY <1>1, <1>2 DEF CardsInv, CardInv
  <2> QED
    BY <2>1 DEF Followed
<1>3. answer = NoSwarm \/ answer = shown \/ overlap
  BY DEF CardsInv, AnswerInv
<1> QED
  BY <1>2, <1>3

-----------------------------------------------------------------------------

ShownInv == WindowTypes /\ TabsInv /\ TransfersInv /\ CardsInv

LEMMA ShownInit == Init => ShownInv
  BY WindowTypesInit, TabsInit, TransfersInit, CardsInit DEF ShownInv

LEMMA ShownStep ==
  ASSUME ShownInv, Next
  PROVE  ShownInv'
  BY WindowTypesStep, TabsStep, TransfersStep, CardsStep DEF ShownInv

(* Once the WebView has nothing under way the downloads panel is right,    *)
(* and so are the active tab and the address bar unless the load asked for *)
(* last was refused, whatever loads overtook each other; and once the      *)
(* events of the swarms are folded the board has what its workers reported *)
(* and its own swarm's answer (app.rs, swarm.rs).                          *)
THEOREM DesktopShown == Spec => []ShownIsTrue
<1>1. ASSUME ShownInv, UNCHANGED vars
      PROVE  ShownInv'
  <2> USE DEF vars, windowVars, cardVars
  <2>1. WindowTypes'
    BY <1>1 DEF ShownInv, WindowTypes, TableTypes, BarTypes, WebviewTypes, LogTypes
  <2>2. TabsInv'
    BY <1>1 DEF ShownInv, TabsInv, Load, Idle, ShowsPage
  <2>3. TransfersInv'
    BY <1>1 DEF ShownInv, TransfersInv, Known, Single, ReportedOnce, ListedTruly, Begins, Ends,
                ItemOf
  <2>4. CardsInv'
    BY <1>1 DEF ShownInv, CardsInv, K!SwarmCardsTypeOK, PlanInv, HasPlan, AnnouncedOnce,
                RoleKnown, CardInv, Followed, AnswerInv, BoardAt, Announces, Tells, K!Live,
                K!Unambiguous, K!Workers
  <2> QED
    BY <2>1, <2>2, <2>3, <2>4 DEF ShownInv
<1>2. ShownInv => ShownIsTrue
  BY WindowTold, CardsTold DEF ShownInv, ShownIsTrue
<1> QED
  BY ShownInit, ShownStep, <1>1, <1>2, PTL DEF Spec
=============================================================================
