----------------------------- MODULE Theme_proofs -----------------------------
(***************************************************************************)
(* Theorems about Theme, for any number of pages.  The four properties     *)
(* follow from one inductive invariant: controls can only be out of step   *)
(* on pages that are not completely parsed, and as long as the storage     *)
(* works it holds the latest choice.                                       *)
(***************************************************************************)
EXTENDS Theme, TLAPS

(* What makes the properties inductive.                                    *)
Loaded == \A p \in Pages : page[p].phase \in {"ready", "shown", "kept"} => page[p].parsed = 5
StoredIsLatest == access = "works" => latest = ValidTheme(stored)

Inv == TypeOK /\ Loaded /\ StoredIsLatest /\ LooksRight /\ ControlsAgree

-----------------------------------------------------------------------------
(* Applying a theme changes the look for sure, and the controls too if the *)
(* document is complete; it changes neither the phase nor the choice.      *)
LEMMA Applied ==
  ASSUME NEW pg \in PageStates, system \in Looks
  PROVE  /\ ApplyTheme(pg) \in PageStates
         /\ ApplyTheme(pg).phase = pg.phase
         /\ ApplyTheme(pg).parsed = pg.parsed
         /\ ApplyTheme(pg).theme = pg.theme
         /\ ApplyTheme(pg).applied = Look(pg.theme)
         /\ pg.parsed = 5 => /\ ApplyTheme(pg).label = pg.theme
                             /\ ApplyTheme(pg).pressed = {pg.theme}
                             /\ ApplyTheme(pg).sheets = Look(pg.theme)
<1>1. pg.theme \in Themes /\ Look(pg.theme) \in Looks
  BY DEF PageStates, Look, Themes, Looks
<1>2. ASSUME pg.parsed = 5 PROVE Has(pg, "toggle") /\ Has(pg, pg.theme) /\ Has(pg, "stylesheets")
  <2>1. /\ Parts[1] = "toggle" /\ Parts[2] = "light" /\ Parts[3] = "dark"
        /\ Parts[4] = "auto" /\ Parts[5] = "stylesheets"
    BY DEF Parts
  <2>2. 1 \in 1..pg.parsed /\ 2 \in 1..pg.parsed /\ 3 \in 1..pg.parsed
        /\ 4 \in 1..pg.parsed /\ 5 \in 1..pg.parsed
    BY <1>2
  <2> QED BY <1>1, <2>1, <2>2 DEF Has, Themes
<1> QED BY <1>1, <1>2 DEF ApplyTheme, PageStates

LEMMA ReadIsTheme == ReadTheme \in Themes
  BY DEF ReadTheme, ValidTheme, Themes

LEMMA ClosedIsState == Closed \in PageStates
  BY DEF Closed, PageStates, Themes, Looks

(* The page that a step sets, alone: what the invariant asks of it.        *)
Good(pg, p, due) ==
  /\ pg \in PageStates
  /\ pg.phase \in {"ready", "shown", "kept"} => pg.parsed = 5
  /\ pg.phase \in {"parsing", "ready", "shown"} =>
       pg.applied = Look(pg.theme) \/ (pg.theme = "auto" /\ p \in due)
  /\ pg.phase \in {"ready", "shown"} =>
       pg.label = pg.theme /\ pg.pressed = {pg.theme} /\ pg.sheets = pg.applied

(* The invariant is what it asks of each page and of the shared state.     *)
LEMMA InvIsGood ==
  Inv <=> /\ page = [p \in Pages |-> page[p]]
          /\ \A p \in Pages : Good(page[p], p, notify)
          /\ stored \in Entries /\ access \in {"works", "readonly", "denied"}
          /\ system \in Looks /\ notify \subseteq Pages /\ latest \in Themes
          /\ StoredIsLatest
  BY DEF Inv, TypeOK, Loaded, LooksRight, ControlsAgree, Good, Runs, Works

(* Applying a theme to a complete page, or in the head, makes it good.     *)
LEMMA AppliedIsGood ==
  ASSUME NEW pg \in PageStates, NEW p, NEW due, system \in Looks,
         pg.parsed = 5 \/ pg.phase = "parsing"
  PROVE  Good(ApplyTheme(pg), p, due)
<1>1. PICK q : q = ApplyTheme(pg) OBVIOUS
<1> QED BY <1>1, Applied DEF Good

-----------------------------------------------------------------------------
LEMMA InvInit == Init => Inv
<1> SUFFICES ASSUME Init PROVE Inv
  OBVIOUS
<1>1. \A p \in Pages : Good(page[p], p, notify)
  BY ClosedIsState DEF Init, Good, Closed
<1>2. StoredIsLatest /\ latest \in Themes
  BY ReadIsTheme DEF Init, StoredIsLatest, ReadTheme
<1> QED BY <1>1, <1>2, InvIsGood DEF Init

(* A step that sets one page to a good one and leaves the rest alone.      *)
LEMMA OnePage ==
  ASSUME Inv, NEW p \in Pages, NEW pg, Set(p, pg), system' = system,
         notify' = notify \/ notify' = notify \ {p},
         Good(pg, p, notify')
  PROVE  (/\ page = [q \in Pages |-> page[q]]
          /\ \A q \in Pages : Good(page[q], q, notify)
          /\ notify \subseteq Pages)'
<1>1. page' = [q \in Pages |-> IF q = p THEN pg ELSE page[q]]
  BY InvIsGood DEF Set
<1>2. ASSUME NEW q \in Pages PROVE Good(page'[q], q, notify')
  <2>1. CASE q = p
    BY <1>1, <2>1
  <2>2. CASE q # p
    <3>1. page'[q] = page[q] /\ (q \in notify => q \in notify')
      BY <1>1, <2>2
    <3> QED BY <3>1, InvIsGood DEF Good
  <2> QED BY <2>1, <2>2
<1>3. ASSUME NEW q \in Pages PROVE Good(page[q], q, notify)'
  BY <1>2, <1>3 DEF Good, Look
<1>4. notify' \subseteq Pages
  BY InvIsGood
<1> QED BY <1>1, <1>3, <1>4

(* The invariant after a step, of its parts.                               *)
LEMMA InvAgain ==
  ASSUME (/\ page = [q \in Pages |-> page[q]]
          /\ \A q \in Pages : Good(page[q], q, notify)
          /\ notify \subseteq Pages)',
         (stored \in Entries /\ latest \in Themes /\ StoredIsLatest)',
         access' \in {"works", "readonly", "denied"}, system' \in Looks
  PROVE  Inv'
  BY DEF Inv, TypeOK, Loaded, LooksRight, ControlsAgree, Good, Runs, Works

LEMMA InvNext == Inv /\ [Next]_vars => Inv'
<1> SUFFICES ASSUME Inv, [Next]_vars PROVE Inv'
  OBVIOUS
<1> USE InvIsGood
<1>1. ASSUME NEW p \in Pages, Open(p) PROVE Inv'
  <2> DEFINE head == [Closed EXCEPT !.phase = "parsing", !.theme = ReadTheme]
  <2>1. head \in PageStates /\ head.phase = "parsing"
    BY ClosedIsState, ReadIsTheme DEF PageStates, Closed
  <2>2. Good(ApplyTheme(head), p, notify')
    BY <2>1, AppliedIsGood
  <2> QED BY <1>1, <2>2, OnePage, InvAgain DEF Open, StoredIsLatest, ValidTheme
<1>2. ASSUME NEW p \in Pages, Parse(p) PROVE Inv'
  <2> DEFINE next == [page[p] EXCEPT !.parsed = @ + 1]
  <2>1. page[p] \in PageStates /\ page[p].phase = "parsing" /\ page[p].parsed \in 0..4
    BY <1>2 DEF Parse, Good, PageStates
  <2>2. Good(next, p, notify)
    BY <1>2, <2>1 DEF Parse, Good, PageStates, Look
  <2> QED BY <1>2, <2>2, OnePage, InvAgain DEF Parse, StoredIsLatest, ValidTheme
<1>3. ASSUME NEW p \in Pages, ContentLoaded(p) PROVE Inv'
  <2> DEFINE next == [page[p] EXCEPT !.phase = "ready"]
  <2>1. next \in PageStates /\ next.parsed = 5
    BY <1>3 DEF ContentLoaded, Good, PageStates
  <2>2. Good(ApplyTheme(next), p, notify)
    BY <2>1, AppliedIsGood
  <2> QED BY <1>3, <2>2, OnePage, InvAgain DEF ContentLoaded, StoredIsLatest, ValidTheme
<1>4. ASSUME NEW p \in Pages, Show(p) PROVE Inv'
  <2> DEFINE next == [page[p] EXCEPT !.phase = "shown", !.theme = ReadTheme]
  <2>1. next \in PageStates /\ next.parsed = 5
    BY <1>4, ReadIsTheme DEF Show, Good, PageStates
  <2>2. Good(ApplyTheme(next), p, notify)
    BY <2>1, AppliedIsGood
  <2> QED BY <1>4, <2>2, OnePage, InvAgain DEF Show, StoredIsLatest, ValidTheme
<1>5. ASSUME NEW p \in Pages, Leave(p) PROVE Inv'
  <2> DEFINE next == [page[p] EXCEPT !.phase = "kept"]
  <2>1. Good(next, p, notify)
    BY <1>5 DEF Leave, Good, PageStates
  <2> QED BY <1>5, <2>1, OnePage, InvAgain DEF Leave, StoredIsLatest, ValidTheme
<1>6. ASSUME NEW p \in Pages, Close(p) PROVE Inv'
  <2>1. Good(Closed, p, notify')
    BY <1>6, ClosedIsState DEF Close, Good, Closed
  <2> QED BY <1>6, <2>1, OnePage, InvAgain DEF Close, StoredIsLatest, ValidTheme
<1>7. ASSUME NEW p \in Pages, Change(p) PROVE Inv'
  <2>1. CASE Follows(p)
    <3>1. page[p] \in PageStates /\ (page[p].parsed = 5 \/ page[p].phase = "parsing")
      BY <1>7 DEF Change, Good, Runs
    <3>2. Good(ApplyTheme(page[p]), p, notify')
      BY <1>7, <3>1, AppliedIsGood DEF Change
    <3> QED BY <1>7, <2>1, <3>2, OnePage, InvAgain DEF Change, Set, StoredIsLatest, ValidTheme
  <2>2. CASE ~Follows(p)
    <3>1. Good(page[p], p, notify')
      BY <1>7, <2>2 DEF Change, Good, Follows
    <3>2. Set(p, page[p])
      BY <1>7, <2>2 DEF Change, Set
    <3> QED BY <1>7, <3>1, <3>2, OnePage, InvAgain DEF Change, StoredIsLatest, ValidTheme
  <2> QED BY <2>1, <2>2
<1>8. ASSUME NEW p \in Pages, NEW value \in Themes, Choose(p, value) PROVE Inv'
  <2> DEFINE next == [page[p] EXCEPT !.theme = ValidTheme(value)]
  <2>1. next \in PageStates /\ next.parsed = 5
    BY <1>8 DEF Choose, Works, Good, PageStates, ValidTheme
  <2>2. Good(ApplyTheme(next), p, notify)
    BY <2>1, AppliedIsGood
  <2>3. (stored \in Entries /\ latest \in Themes /\ StoredIsLatest)'
    BY <1>8 DEF Choose, Stored, Entries, StoredIsLatest, ValidTheme
  <2> QED BY <1>8, <2>2, <2>3, OnePage, InvAgain DEF Choose
<1>9. ASSUME SystemChanges PROVE Inv'
  <2>1. ASSUME NEW q \in Pages PROVE Good(page[q], q, notify)'
    BY <1>9 DEF SystemChanges, Good, Look
  <2> QED BY <1>9, <2>1, InvAgain DEF SystemChanges, StoredIsLatest, ValidTheme
<1>10. CASE UNCHANGED vars
  BY <1>10, InvAgain DEF vars, Good, Look, StoredIsLatest, ValidTheme
<1> QED
  BY <1>1, <1>2, <1>3, <1>4, <1>5, <1>6, <1>7, <1>8, <1>9, <1>10 DEF Next

-----------------------------------------------------------------------------
(* The invariant holds in every reachable state.                           *)
THEOREM AlwaysInv == Spec => []Inv
  BY InvInit, InvNext, PTL DEF Spec

(* Type correctness, of which the interesting part is that no entry of the *)
(* storage, whatever another script or version left there, becomes a theme *)
(* for which the script would find no button.                              *)
THEOREM TypeCorrect == Spec => []TypeOK
  BY AlwaysInv, PTL DEF Inv

(* A running page looks as its choice says, or is about to be told that    *)
(* the system it follows has changed.                                      *)
THEOREM PagesLookRight == Spec => []LooksRight
  BY AlwaysInv, PTL DEF Inv

(* Where the controls work, they and the stylesheets agree with the choice.*)
THEOREM ControlsTellTheChoice == Spec => []ControlsAgree
  BY AlwaysInv, PTL DEF Inv

(* With a working storage the latest choice of any page is what pages take *)
(* when they are opened or shown, and they take nothing else.              *)
THEOREM ChoicesAreKept == Spec => KeepsChoice
<1>1. Inv /\ [Next]_vars => [access = "works" => \A p \in Pages : TakesLatest(p)]_vars
  <2> SUFFICES ASSUME Inv, Next, access = "works", NEW p \in Pages PROVE TakesLatest(p)
    BY DEF vars, TakesLatest
  <2> USE InvIsGood
  <2>1. ReadTheme = latest
    BY DEF StoredIsLatest, ReadTheme
  <2>2. ASSUME NEW q \in Pages, NEW pg, Set(q, pg),
               \/ pg.theme = page[q].theme /\ pg.phase \in {page[q].phase, "ready", "kept"}
               \/ pg.theme = latest'
               \/ pg.phase = "closed"
        PROVE  TakesLatest(p)
    BY <2>2 DEF Set, TakesLatest
  <2>3. ASSUME NEW q \in Pages, Open(q) PROVE TakesLatest(p)
    <3> DEFINE head == [Closed EXCEPT !.phase = "parsing", !.theme = ReadTheme]
    <3>1. head \in PageStates /\ head.theme = ReadTheme
      BY ClosedIsState, ReadIsTheme DEF PageStates, Closed
    <3> QED BY <2>1, <2>2, <2>3, <3>1, Applied DEF Open
  <2>4. ASSUME NEW q \in Pages, Show(q) PROVE TakesLatest(p)
    <3> DEFINE next == [page[q] EXCEPT !.phase = "shown", !.theme = ReadTheme]
    <3>1. next \in PageStates /\ next.theme = ReadTheme
      BY ReadIsTheme DEF Good, PageStates
    <3> QED BY <2>1, <2>2, <2>4, <3>1, Applied DEF Show
  <2>5. ASSUME NEW q \in Pages, NEW value \in Themes, Choose(q, value) PROVE TakesLatest(p)
    <3> DEFINE next == [page[q] EXCEPT !.theme = ValidTheme(value)]
    <3>1. next \in PageStates /\ next.theme = value
      BY DEF Good, PageStates, ValidTheme
    <3> QED BY <2>2, <2>5, <3>1, Applied DEF Choose
  <2>6. ASSUME NEW q \in Pages, ContentLoaded(q) PROVE TakesLatest(p)
    <3> DEFINE next == [page[q] EXCEPT !.phase = "ready"]
    <3>1. next \in PageStates /\ next.theme = page[q].theme /\ next.phase = "ready"
      BY DEF Good, PageStates
    <3> QED BY <2>2, <2>6, <3>1, Applied DEF ContentLoaded
  <2>7. ASSUME NEW q \in Pages, Change(q) PROVE TakesLatest(p)
    <3>1. page[q] \in PageStates
      BY DEF Good
    <3>2. Set(q, ApplyTheme(page[q])) \/ page' = page
      BY <2>7 DEF Change, Set
    <3> QED BY <2>2, <3>1, <3>2, Applied DEF TakesLatest
  <2>8. ASSUME NEW q \in Pages, Parse(q) \/ Leave(q) PROVE TakesLatest(p)
    <3>1. page[q] \in PageStates
      BY DEF Good
    <3> QED BY <2>2, <2>8, <3>1 DEF Parse, Leave, PageStates
  <2>9. ASSUME NEW q \in Pages, Close(q) PROVE TakesLatest(p)
    BY <2>2, <2>9 DEF Close, Closed
  <2>10. ASSUME SystemChanges PROVE TakesLatest(p)
    BY <2>10 DEF SystemChanges, TakesLatest
  <2> QED BY <2>3, <2>4, <2>5, <2>6, <2>7, <2>8, <2>9, <2>10 DEF Next
<1> QED BY <1>1, AlwaysInv, PTL DEF Spec, KeepsChoice
=============================================================================
