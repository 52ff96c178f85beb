-------------------------------- MODULE Theme --------------------------------
(***************************************************************************)
(* The theme of the site's pages (js/site.js): light, dark or the          *)
(* system's.  Every open page has its own copy of the choice, the look of  *)
(* its document, and controls that say what is chosen; the pages share     *)
(* nothing but the browser's storage, which may refuse to work.  The       *)
(* script runs before the document is parsed, and again on every change    *)
(* of the system's theme, on DOMContentLoaded, on each pageshow (the first *)
(* one, and each return of a page the browser kept) and on clicks.         *)
(***************************************************************************)
EXTENDS Naturals

CONSTANTS
  Pages,     \* tabs and windows of one browser
  Nothing    \* no entry in the storage, no label yet

Themes == {"light", "dark", "auto"}
Looks == {"light", "dark"}
Entries == Themes \cup {"unknown", Nothing}

ASSUME NothingAssumption == Nothing \notin Themes \cup {"unknown"}

VARIABLES
  page,     \* the script's theme and what the document shows, for each page
  stored,   \* localStorage's entry "theme"
  access,   \* "works", "readonly" (setItem throws) or "denied" (both throw)
  system,   \* the look the system prefers
  notify,   \* pages whose event "change" of the system's theme is due
  latest    \* history: the last choice made on any page

vars == <<page, stored, access, system, notify, latest>>

(* The parts of the document that the script touches, in document order:   *)
(* the preferences of every page, and the stylesheets of a page of code.   *)
Parts == <<"toggle", "light", "dark", "auto", "stylesheets">>

PageStates ==
  [phase : {"closed", "parsing", "ready", "shown", "kept"}, parsed : 0..5,
   theme : Themes, applied : Looks, label : Themes \cup {Nothing},
   pressed : SUBSET Themes, sheets : Looks \cup {Nothing}]

Closed == [phase |-> "closed", parsed |-> 0, theme |-> "auto", applied |-> "light",
           label |-> Nothing, pressed |-> {}, sheets |-> Nothing]

(* A page being parsed, ready (its controls work), or shown; "kept" is a   *)
(* page left by the user that the browser keeps to show it again.          *)
Runs(p) == page[p].phase \in {"parsing", "ready", "shown"}
Works(p) == page[p].phase \in {"ready", "shown"}

TypeOK ==
  /\ page \in [Pages -> PageStates]
  /\ stored \in Entries
  /\ access \in {"works", "readonly", "denied"}
  /\ system \in Looks
  /\ notify \subseteq Pages
  /\ latest \in Themes

-----------------------------------------------------------------------------
(* Variants with a plausible mistake stand before the definitions they     *)
(* replace in the project's mutation runs, named for the mistake.          *)

ValidThemeOrStored(value) == IF value # Nothing THEN value ELSE "auto"
ValidTheme(value) == IF value \in Themes THEN value ELSE "auto"

ReadTheme == IF access = "denied" THEN "auto" ELSE ValidTheme(stored)

Look(theme) == IF theme = "auto" THEN system ELSE theme

Has(pg, part) == \E i \in 1..pg.parsed : Parts[i] = part

ApplyThemeIfNew(pg) ==
  IF pg.applied = Look(pg.theme) /\ pg.label # Nothing THEN pg
  ELSE [pg EXCEPT !.applied = Look(pg.theme),
                  !.sheets = IF Has(pg, "stylesheets") THEN Look(pg.theme) ELSE @,
                  !.label = IF Has(pg, "toggle") /\ Has(pg, pg.theme) THEN pg.theme ELSE @,
                  !.pressed = IF Has(pg, "toggle") /\ Has(pg, pg.theme) THEN {pg.theme} ELSE @]

(* The document's look always changes.  The controls are left alone if     *)
(* the toggle is not parsed yet; if only the chosen button is missing, the *)
(* script throws, and they are left alone too.                             *)
ApplyTheme(pg) ==
  LET look == Look(pg.theme)
      labelled == Has(pg, "toggle") /\ Has(pg, pg.theme)
  IN [pg EXCEPT !.applied = look,
                !.sheets = IF Has(pg, "stylesheets") THEN look ELSE @,
                !.label = IF labelled THEN pg.theme ELSE @,
                !.pressed = IF labelled THEN {pg.theme} ELSE @]

Init ==
  /\ page = [p \in Pages |-> Closed]
  /\ stored \in Entries
  /\ access \in {"works", "readonly", "denied"}
  /\ system \in Looks
  /\ notify = {}
  /\ latest = ReadTheme

-----------------------------------------------------------------------------
(***************************************************************************)
(* A page's life.                                                          *)
(***************************************************************************)
Set(p, pg) == page' = [page EXCEPT ![p] = pg]

(* The script runs in the head.                                            *)
Open(p) ==
  /\ page[p].phase = "closed"
  /\ Set(p, ApplyTheme([Closed EXCEPT !.phase = "parsing", !.theme = ReadTheme]))
  /\ notify' = notify \ {p}
  /\ UNCHANGED <<stored, access, system, latest>>

Parse(p) ==
  /\ page[p].phase = "parsing" /\ page[p].parsed < 5
  /\ Set(p, [page[p] EXCEPT !.parsed = @ + 1])
  /\ UNCHANGED <<stored, access, system, notify, latest>>

ContentLoaded(p) ==
  /\ page[p].phase = "parsing" /\ page[p].parsed = 5
  /\ Set(p, ApplyTheme([page[p] EXCEPT !.phase = "ready"]))
  /\ UNCHANGED <<stored, access, system, notify, latest>>

(* The event pageshow: after loading, and when a kept page is shown again. *)
Show(p) ==
  /\ page[p].phase \in {"ready", "kept"}
  /\ Set(p, ApplyTheme([page[p] EXCEPT !.phase = "shown", !.theme = ReadTheme]))
  /\ UNCHANGED <<stored, access, system, notify, latest>>

Leave(p) ==
  /\ page[p].phase = "shown"
  /\ Set(p, [page[p] EXCEPT !.phase = "kept"])
  /\ UNCHANGED <<stored, access, system, notify, latest>>

Close(p) ==
  /\ page[p].phase # "closed"
  /\ Set(p, Closed)
  /\ notify' = notify \ {p}
  /\ UNCHANGED <<stored, access, system, latest>>

-----------------------------------------------------------------------------
(***************************************************************************)
(* Choices of the user and of the system.                                  *)
(***************************************************************************)
StoredUnlessAuto(value) == IF access = "works" /\ value # "auto" THEN value ELSE stored
Stored(value) == IF access = "works" THEN value ELSE stored

(* A click on one of the buttons.                                          *)
Choose(p, value) ==
  /\ Works(p)
  /\ stored' = Stored(value)
  /\ Set(p, ApplyTheme([page[p] EXCEPT !.theme = ValidTheme(value)]))
  /\ latest' = value
  /\ UNCHANGED <<access, system, notify>>

SystemChanges ==
  /\ system' \in Looks \ {system}
  /\ notify' = {p \in Pages : page[p].phase # "closed"}
  /\ UNCHANGED <<page, stored, access, latest>>

FollowsStored(p) == stored = "auto"
Follows(p) == page[p].theme = "auto"

(* The event "change" of the system's theme; a kept page gets it later.    *)
Change(p) ==
  /\ p \in notify /\ Runs(p)
  /\ notify' = notify \ {p}
  /\ page' = IF Follows(p) THEN [page EXCEPT ![p] = ApplyTheme(page[p])] ELSE page
  /\ UNCHANGED <<stored, access, system, latest>>

Next ==
  \/ \E p \in Pages :
       \/ Open(p) \/ Parse(p) \/ ContentLoaded(p) \/ Show(p) \/ Leave(p) \/ Close(p)
       \/ Change(p)
       \/ \E value \in Themes : Choose(p, value)
  \/ SystemChanges

Spec == Init /\ [][Next]_vars

-----------------------------------------------------------------------------
(***************************************************************************)
(* Correctness.                                                            *)
(***************************************************************************)

(* From its first line on, whatever was clicked, stored or changed in the  *)
(* meantime, a page looks as its choice says; a page that follows the      *)
(* system may lag behind it only until the system's change is reported.    *)
LooksRight ==
  \A p \in Pages : Runs(p) =>
    \/ page[p].applied = Look(page[p].theme)
    \/ page[p].theme = "auto" /\ p \in notify

(* On a page whose controls work, label, icon and the one pressed button   *)
(* name the page's choice, and its stylesheets match its look.             *)
ControlsAgree ==
  \A p \in Pages : Works(p) =>
    /\ page[p].label = page[p].theme /\ page[p].pressed = {page[p].theme}
    /\ page[p].sheets = page[p].applied

(* With a working storage the user's last choice on any page is what a     *)
(* page takes when it is opened or shown again, and a page never changes   *)
(* its choice to anything else.                                            *)
TakesLatest(p) ==
  /\ page'[p].phase # "closed"
  /\ \/ page'[p].theme # page[p].theme
     \/ page[p].phase # page'[p].phase /\ page'[p].phase \in {"parsing", "shown"}
  => page'[p].theme = latest'
KeepsChoice == [][access = "works" => \A p \in Pages : TakesLatest(p)]_vars
=============================================================================
