------------------------ MODULE RunnerRegistry_proofs ------------------------
(***************************************************************************)
(* What is proved about the registry, for any number of runners, calls and *)
(* faults.                                                                 *)
(***************************************************************************)
EXTENDS RunnerRegistry, TLAPS

(* Until a runner reconnects early, it has one call at most, and this call *)
(* is listed from Register to its end.                                     *)
OneCall ==
  ~late => \A c, d \in Connections :
    conn[c] # "unused" /\ conn[d] # "unused" /\ RunnerOf[c] = RunnerOf[d] => c = d
OpenIsListed ==
  ~late => \A c \in Connections : conn[c] = "open" => registry[RunnerOf[c]] = c

(* What an administrator has read is still true when it is saved.          *)
ReadIsComplete ==
  op # None /\ op.kind = "disable" /\ ~late => op.connected \subseteq op.compilators

Inv == TypeOK /\ ListedIsOpen /\ OneCall /\ OpenIsListed /\ ReadIsComplete

LEMMA InvInit == Init => Inv
<1>. SUFFICES ASSUME Init PROVE Inv
  OBVIOUS
<1>1. TypeOK
  BY RegistryAssumption DEF Init, TypeOK
<1>2. ListedIsOpen
  BY RegistryAssumption DEF Init, ListedIsOpen, Listed
<1>3. OneCall /\ OpenIsListed
  BY DEF Init, OneCall, OpenIsListed
<1>4. ReadIsComplete
  BY DEF Init, ReadIsComplete
<1>. QED
  BY <1>1, <1>2, <1>3, <1>4 DEF Inv

LEMMA OffersOK ==
  /\ OfferedByConnected \in SUBSET Compilators
  /\ Available \in SUBSET Compilators
  BY RegistryAssumption DEF OfferedByConnected, Available, Listed

LEMMA TypeStep == TypeOK /\ [Next]_vars => TypeOK'
<1>. SUFFICES ASSUME TypeOK, [Next]_vars PROVE TypeOK'
  OBVIOUS
<1>. USE RegistryAssumption DEF TypeOK, Key
<1>1. ASSUME NEW r \in Runners, NEW c \in Connections, Connect(r, c) PROVE TypeOK'
  BY <1>1 DEF Connect
<1>2. ASSUME NEW c \in Connections, Register(c) PROVE TypeOK'
  BY <1>2 DEF Register
<1>3. ASSUME NEW c \in Connections, Refuse(c) PROVE TypeOK'
  BY <1>3 DEF Refuse
<1>4. ASSUME NEW c \in Connections, Break(c) PROVE TypeOK'
  BY <1>4 DEF Break, Fault
<1>5. ASSUME NEW c \in Connections, SiteNotices(c) PROVE TypeOK'
  BY <1>5 DEF SiteNotices
<1>6. ASSUME NEW c \in Connections, Leave(c) PROVE TypeOK'
  BY <1>6 DEF Leave, Unregistered
<1>7. ASSUME NEW c \in Connections, BeginSelfTests(c) \/ FailWork(c) \/ Resume(c) PROVE TypeOK'
  BY <1>7 DEF BeginSelfTests, FailWork, Resume, Fault
<1>8. ASSUME NEW c \in Connections, NEW success \in BOOLEAN, EndSelfTests(c, success) PROVE TypeOK'
  BY <1>8 DEF EndSelfTests
<1>9. ASSUME NEW r \in Runners, RunnerNotices(r) PROVE TypeOK'
  BY <1>9 DEF RunnerNotices
<1>10. ASSUME NEW r \in Runners, BeginAdd(r) PROVE TypeOK'
  BY <1>10, OffersOK DEF BeginAdd, Operations
<1>11. CASE BeginDisable
  BY <1>11, OffersOK DEF BeginDisable, Operations
<1>12. CASE Save
  <2>1. enabled' \subseteq Compilators
    BY <1>12 DEF Save, Operations
  <2>. QED
    BY <1>12, <2>1 DEF Save
<1>13. CASE UNCHANGED vars
  BY <1>13 DEF vars
<1>. QED
  BY <1>1, <1>2, <1>3, <1>4, <1>5, <1>6, <1>7, <1>8, <1>9, <1>10, <1>11, <1>12, <1>13 DEF Next

(* The calls, the list and the history, which only five actions change.    *)
LEMMA ListStep ==
  ASSUME Inv, [Next]_vars
  PROVE  ListedIsOpen' /\ OneCall' /\ OpenIsListed'
<1>. USE RegistryAssumption
     DEF Inv, TypeOK, ListedIsOpen, Listed, OneCall, OpenIsListed, Key
<1>1. ASSUME NEW r \in Runners, NEW c \in Connections, Connect(r, c)
      PROVE  ListedIsOpen' /\ OneCall' /\ OpenIsListed'
  <2>1. ListedIsOpen'
    BY <1>1 DEF Connect
  <2>2. OneCall'
    BY <1>1 DEF Connect
  <2>3. OpenIsListed'
    BY <1>1 DEF Connect
  <2>. QED
    BY <2>1, <2>2, <2>3
<1>2. ASSUME NEW c \in Connections, Register(c)
      PROVE  ListedIsOpen' /\ OneCall' /\ OpenIsListed'
  BY <1>2 DEF Register
<1>3. ASSUME NEW c \in Connections, Refuse(c) \/ SiteNotices(c)
      PROVE  ListedIsOpen' /\ OneCall' /\ OpenIsListed'
  BY <1>3 DEF Refuse, SiteNotices
<1>4. ASSUME NEW c \in Connections, Leave(c)
      PROVE  ListedIsOpen' /\ OneCall' /\ OpenIsListed'
  BY <1>4 DEF Leave, Unregistered
<1>5. CASE UNCHANGED <<conn, registry, late>>
  BY <1>5
<1>6. \/ UNCHANGED <<conn, registry, late>>
      \/ \E r \in Runners, c \in Connections : Connect(r, c)
      \/ \E c \in Connections : Register(c) \/ Refuse(c) \/ SiteNotices(c) \/ Leave(c)
  BY DEF Next, vars, Break, BeginSelfTests, EndSelfTests, FailWork, Resume, RunnerNotices,
         BeginAdd, BeginDisable, Save
<1>. QED
  BY <1>1, <1>2, <1>3, <1>4, <1>5, <1>6

(* An administrator waits until the tests of all that are listed are over, *)
(* so whoever is connected and has not failed offers what is available.    *)
LEMMA SettledIsComplete ==
  ASSUME Inv, Settled, ~late
  PROVE  OfferedByConnected \subseteq Available
<1>1. ASSUME NEW c \in Connections, Connected(c), status[c] # "failed"
      PROVE  c \in Listed /\ status[c] = "success"
  <2>1. c \in Listed
    BY <1>1, RegistryAssumption DEF Inv, OpenIsListed, Connected, Listed
  <2>. QED
    BY <1>1, <2>1 DEF Settled, Inv, TypeOK
<1>. QED
  BY <1>1 DEF OfferedByConnected, Available

LEMMA ReadStep ==
  ASSUME Inv, [Next]_vars
  PROVE  ReadIsComplete'
<1>1. late => late'
  BY DEF Inv, TypeOK, Next, vars, Connect, Register, Refuse, Break, SiteNotices, Leave,
         BeginSelfTests, EndSelfTests, FailWork, Resume, RunnerNotices, BeginAdd,
         BeginDisable, Save
<1>2. CASE BeginDisable
  BY <1>2, SettledIsComplete DEF BeginDisable, ReadIsComplete
<1>3. CASE Save \/ \E r \in Runners : BeginAdd(r)
  BY <1>3 DEF Save, BeginAdd, ReadIsComplete
<1>4. CASE UNCHANGED op
  BY <1>1, <1>4 DEF Inv, ReadIsComplete
<1>. QED
  BY <1>2, <1>3, <1>4
  DEF Next, vars, Connect, Register, Refuse, Break, SiteNotices, Leave,
      BeginSelfTests, EndSelfTests, FailWork, Resume, RunnerNotices

LEMMA AlwaysInv == Spec => []Inv
<1>1. Inv /\ [Next]_vars => Inv'
  BY TypeStep, ListStep, ReadStep DEF Inv
<1>. QED
  BY InvInit, <1>1, PTL DEF Spec

(* Every variable keeps its type, and an id lists calls of its own runner. *)
THEOREM TypeCorrect == Spec => []TypeOK
  BY AlwaysInv, PTL DEF Inv

(* No listed checker belongs to a call that has ended.                     *)
THEOREM ListedCallsAreOpen == Spec => []ListedIsOpen
  BY AlwaysInv, PTL DEF Inv

(* As long as nobody has reconnected early, connected runners are listed.  *)
THEOREM ConnectedAreListed == Spec => []ConnectedIsListed
<1>1. Inv => ConnectedIsListed
  BY DEF Inv, OpenIsListed, ConnectedIsListed, Connected
<1>. QED
  BY AlwaysInv, <1>1, PTL

(* As long as nobody has reconnected early, disabling compilers without a  *)
(* runner spares those of every connected runner that may still offer them.*)
THEOREM DisablingSparesConnected == Spec => []DisableSparesListed
<1>1. Inv => DisableSparesListed
  BY DEF Inv, ReadIsComplete, DisableSparesListed, DisableSparesConnected
<1>. QED
  BY AlwaysInv, <1>1, PTL
==============================================================================
