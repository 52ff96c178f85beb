------------------------------ MODULE Enrollment ------------------------------
(***************************************************************************)
(* What the management of a contest's participants promises: each          *)
(* operation happens at one moment, on the participants of that moment, as *)
(* a whole or not at all.  Nobody takes part twice, and records with a     *)
(* history stay.                                                           *)
(***************************************************************************)
EXTENDS Naturals, FiniteSets

CONSTANTS
  People,    \* registered users; one's name as a participant is the person
  Names,     \* names of participants
  Logins,    \* user names; numbers, in the order of a file
  Foreign,   \* user names taken by others than the contest's participants
  Ids,       \* keys of participants
  Absent,    \* no such participant
  NoLogin

Competitors ==
  [name : Names, members : SUBSET People, approved : BOOLEAN,
   username : Logins \cup {NoLogin}, password : BOOLEAN, claim : BOOLEAN]

VARIABLES
  table,     \* the participants, by key
  history    \* those with submissions or messages

Present(t) == {i \in Ids : t[i] # Absent}

New(name, members, approved) ==
  [name |-> name, members |-> members, approved |-> approved,
   username |-> NoLogin, password |-> FALSE, claim |-> FALSE]

Init == table = [i \in Ids |-> Absent] /\ history = {}

-----------------------------------------------------------------------------
(* One person or a team, none of whom takes part already.                  *)
Register(i) ==
  /\ i \in Present(table') \ Present(table)
  /\ \A j \in Present(table) : table[j].members \cap table'[i].members = {}
  /\ table' = [table EXCEPT ![i] = New(table'[i].name, table'[i].members, FALSE)]
  /\ UNCHANGED history

(* Everyone on a list that the table does not name, once.                  *)
Import ==
  /\ LET added == Present(table') \ Present(table)
     IN /\ table' = [i \in Ids |-> IF i \in added THEN New(table'[i].name, {}, TRUE) ELSE table[i]]
        /\ \A i \in added, j \in Present(table') : table'[i].name = table'[j].name => i = j
  /\ UNCHANGED history

(* Everyone who has no login gets one that nobody has.                     *)
AssignLogins ==
  /\ Present(table') = Present(table)
  /\ table' = [i \in Ids |-> IF i \in Present(table) /\ table[i].username = NoLogin
                             THEN [table[i] EXCEPT !.username = table'[i].username,
                                                   !.password = TRUE, !.claim = TRUE]
                             ELSE table[i]]
  /\ \A i, j \in Present(table') :
       /\ table'[i].username \in Logins \ Foreign
       /\ table'[i].username = table'[j].username => i = j
  /\ UNCHANGED history

RemoveLogins ==
  /\ table' = [i \in Ids |-> IF i \in Present(table)
                             THEN [table[i] EXCEPT !.username = NoLogin,
                                                   !.password = FALSE, !.claim = FALSE]
                             ELSE Absent]
  /\ UNCHANGED history

ApproveAll ==
  /\ table' = [i \in Ids |-> IF i \in Present(table)
                             THEN [table[i] EXCEPT !.approved = TRUE] ELSE Absent]
  /\ UNCHANGED history

(* A record's flag, and nothing else of it.                                *)
SetApproval(i, approved) ==
  /\ i \in Present(table)
  /\ table' = [table EXCEPT ![i].approved = approved]
  /\ UNCHANGED history

Delete(i) ==
  /\ i \in Present(table) \ history
  /\ table' = [table EXCEPT ![i] = Absent]
  /\ UNCHANGED history

DeleteWithoutHistory ==
  /\ table' = [i \in Ids |-> IF i \in history THEN table[i] ELSE Absent]
  /\ UNCHANGED history

Submit(i) ==
  /\ i \in Present(table)
  /\ history' = history \cup {i}
  /\ UNCHANGED table

Next ==
  /\ \/ Import \/ AssignLogins \/ RemoveLogins \/ ApproveAll \/ DeleteWithoutHistory
     \/ \E i \in Ids :
          \/ Register(i) \/ Delete(i) \/ Submit(i)
          \/ \E approved \in BOOLEAN : SetApproval(i, approved)
  /\ table' \in [Ids -> Competitors \cup {Absent}]

Spec == Init /\ [][Next]_<<table, history>>
=============================================================================
