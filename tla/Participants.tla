----------------------------- MODULE Participants -----------------------------
(***************************************************************************)
(* The participants of a contest (CompetitorManagementService).  Most      *)
(* operations are serializable transactions: what they read stays locked,  *)
(* each SaveChanges waits until nobody else has read, and an error, a      *)
(* cancellation or the choice as a deadlock's victim undoes all of it.     *)
(* Changing one participant's flags and deleting one participant are two   *)
(* statements without a transaction: a read, and a save that the stamp of  *)
(* the record and the foreign keys of the database may refuse.             *)
(***************************************************************************)
EXTENDS Naturals, FiniteSets, FiniteSetsExt

CONSTANTS
  Requests,   \* scopes of web requests, used again and again
  People, Names, Logins, Foreign, Ids, Absent, NoLogin,
  Teams,      \* the known members of the teams that may be registered
  Lists,      \* the names in the files of participants
  Files,      \* the logins in the files of logins
  Idle        \* no operation

VARIABLES
  acm,        \* Contest.IsAcm: teams instead of individuals
  ended,      \* now > Contest.EndTime
  table,      \* committed participants
  history,    \* those with submissions or messages
  op,         \* what each request is doing
  writer,     \* the request that has written in its transaction
  draft       \* participants as the writer sees them

vars == <<acm, ended, table, history, op, writer, draft>>

(* The one-step operations, and the data both modules talk about.          *)
Abstract == INSTANCE Enrollment
Competitors == Abstract!Competitors
Present(t) == Abstract!Present(t)
New(name, members, approved) == Abstract!New(name, members, approved)

ASSUME ParticipantsAssumption ==
  /\ People \subseteq Names /\ Logins \subseteq Nat /\ Foreign \subseteq Logins
  /\ IsFiniteSet(Ids) /\ NoLogin \notin Logins /\ Absent \notin Competitors
  /\ Teams \subseteq SUBSET People /\ Lists \subseteq SUBSET Names
  /\ Files \subseteq SUBSET Logins

(* Transactions, with what they have still to save and the logins they may *)
(* give; and operations without one.                                       *)
Kinds == {"register", "import", "assign", "remove", "approve", "cleanup"}
Items == [name : Names, members : SUBSET People]
Transactions ==
  [kind : {"register", "import"}, todo : SUBSET Items, logins : {{}}]
    \cup [kind : Kinds \ {"register", "import"}, todo : SUBSET Ids, logins : SUBSET Logins]
Operations ==
  Transactions \cup [kind : {"generate"}, count : Nat]
    \cup [kind : {"set", "delete"}, id : Ids, row : Competitors, current : BOOLEAN]

ASSUME IdleAssumption == Idle \notin Requests \cup Operations

TypeOK ==
  /\ acm \in BOOLEAN /\ ended \in BOOLEAN
  /\ table \in [Ids -> Competitors \cup {Absent}]
  /\ history \subseteq Present(table)
  /\ op \in [Requests -> Operations \cup {Idle}]
  /\ writer \in Requests \cup {Idle}
  /\ draft \in [Ids -> Competitors \cup {Absent}]
  /\ writer = Idle => draft = table

Init ==
  /\ acm \in BOOLEAN /\ ended = FALSE
  /\ table = [i \in Ids |-> Absent]
  /\ history = {}
  /\ op = [r \in Requests |-> Idle]
  /\ writer = Idle /\ draft = table

-----------------------------------------------------------------------------
(* Variants with a plausible mistake stand before the definitions they     *)
(* replace in the project's mutation runs, named for the mistake.          *)

(* Requests that hold the locks of what they have read.                    *)
InTransaction(r) == op[r] # Idle /\ op[r].kind \in Kinds

MayWriteIfUnwritten(r) == writer \in {Idle, r}
(* Reading waits for writers, the first write for all other readers.       *)
MayRead(r) == writer = Idle
MayWrite(r) == writer = r \/ \A q \in Requests \ {r} : ~InTransaction(q)

Begin(r, kind, todo, logins) ==
  /\ MayRead(r)
  /\ op' = [op EXCEPT ![r] = [kind |-> kind, todo |-> todo, logins |-> logins]]
  /\ UNCHANGED <<acm, ended, table, history, writer, draft>>

(* One person in an individual contest, or the known members of a team.    *)
BeginRegister(r, name, members) ==
  /\ op[r] = Idle /\ ~ended
  /\ IF acm THEN name \notin People /\ members \in Teams
     ELSE name \in People /\ members = {name}
  /\ \A i \in Present(table) : table[i].members \cap members = {}
  /\ Begin(r, "register", {[name |-> name, members |-> members]}, {})

NamedIn(t, name) == {i \in Present(t) : t[i].name = name}

BeginImport(r, names) ==
  /\ op[r] = Idle /\ ~acm /\ names # {}
  /\ \A name \in names : Cardinality(NamedIn(table, name)) < 2
  /\ Begin(r, "import",
           {[name |-> n, members |-> {}] : n \in {m \in names : NamedIn(table, m) = {}}}, {})

Unnamed(t) == {i \in Present(t) : t[i].username = NoLogin}
Taken(t) == {t[i].username : i \in Present(t)}

(* Logins from a file, less those in use in the contest.                   *)
ReadForLogins(r, logins) ==
  /\ Cardinality(logins \ Taken(table)) >= Cardinality(Unnamed(table))
  /\ Begin(r, "assign", Unnamed(table), logins \ Taken(table))

BeginAssign(r, logins) == op[r] = Idle /\ ReadForLogins(r, logins)

(* As many generated logins as there were participants a moment ago.       *)
BeginGenerate(r) ==
  /\ op[r] = Idle
  /\ op' = [op EXCEPT ![r] = [kind |-> "generate", count |-> Cardinality(Present(table))]]
  /\ UNCHANGED <<acm, ended, table, history, writer, draft>>

AssignGenerated(r) ==
  /\ op[r] # Idle /\ op[r].kind = "generate"
  /\ ReadForLogins(r, {l \in Logins : l <= op[r].count})

BeginRemove(r) == op[r] = Idle /\ Begin(r, "remove", Present(table), {})

BeginApproveAll(r) ==
  /\ op[r] = Idle
  /\ Begin(r, "approve", {i \in Present(table) : ~table[i].approved}, {})

BeginCleanup(r) ==
  /\ op[r] = Idle /\ ended
  /\ Begin(r, "cleanup", Present(table) \ history, {})

-----------------------------------------------------------------------------
(***************************************************************************)
(* The saves of a transaction.  A login is three of them, as is removing   *)
(* one: the user name, the password, the claim.                            *)
(***************************************************************************)
Write(r, t, todo, logins) ==
  /\ MayWrite(r)
  /\ writer' = r
  /\ draft' = t
  /\ op' = [op EXCEPT ![r].todo = todo, ![r].logins = logins]
  /\ UNCHANGED <<acm, ended, table, history>>

Create(r, item) ==
  /\ op[r].kind \in {"register", "import"}
  /\ \E i \in Ids \ Present(draft) :
       /\ \A q \in Requests : op[q] # Idle /\ op[q].kind \in {"set", "delete"} => op[q].id # i
       /\ Write(r, [draft EXCEPT ![i] = New(item.name, item.members, op[r].kind = "import")],
                op[r].todo \ {item}, {})

SaveLogin(r, i) ==
  /\ op[r].kind = "assign"
  /\ \/ /\ draft[i].username = NoLogin
        /\ LET login == Min(op[r].logins)
           IN /\ login \in op[r].logins \ Foreign
              /\ Write(r, [draft EXCEPT ![i].username = login], op[r].todo, op[r].logins \ {login})
     \/ /\ draft[i].username # NoLogin /\ ~draft[i].password
        /\ Write(r, [draft EXCEPT ![i].password = TRUE], op[r].todo, op[r].logins)
     \/ /\ draft[i].password /\ ~draft[i].claim
        /\ Write(r, [draft EXCEPT ![i].claim = TRUE], op[r].todo \ {i}, op[r].logins)

RemoveLogin(r, i) ==
  /\ op[r].kind = "remove"
  /\ \/ /\ draft[i].username # NoLogin
        /\ Write(r, [draft EXCEPT ![i].username = NoLogin], op[r].todo, {})
     \/ /\ draft[i].username = NoLogin /\ draft[i].password
        /\ Write(r, [draft EXCEPT ![i].password = FALSE], op[r].todo, {})
     \/ /\ draft[i].username = NoLogin /\ ~draft[i].password
        /\ Write(r, [draft EXCEPT ![i].claim = FALSE], op[r].todo \ {i}, {})

Approve(r, i) ==
  /\ op[r].kind = "approve"
  /\ Write(r, [draft EXCEPT ![i].approved = TRUE], op[r].todo \ {i}, {})

DeleteOne(r, i) ==
  /\ op[r].kind = "cleanup"
  /\ Write(r, [draft EXCEPT ![i] = Absent], op[r].todo \ {i}, {})

Save(r) ==
  /\ InTransaction(r)
  /\ \E item \in op[r].todo :
       \/ Create(r, item)
       \/ SaveLogin(r, item) \/ RemoveLogin(r, item)
       \/ Approve(r, item) \/ DeleteOne(r, item)

(* Every save of a record changes its stamp, so that what others have read *)
(* of it is no longer current.                                             *)
Outdated(ids) ==
  [q \in Requests |-> IF op[q] # Idle /\ op[q].kind \in {"set", "delete"} /\ op[q].id \in ids
                      THEN [op[q] EXCEPT !.current = FALSE] ELSE op[q]]

Commit(r) ==
  /\ InTransaction(r) /\ op[r].todo = {}
  /\ IF writer = r
     THEN /\ table' = draft
          /\ op' = [Outdated(IF op[r].kind = "remove" THEN Ids
                             ELSE {i \in Ids : draft[i] # table[i]}) EXCEPT ![r] = Idle]
          /\ writer' = Idle
          /\ UNCHANGED <<acm, ended, history, draft>>
     ELSE /\ op' = [op EXCEPT ![r] = Idle]
          /\ UNCHANGED <<acm, ended, table, history, writer, draft>>

SavesStay(r) == draft
UndoneBy(r) == table

(* An error of the database or of Identity, a cancellation, or a deadlock. *)
Fail(r) ==
  /\ op[r] # Idle
  /\ op' = [op EXCEPT ![r] = Idle]
  /\ table' = IF writer = r THEN UndoneBy(r) ELSE table
  /\ draft' = IF writer = r THEN UndoneBy(r) ELSE draft
  /\ writer' = IF writer = r THEN Idle ELSE writer
  /\ UNCHANGED <<acm, ended, history>>

-----------------------------------------------------------------------------
(***************************************************************************)
(* Without a transaction.                                                  *)
(***************************************************************************)
ReadOne(r, kind, i) ==
  /\ op[r] = Idle /\ table[i] # Absent
  /\ kind = "delete" => i \notin history
  /\ op' = [op EXCEPT ![r] = [kind |-> kind, id |-> i, row |-> table[i], current |-> TRUE]]
  /\ UNCHANGED <<acm, ended, table, history, writer, draft>>

StampIgnored(r) == table[op[r].id] # Absent
StampMatches(r) == op[r].current

WriteOne(r, row) ==
  /\ \A q \in Requests : ~InTransaction(q)
  /\ table' = [table EXCEPT ![op[r].id] = row]
  /\ draft' = table'
  /\ op' = [Outdated({op[r].id}) EXCEPT ![r] = Idle]
  /\ UNCHANGED <<acm, ended, history, writer>>

(* UpdateAsync: Identity saves every column of the record it has read, but *)
(* members and claims are tables of their own.                             *)
SetApproval(r, approved) ==
  /\ op[r] # Idle /\ op[r].kind = "set"
  /\ StampMatches(r)
  /\ WriteOne(r, [op[r].row EXCEPT !.approved = approved, !.claim = table[op[r].id].claim])

DeletableAlways(i) == TRUE
Deletable(i) == i \notin history

(* DeleteAsync: by foreign key, submissions and messages keep their author.*)
Delete(r) ==
  /\ op[r] # Idle /\ op[r].kind = "delete"
  /\ StampMatches(r)
  /\ Deletable(op[r].id)
  /\ WriteOne(r, Absent)

-----------------------------------------------------------------------------
(* A participant sends a first submission or message.  The foreign key is  *)
(* checked against a record that nobody is changing, and the deletion of   *)
(* all participants without submissions has locked who has none.           *)
Submit(i) ==
  /\ table[i] # Absent /\ i \notin history
  /\ writer = Idle /\ \A q \in Requests : ~(op[q] # Idle /\ op[q].kind = "cleanup")
  /\ history' = history \cup {i}
  /\ UNCHANGED <<acm, ended, table, op, writer, draft>>

End ==
  /\ ~ended /\ ended' = TRUE
  /\ UNCHANGED <<acm, table, history, op, writer, draft>>

Next ==
  \/ \E r \in Requests :
       \/ \E name \in Names, members \in SUBSET People : BeginRegister(r, name, members)
       \/ \E names \in Lists : BeginImport(r, names)
       \/ \E logins \in Files : BeginAssign(r, logins)
       \/ BeginGenerate(r) \/ AssignGenerated(r)
       \/ BeginRemove(r) \/ BeginApproveAll(r) \/ BeginCleanup(r)
       \/ Save(r) \/ Commit(r) \/ Fail(r)
       \/ \E i \in Ids, kind \in {"set", "delete"} : ReadOne(r, kind, i)
       \/ \E approved \in BOOLEAN : SetApproval(r, approved)
       \/ Delete(r)
  \/ \E i \in Ids : Submit(i)
  \/ End

Spec == Init /\ [][Next]_vars

-----------------------------------------------------------------------------
(***************************************************************************)
(* Correctness.                                                            *)
(***************************************************************************)

(* However requests interleave, nobody is a member of two participants of  *)
(* the contest, and no name is imported twice.                             *)
EnrolsOnce ==
  \A i, j \in Present(table) : i # j =>
    /\ table[i].members \cap table[j].members = {}
    /\ table[i].members = {} /\ table[j].members = {} /\ ~acm => table[i].name # table[j].name

(* A participant has user name, password and claim or none of them, and no *)
(* two have the same user name, whichever save failed or came in between.  *)
LoginsWhole ==
  /\ \A i \in Present(table) :
       /\ table[i].password = table[i].claim
       /\ table[i].password = (table[i].username # NoLogin)
  /\ \A i, j \in Present(table) :
       table[i].username = table[j].username /\ table[i].username # NoLogin => i = j

(* Each operation takes effect at one moment and on the participants of    *)
(* that moment; none with a submission or message is ever deleted.         *)
ImplementsEnrollment == Abstract!Spec
=============================================================================
