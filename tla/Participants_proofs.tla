------------------------- MODULE Participants_proofs -------------------------
(***************************************************************************)
(* What is proved about the participants of a contest, for any number of   *)
(* requests, people and participants.  The heart of it is what each        *)
(* transaction has done so far with the table it has read (Doing): nobody  *)
(* else changes the table until its end, so that the commit is one step    *)
(* of the abstract module.                                                 *)
(***************************************************************************)
EXTENDS Participants, FiniteSetTheorems, TLAPS

USE DEF Present, Abstract!Present, New, Abstract!New

(***************************************************************************)
(* Work in progress: of an operation o in a contest that is acm or not, on *)
(* the table t, with draft d.                                              *)
(***************************************************************************)
Registering(o, a, t, d) ==
  /\ o.todo # {} => d = t
  /\ \A x, y \in o.todo : x = y
  /\ \A item \in o.todo : /\ a \/ item.members # {}
                          /\ \A i \in Present(t) : t[i].members \cap item.members = {}
  /\ o.todo = {} =>
       \E i \in Ids \ Present(t), item \in Items :
         /\ d = [t EXCEPT ![i] = New(item.name, item.members, FALSE)]
         /\ a \/ item.members # {}
         /\ \A j \in Present(t) : t[j].members \cap item.members = {}

Importing(o, a, t, d) ==
  /\ ~a
  /\ \A i \in Ids : d[i] # t[i] =>
       /\ t[i] = Absent
       /\ d[i] = New(d[i].name, {}, TRUE)
       /\ \A j \in Present(d) : d[i].name = d[j].name => i = j
  /\ \A item \in o.todo : item.members = {} /\ \A i \in Present(d) : d[i].name # item.name

(* Record x with another login.                                            *)
WithLogin(x, u, p, c) ==
  [name |-> x.name, members |-> x.members, approved |-> x.approved,
   username |-> u, password |-> p, claim |-> c]

(* A login in the making, and one that is there.                           *)
Assigning(o, t, d) ==
  /\ o.todo \subseteq Ids /\ Present(d) = Present(t)
  /\ \A i \in Ids :
       IF t[i] = Absent \/ t[i].username # NoLogin THEN d[i] = t[i] /\ i \notin o.todo
       ELSE IF i \in o.todo
            THEN /\ d[i] = WithLogin(t[i], d[i].username, d[i].password, t[i].claim)
                 /\ d[i].password => d[i].username # NoLogin
            ELSE /\ d[i] = WithLogin(t[i], d[i].username, TRUE, TRUE)
                 /\ d[i].username # NoLogin
  /\ \A i \in Present(d) : d[i].username \notin o.logins /\ d[i].username \notin Foreign
  /\ \A i, j \in Present(d) : d[i].username = d[j].username /\ d[i].username # NoLogin => i = j

Removing(o, t, d) ==
  /\ o.todo \subseteq Present(t) /\ Present(d) = Present(t)
  /\ \A i \in Ids :
       IF t[i] = Absent THEN d[i] = Absent
       ELSE IF i \in o.todo
            THEN d[i] = WithLogin(t[i], d[i].username, d[i].password, t[i].claim)
            ELSE d[i] = WithLogin(t[i], NoLogin, FALSE, FALSE)

Approved(x) == [x EXCEPT !.approved = TRUE]

Approving(o, t, d) ==
  /\ o.todo \subseteq Present(t)
  /\ \A i \in Ids :
       d[i] = IF t[i] = Absent \/ i \in o.todo THEN t[i] ELSE Approved(t[i])

Cleaning(o, t, d, h) ==
  /\ o.todo \subseteq Present(t) /\ o.todo \cap h = {}
  /\ \A i \in Ids : d[i] = IF i \in h \cup o.todo THEN t[i] ELSE Absent

Doing(o, a, t, d, h) ==
  /\ o.kind = "register" => Registering(o, a, t, d)
  /\ o.kind = "import" => Importing(o, a, t, d)
  /\ o.kind = "assign" => Assigning(o, t, d)
  /\ o.kind = "remove" => Removing(o, t, d)
  /\ o.kind = "approve" => Approving(o, t, d)
  /\ o.kind = "cleanup" => Cleaning(o, t, d, h)

(***************************************************************************)
(* The invariant.                                                          *)
(***************************************************************************)
Locks ==
  writer # Idle => InTransaction(writer) /\ \A q \in Requests \ {writer} : ~InTransaction(q)

Rows ==
  \A r \in Requests : op[r] # Idle /\ op[r].kind \in {"set", "delete"} /\ op[r].current =>
    op[r].row = table[op[r].id]

Progress ==
  \A r \in Requests : InTransaction(r) => Doing(op[r], acm, table, draft, history)

(* Of a table t of a contest that is acm or not.                           *)
EnrolledOnce(t, a) ==
  \A i, j \in Present(t) : i # j =>
    /\ t[i].members \cap t[j].members = {}
    /\ t[i].members = {} /\ t[j].members = {} /\ ~a => t[i].name # t[j].name

WholeLogins(t) ==
  /\ \A i \in Present(t) :
       /\ t[i].password = t[i].claim
       /\ t[i].password = (t[i].username # NoLogin)
       /\ t[i].username \notin Foreign
  /\ \A i, j \in Present(t) : t[i].username = t[j].username /\ t[i].username # NoLogin => i = j

Tables == EnrolledOnce(table, acm) /\ WholeLogins(table)

Inv == TypeOK /\ Locks /\ Rows /\ Progress /\ Tables

-----------------------------------------------------------------------------
(***************************************************************************)
(* The shape of records.                                                   *)
(***************************************************************************)
LEMMA CompetitorShape ==
  ASSUME NEW x \in Competitors
  PROVE  /\ x.name \in Names /\ x.members \in SUBSET People /\ x.approved \in BOOLEAN
         /\ x.username \in Logins \cup {NoLogin} /\ x.password \in BOOLEAN /\ x.claim \in BOOLEAN
         /\ x = [name |-> x.name, members |-> x.members, approved |-> x.approved,
                 username |-> x.username, password |-> x.password, claim |-> x.claim]
  BY DEF Competitors, Abstract!Competitors

LEMMA LoginFields ==
  ASSUME NEW x \in Competitors,
         NEW u \in Logins \cup {NoLogin}, NEW p \in BOOLEAN, NEW c \in BOOLEAN
  PROVE  /\ WithLogin(x, u, p, c) \in Competitors
         /\ WithLogin(x, u, p, c).name = x.name /\ WithLogin(x, u, p, c).members = x.members
         /\ WithLogin(x, u, p, c).approved = x.approved /\ WithLogin(x, u, p, c).username = u
         /\ WithLogin(x, u, p, c).password = p /\ WithLogin(x, u, p, c).claim = c
  BY DEF Competitors, Abstract!Competitors, WithLogin

LEMMA OwnLogin ==
  ASSUME NEW x \in Competitors
  PROVE  x = WithLogin(x, x.username, x.password, x.claim)
  BY DEF Competitors, Abstract!Competitors, WithLogin

LEMMA ApprovedIsCompetitor ==
  ASSUME NEW x \in Competitors
  PROVE  /\ Approved(x) \in Competitors
         /\ Approved(x).name = x.name /\ Approved(x).members = x.members
         /\ Approved(x).username = x.username /\ Approved(x).password = x.password
         /\ Approved(x).claim = x.claim
  BY DEF Competitors, Abstract!Competitors, Approved

(* One field of a record saved.                                            *)
Renamed(z, u) == [z EXCEPT !.username = u]
Locked(z, p) == [z EXCEPT !.password = p]
Claimed(z, c) == [z EXCEPT !.claim = c]

LEMMA FieldSaved ==
  ASSUME NEW x, NEW u, NEW p, NEW c, NEW v
  PROVE  /\ Renamed(WithLogin(x, u, p, c), v) = WithLogin(x, v, p, c)
         /\ Locked(WithLogin(x, u, p, c), v) = WithLogin(x, u, v, c)
         /\ Claimed(WithLogin(x, u, p, c), v) = WithLogin(x, u, p, v)
  BY DEF WithLogin, Renamed, Locked, Claimed

LEMMA AbsentIsNone == Absent \notin Competitors
  BY ParticipantsAssumption

LEMMA NewIsCompetitor ==
  ASSUME NEW name \in Names, NEW members \in SUBSET People, NEW approved \in BOOLEAN
  PROVE  New(name, members, approved) \in Competitors
  BY DEF Competitors, Abstract!Competitors

LEMMA TransactionShape ==
  ASSUME TypeOK, NEW r \in Requests, InTransaction(r)
  PROVE  /\ op[r] \in Transactions
         /\ op[r] = [kind |-> op[r].kind, todo |-> op[r].todo, logins |-> op[r].logins]
         /\ op[r].kind \in Kinds
         /\ op[r].kind \in {"register", "import"} => op[r].todo \subseteq Items /\ op[r].logins = {}
         /\ op[r].kind \notin {"register", "import"} => op[r].todo \subseteq Ids /\ op[r].logins \subseteq Logins
<1>1. op[r] \in Transactions
  BY DEF TypeOK, InTransaction, Operations, Kinds
<1>. QED
  BY <1>1 DEF InTransaction, Transactions

LEMMA SingleShape ==
  ASSUME TypeOK, NEW r \in Requests, op[r] # Idle, op[r].kind \in {"set", "delete"}
  PROVE  /\ op[r].id \in Ids /\ op[r].row \in Competitors /\ op[r].current \in BOOLEAN
         /\ op[r] = [kind |-> op[r].kind, id |-> op[r].id, row |-> op[r].row, current |-> op[r].current]
  BY DEF TypeOK, Operations, Transactions, Kinds

-----------------------------------------------------------------------------
(***************************************************************************)
(* What a save does to the work in progress.                               *)
(***************************************************************************)
LEMMA WriteShape ==
  ASSUME TypeOK, NEW r \in Requests, InTransaction(r),
         NEW t, NEW todo, NEW logins, Write(r, t, todo, logins)
  PROVE  op' = [op EXCEPT ![r] = [kind |-> op[r].kind, todo |-> todo, logins |-> logins]]
<1>1. op[r] = [kind |-> op[r].kind, todo |-> op[r].todo, logins |-> op[r].logins]
  BY TransactionShape
<1>2. op' = [op EXCEPT ![r] = [[op[r] EXCEPT !.todo = todo] EXCEPT !.logins = logins]]
  BY DEF Write, TypeOK
<1>3. [[op[r] EXCEPT !.todo = todo] EXCEPT !.logins = logins]
        = [kind |-> op[r].kind, todo |-> todo, logins |-> logins]
  <2>. DEFINE k == op[r].kind
              m == op[r].todo
              l == op[r].logins
  <2>. HIDE DEF k, m, l
  <2>1. [[[kind |-> k, todo |-> m, logins |-> l] EXCEPT !.todo = todo] EXCEPT !.logins = logins]
          = [kind |-> k, todo |-> todo, logins |-> logins]
    <3>1. [[kind |-> k, todo |-> m, logins |-> l] EXCEPT !.todo = todo]
            = [kind |-> k, todo |-> todo, logins |-> l]
      OBVIOUS
    <3>2. [[kind |-> k, todo |-> todo, logins |-> l] EXCEPT !.logins = logins]
            = [kind |-> k, todo |-> todo, logins |-> logins]
      OBVIOUS
    <3>. QED
      BY <3>1, <3>2
  <2>2. op[r] = [kind |-> k, todo |-> m, logins |-> l]
    BY <1>1 DEF k, m, l
  <2>3. [[op[r] EXCEPT !.todo = todo] EXCEPT !.logins = logins]
          = [kind |-> k, todo |-> todo, logins |-> logins]
    BY <2>1, <2>2
  <2>. QED
    BY <2>3 DEF k
<1>. QED
  BY <1>2, <1>3

(* A save of one thing, and what is left to do.                            *)
Saved(r, d, todo, logins) ==
  /\ MayWrite(r)
  /\ d \in [Ids -> Competitors \cup {Absent}]
  /\ [kind |-> op[r].kind, todo |-> todo, logins |-> logins] \in Transactions
  /\ Doing([kind |-> op[r].kind, todo |-> todo, logins |-> logins], acm, table, d, history)
  /\ op' = [op EXCEPT ![r] = [kind |-> op[r].kind, todo |-> todo, logins |-> logins]]
  /\ writer' = r /\ draft' = d
  /\ UNCHANGED <<acm, table, history>>

LEMMA CreateSaves ==
  ASSUME Inv, NEW r \in Requests, InTransaction(r), NEW item \in op[r].todo, Create(r, item)
  PROVE  \E d, todo, logins : Saved(r, d, todo, logins)
<1>. DEFINE todo == op[r].todo \ {item}
            approved == op[r].kind = "import"
            o == [kind |-> op[r].kind, todo |-> todo, logins |-> {}]
<1>1. PICK i \in Ids \ Present(draft) :
             Write(r, [draft EXCEPT ![i] = New(item.name, item.members, approved)], todo, {})
  BY DEF Create
<1>. DEFINE d == [draft EXCEPT ![i] = New(item.name, item.members, approved)]
<1>2. TypeOK /\ item \in Items /\ op[r].kind \in {"register", "import"} /\ op[r].todo \subseteq Items
  BY TransactionShape DEF Inv, Create
<1>3. item.name \in Names /\ item.members \in SUBSET People /\ approved \in BOOLEAN
  BY <1>2 DEF Items
<1>4. d \in [Ids -> Competitors \cup {Absent}] /\ d[i] = New(item.name, item.members, approved)
        /\ d[i] \in Competitors
  <2>1. New(item.name, item.members, approved) \in Competitors
    BY <1>3, NewIsCompetitor
  <2>. QED
    BY <1>2, <2>1 DEF TypeOK
<1>5. o \in Transactions
  BY <1>2 DEF Transactions
<1>6. d[i] # Absent
  <2>. HIDE DEF d
  <2>. QED
    BY AbsentIsNone, <1>4
<1>7. draft[i] = Absent /\ \A j \in Ids \ {i} : d[j] = draft[j]
  BY <1>1, <1>2 DEF TypeOK
<1>8. Doing(op[r], acm, table, draft, history)
  BY DEF Inv, Progress
<1>9. Doing(o, acm, table, d, history)
  <2>1. CASE op[r].kind = "register"
    <3>1. draft = table /\ todo = {}
      BY <1>8, <2>1 DEF Doing, Registering
    <3>2. Registering(o, acm, table, d)
      BY <1>7, <1>8, <1>2, <2>1, <3>1 DEF Doing, Registering
    <3>. QED
      BY <2>1, <3>2 DEF Doing
  <2>2. CASE op[r].kind = "import"
    <3>1. Importing(op[r], acm, table, draft)
      BY <1>8, <2>2 DEF Doing
    <3>2. table[i] = Absent
      BY <3>1, <1>7, <1>2, AbsentIsNone DEF Importing
    <3>3. d[i] = New(d[i].name, {}, TRUE) /\ d[i].name = item.name
      BY <1>4, <2>2, <3>1 DEF Importing
    <3>4. \A j \in Present(d) : j # i => d[j].name # d[i].name
      BY <3>1, <3>3, <1>7 DEF Importing
    <3>5. \A j \in Ids : d[j] # table[j] =>
            /\ table[j] = Absent
            /\ d[j] = New(d[j].name, {}, TRUE)
            /\ \A k \in Present(d) : d[j].name = d[k].name => j = k
      <4>. SUFFICES ASSUME NEW j \in Ids, d[j] # table[j]
           PROVE  /\ table[j] = Absent
                  /\ d[j] = New(d[j].name, {}, TRUE)
                  /\ \A k \in Present(d) : d[j].name = d[k].name => j = k
        OBVIOUS
      <4>1. CASE j = i
        BY <4>1, <3>2, <3>3, <3>4
      <4>2. CASE j # i
        <5>1. d[j] = draft[j]
          BY <4>2, <1>7
        <5>2. /\ table[j] = Absent /\ draft[j] = New(draft[j].name, {}, TRUE)
              /\ \A k \in Present(draft) : draft[j].name = draft[k].name => j = k
          BY <5>1, <3>1 DEF Importing
        <5>3. j \in Present(d)
          BY <5>1, <5>2, <1>7, <4>2
        <5>4. \A k \in Present(d) : d[j].name = d[k].name => j = k
          <6>. SUFFICES ASSUME NEW k \in Present(d), d[j].name = d[k].name PROVE j = k
            OBVIOUS
          <6>1. CASE k = i
            BY <6>1, <5>3, <4>2, <3>4
          <6>2. CASE k # i
            BY <6>2, <5>1, <5>2, <1>7
          <6>. QED
            BY <6>1, <6>2
        <5>. QED
          BY <5>1, <5>2, <5>4
      <4>. QED
        BY <4>1, <4>2
    <3>6. \A x \in todo : x.members = {} /\ \A j \in Present(d) : d[j].name # x.name
      <4>. SUFFICES ASSUME NEW x \in todo
           PROVE  x.members = {} /\ \A j \in Present(d) : d[j].name # x.name
        OBVIOUS
      <4>1. x.members = {} /\ item.members = {} /\ \A j \in Present(draft) : draft[j].name # x.name
        BY <3>1 DEF Importing
      <4>2. x.name # item.name
        <5>1. x = [name |-> x.name, members |-> x.members]
          BY <1>2 DEF Items
        <5>2. item = [name |-> item.name, members |-> item.members]
          BY <1>2 DEF Items
        <5>. QED
          BY <4>1, <5>1, <5>2
      <4>. QED
        BY <4>1, <4>2, <3>3, <1>7
    <3>7. Importing(o, acm, table, d)
      BY <3>1, <3>5, <3>6 DEF Importing
    <3>. QED
      BY <2>2, <3>7 DEF Doing
  <2>. QED
    BY <1>2, <2>1, <2>2
<1>10. op' = [op EXCEPT ![r] = o]
  BY <1>1, <1>2, WriteShape
<1>11. Saved(r, d, todo, {})
  BY <1>1, <1>4, <1>5, <1>9, <1>10 DEF Saved, Write
<1>. QED
  BY <1>11

(* Record y replaces that of i, one more on its way to a login.            *)
Advances(o, t, d, i, y, todo, logins) ==
  /\ i \in o.todo /\ y \in Competitors /\ logins \subseteq o.logins
  /\ y.username # NoLogin
  /\ y.username = d[i].username \/ y.username \in o.logins \ (logins \cup Foreign)
  /\ \/ /\ y = WithLogin(t[i], y.username, y.password, t[i].claim)
        /\ todo = o.todo
     \/ /\ y = WithLogin(t[i], y.username, TRUE, TRUE)
        /\ todo = o.todo \ {i}

LEMMA AssigningGoesOn ==
  ASSUME NEW o, NEW t, NEW d \in [Ids -> Competitors \cup {Absent}], Assigning(o, t, d),
         NEW i, NEW y, NEW todo, NEW logins, Advances(o, t, d, i, y, todo, logins),
         NEW e, e = [d EXCEPT ![i] = y], NEW n, n.todo = todo, n.logins = logins
  PROVE  Assigning(n, t, e)
<1>. USE DEF Advances
<1>1. i \in Ids /\ o.todo \subseteq Ids /\ Present(d) = Present(t)
  BY DEF Assigning
<1>2. e[i] = y /\ \A j \in Ids \ {i} : e[j] = d[j]
  BY <1>1
<1>3. t[i] # Absent /\ t[i].username = NoLogin
  BY <1>1 DEF Assigning
<1>4. y # Absent /\ d[i] # Absent
  BY <1>1, <1>3, AbsentIsNone
<1>5. Present(e) = Present(d)
  BY <1>1, <1>2, <1>4
<1>6. ASSUME NEW j \in Ids
      PROVE  IF t[j] = Absent \/ t[j].username # NoLogin THEN e[j] = t[j] /\ j \notin todo
             ELSE IF j \in todo
                  THEN /\ e[j] = WithLogin(t[j], e[j].username, e[j].password, t[j].claim)
                       /\ e[j].password => e[j].username # NoLogin
                  ELSE /\ e[j] = WithLogin(t[j], e[j].username, TRUE, TRUE)
                       /\ e[j].username # NoLogin
  <2>1. CASE j = i
    BY <2>1, <1>2, <1>3
  <2>2. CASE j # i
    <3>1. e[j] = d[j] /\ (j \in todo <=> j \in o.todo)
      BY <2>2, <1>2
    <3>. QED
      BY <3>1 DEF Assigning
  <2>. QED
    BY <2>1, <2>2
<1>7. \A j \in Present(d) : d[j].username \notin o.logins /\ d[j].username \notin Foreign
  BY DEF Assigning
<1>8. y.username \notin logins /\ y.username \notin Foreign
  BY <1>1, <1>4, <1>7
<1>9. ASSUME NEW j \in Present(e)
      PROVE  e[j].username \notin logins /\ e[j].username \notin Foreign
  BY <1>2, <1>5, <1>7, <1>8
<1>10. ASSUME NEW j \in Present(e), j # i
       PROVE  e[j].username # y.username
  <2>1. e[j] = d[j] /\ j \in Present(d) /\ i \in Present(d)
    BY <1>1, <1>2, <1>4, <1>5, <1>10
  <2>2. CASE y.username = d[i].username
    BY <2>1, <2>2, <1>10 DEF Assigning
  <2>3. CASE y.username \in o.logins
    BY <2>1, <2>3, <1>7
  <2>. QED
    BY <2>2, <2>3
<1>11. ASSUME NEW j \in Present(e), NEW k \in Present(e),
              e[j].username = e[k].username, e[j].username # NoLogin
       PROVE  j = k
  <2>1. CASE j = i \/ k = i
    BY <2>1, <1>2, <1>10, <1>11
  <2>2. CASE j # i /\ k # i
    <3>1. e[j] = d[j] /\ e[k] = d[k] /\ j \in Present(d) /\ k \in Present(d)
      BY <2>2, <1>2, <1>5
    <3>. QED
      BY <3>1, <1>11 DEF Assigning
  <2>. QED
    BY <2>1, <2>2
<1>12. todo \subseteq Ids /\ Present(e) = Present(t)
  BY <1>1, <1>5
<1>13. /\ todo \subseteq Ids /\ Present(e) = Present(t)
       /\ \A j \in Ids :
            IF t[j] = Absent \/ t[j].username # NoLogin THEN e[j] = t[j] /\ j \notin todo
            ELSE IF j \in todo
                 THEN /\ e[j] = WithLogin(t[j], e[j].username, e[j].password, t[j].claim)
                      /\ e[j].password => e[j].username # NoLogin
                 ELSE /\ e[j] = WithLogin(t[j], e[j].username, TRUE, TRUE)
                      /\ e[j].username # NoLogin
       /\ \A j \in Present(e) : e[j].username \notin logins /\ e[j].username \notin Foreign
       /\ \A j, k \in Present(e) : e[j].username = e[k].username /\ e[j].username # NoLogin => j = k
  BY <1>6, <1>9, <1>11, <1>12, Zenon
<1>14. n.todo = todo /\ n.logins = logins
  OBVIOUS
<1>. QED
  BY ONLY <1>13, <1>14 DEF Assigning

LEMMA SaveLoginSaves ==
  ASSUME Inv, NEW r \in Requests, InTransaction(r), NEW i \in op[r].todo, SaveLogin(r, i)
  PROVE  \E d, todo, logins : Saved(r, d, todo, logins)
<1>. DEFINE x == table[i]
            z == draft[i]
<1>1. /\ TypeOK /\ op[r].kind = "assign"
      /\ op[r].todo \subseteq Ids /\ op[r].logins \subseteq Logins /\ i \in Ids
  BY TransactionShape DEF Inv, SaveLogin
<1>2. Assigning(op[r], table, draft)
  BY <1>1 DEF Inv, Progress, Doing
<1>3. draft \in [Ids -> Competitors \cup {Absent}] /\ x \in Competitors /\ z \in Competitors
  BY <1>1, <1>2, AbsentIsNone DEF TypeOK, Assigning
<1>4. z = WithLogin(x, z.username, z.password, x.claim) /\ (z.password => z.username # NoLogin)
  BY <1>1, <1>2, <1>3, AbsentIsNone DEF Assigning
<1>5. z.username \in Logins \cup {NoLogin} /\ z.password \in BOOLEAN /\ x.claim \in BOOLEAN
  BY <1>3, CompetitorShape
<1>6. ASSUME NEW y \in Competitors, NEW todo, NEW logins \in SUBSET op[r].logins,
             y.username # NoLogin,
             y.username = z.username \/ y.username \in op[r].logins \ (logins \cup Foreign),
             \/ /\ y = WithLogin(x, y.username, y.password, x.claim)
                /\ todo = op[r].todo
             \/ /\ y = WithLogin(x, y.username, TRUE, TRUE)
                /\ todo = op[r].todo \ {i},
             Write(r, [draft EXCEPT ![i] = y], todo, logins)
      PROVE  \E d, n, l : Saved(r, d, n, l)
  <2>. DEFINE d == [draft EXCEPT ![i] = y]
              o == [kind |-> "assign", todo |-> todo, logins |-> logins]
  <2>1. d \in [Ids -> Competitors \cup {Absent}]
    BY <1>3
  <2>2. o \in Transactions
    BY <1>1, <1>6 DEF Transactions, Kinds
  <2>3. Assigning(o, table, d)
    <3>1. o.todo = todo /\ o.logins = logins /\ d = [draft EXCEPT ![i] = y]
      OBVIOUS
    <3>2. Advances(op[r], table, draft, i, y, todo, logins)
      BY <1>6 DEF Advances
    <3>. HIDE DEF o, d
    <3>. QED
      BY <1>2, <1>3, <3>1, <3>2, AssigningGoesOn
  <2>4. op' = [op EXCEPT ![r] = o]
    BY <1>1, <1>6, WriteShape
  <2>5. Doing(o, acm, table, d, history)
    BY <2>3 DEF Doing
  <2>6. MayWrite(r) /\ writer' = r /\ draft' = d /\ UNCHANGED <<acm, table, history>>
    BY <1>6 DEF Write
  <2>. HIDE DEF d
  <2>7. Saved(r, d, todo, logins)
    BY <1>1, <2>1, <2>2, <2>4, <2>5, <2>6 DEF Saved
  <2>. QED
    BY <2>7
<1>. HIDE DEF x, z
<1>7. CASE /\ z.username = NoLogin
           /\ LET login == Min(op[r].logins)
              IN /\ login \in op[r].logins \ Foreign
                 /\ Write(r, [draft EXCEPT ![i].username = login], op[r].todo, op[r].logins \ {login})
  <2>1. PICK login \in op[r].logins \ Foreign :
          Write(r, [draft EXCEPT ![i].username = login], op[r].todo, op[r].logins \ {login})
    BY <1>7
  <2>2. login \in Logins \cup {NoLogin} /\ login # NoLogin
    BY <1>1, ParticipantsAssumption
  <2>. DEFINE y == Renamed(z, login)
  <2>3. y = WithLogin(x, login, z.password, x.claim)
    BY <1>4, FieldSaved
  <2>4. /\ y \in Competitors /\ y.username = login
        /\ y = WithLogin(x, y.username, y.password, x.claim)
    BY <1>3, <1>5, <2>2, <2>3, LoginFields
  <2>5. Write(r, [draft EXCEPT ![i] = y], op[r].todo, op[r].logins \ {login})
    BY <1>3, <2>1 DEF z, Renamed
  <2>. HIDE DEF y
  <2>6. op[r].logins \ {login} \in SUBSET op[r].logins
    OBVIOUS
  <2>. QED
    BY <2>2, <2>4, <2>5, <2>6, <1>6
<1>8. CASE /\ z.username # NoLogin /\ ~z.password
           /\ Write(r, [draft EXCEPT ![i].password = TRUE], op[r].todo, op[r].logins)
  <2>1. PICK yes \in BOOLEAN : yes = TRUE
    OBVIOUS
  <2>. DEFINE y == Locked(z, yes)
  <2>2. y = WithLogin(x, z.username, yes, x.claim)
    BY <1>4, FieldSaved
  <2>3. /\ y \in Competitors /\ y.username = z.username
        /\ y = WithLogin(x, y.username, y.password, x.claim)
    BY <1>3, <1>5, <2>2, LoginFields
  <2>4. Write(r, [draft EXCEPT ![i] = y], op[r].todo, op[r].logins)
    BY <1>3, <1>8, <2>1 DEF z, Locked
  <2>. HIDE DEF y
  <2>. QED
    BY <1>8, <2>3, <2>4, <1>6
<1>9. CASE /\ z.password /\ ~z.claim
           /\ Write(r, [draft EXCEPT ![i].claim = TRUE], op[r].todo \ {i}, op[r].logins)
  <2>1. PICK yes \in BOOLEAN : yes = TRUE
    OBVIOUS
  <2>. DEFINE y == Claimed(z, yes)
  <2>2. z.password = yes
    BY <1>5, <1>9, <2>1
  <2>3. y = WithLogin(x, z.username, yes, yes)
    BY <1>4, <2>2, FieldSaved
  <2>4. y \in Competitors /\ y.username = z.username
    BY <1>3, <1>5, <2>3, LoginFields
  <2>5. y = WithLogin(x, y.username, TRUE, TRUE)
    BY <2>1, <2>3, <2>4
  <2>6. Write(r, [draft EXCEPT ![i] = y], op[r].todo \ {i}, op[r].logins)
    BY <1>3, <1>9, <2>1 DEF z, Claimed
  <2>. HIDE DEF y
  <2>. QED
    BY <1>4, <1>9, <2>4, <2>5, <2>6, <1>6
<1>. QED
  BY <1>7, <1>8, <1>9 DEF SaveLogin, z

LEMMA RemovingGoesOn ==
  ASSUME NEW o, NEW t, NEW d \in [Ids -> Competitors \cup {Absent}], Removing(o, t, d),
         NEW i \in o.todo, NEW y \in Competitors,
         NEW e, e = [d EXCEPT ![i] = y], NEW n,
         \/ /\ y = WithLogin(t[i], y.username, y.password, t[i].claim)
            /\ n.todo = o.todo
         \/ /\ y = WithLogin(t[i], NoLogin, FALSE, FALSE)
            /\ n.todo = o.todo \ {i}
  PROVE  Removing(n, t, e)
<1>1. i \in Ids /\ o.todo \subseteq Present(t) /\ Present(d) = Present(t)
  BY DEF Removing
<1>2. e[i] = y /\ \A j \in Ids \ {i} : e[j] = d[j]
  BY <1>1
<1>3. y # Absent /\ t[i] # Absent /\ d[i] # Absent
  BY <1>1, AbsentIsNone
<1>4. n.todo \subseteq Present(t) /\ Present(e) = Present(t)
  BY <1>1, <1>2, <1>3
<1>5. ASSUME NEW j \in Ids
      PROVE  IF t[j] = Absent THEN e[j] = Absent
             ELSE IF j \in n.todo
                  THEN e[j] = WithLogin(t[j], e[j].username, e[j].password, t[j].claim)
                  ELSE e[j] = WithLogin(t[j], NoLogin, FALSE, FALSE)
  <2>1. CASE j = i
    BY <2>1, <1>2, <1>3
  <2>2. CASE j # i
    <3>1. e[j] = d[j] /\ (j \in n.todo <=> j \in o.todo)
      BY <2>2, <1>2
    <3>. QED
      BY <3>1 DEF Removing
  <2>. QED
    BY <2>1, <2>2
<1>. QED
  BY ONLY <1>4, <1>5 DEF Removing

(* A save of one record by a transaction that creates none.                *)
LEMMA EditSaves ==
  ASSUME TypeOK, NEW r \in Requests, InTransaction(r), op[r].kind \notin {"register", "import"},
         NEW i \in Ids, NEW y \in Competitors \cup {Absent}, NEW todo \in SUBSET Ids,
         NEW e, e = [draft EXCEPT ![i] = y], Write(r, e, todo, {}),
         NEW n, n = [kind |-> op[r].kind, todo |-> todo, logins |-> {}],
         Doing(n, acm, table, e, history)
  PROVE  \E d, m, l : Saved(r, d, m, l)
<1>1. e \in [Ids -> Competitors \cup {Absent}]
  BY DEF TypeOK
<1>2. n \in Transactions
  BY TransactionShape DEF Transactions
<1>3. op' = [op EXCEPT ![r] = n]
  BY WriteShape
<1>4. MayWrite(r) /\ writer' = r /\ draft' = e /\ UNCHANGED <<acm, table, history>>
  BY DEF Write
<1>. QED
  BY <1>1, <1>2, <1>3, <1>4 DEF Saved

LEMMA RemoveLoginSaves ==
  ASSUME Inv, NEW r \in Requests, InTransaction(r), NEW i \in op[r].todo, RemoveLogin(r, i)
  PROVE  \E d, todo, logins : Saved(r, d, todo, logins)
<1>. DEFINE x == table[i]
            z == draft[i]
<1>1. TypeOK /\ op[r].kind = "remove" /\ op[r].todo \subseteq Ids /\ i \in Ids
  BY TransactionShape DEF Inv, RemoveLogin
<1>2. Removing(op[r], table, draft)
  BY <1>1 DEF Inv, Progress, Doing
<1>3. draft \in [Ids -> Competitors \cup {Absent}] /\ x \in Competitors /\ z \in Competitors
  BY <1>1, <1>2, AbsentIsNone DEF TypeOK, Removing
<1>4. z = WithLogin(x, z.username, z.password, x.claim)
  BY <1>1, <1>2, <1>3, AbsentIsNone DEF Removing
<1>5. z.username \in Logins \cup {NoLogin} /\ z.password \in BOOLEAN /\ x.claim \in BOOLEAN
  BY <1>3, CompetitorShape
<1>6. PICK no \in BOOLEAN : no = FALSE
  OBVIOUS
<1>7. ASSUME NEW y \in Competitors, NEW todo \in SUBSET Ids,
             \/ /\ y = WithLogin(x, y.username, y.password, x.claim)
                /\ todo = op[r].todo
             \/ /\ y = WithLogin(x, NoLogin, FALSE, FALSE)
                /\ todo = op[r].todo \ {i},
             Write(r, [draft EXCEPT ![i] = y], todo, {})
      PROVE  \E d, n, l : Saved(r, d, n, l)
  <2>. DEFINE e == [draft EXCEPT ![i] = y]
              n == [kind |-> op[r].kind, todo |-> todo, logins |-> {}]
  <2>1. n.todo = todo /\ n.kind = "remove" /\ e = [draft EXCEPT ![i] = y]
    BY <1>1
  <2>2. n = [kind |-> op[r].kind, todo |-> todo, logins |-> {}] /\ Write(r, e, todo, {})
    BY <1>7
  <2>. HIDE DEF e, n
  <2>3. Removing(n, table, e)
    BY <1>2, <1>3, <1>7, <2>1, RemovingGoesOn
  <2>4. Doing(n, acm, table, e, history)
    BY <2>1, <2>3 DEF Doing
  <2>. QED
    BY <1>1, <2>1, <2>2, <2>4, EditSaves
<1>. HIDE DEF x, z
<1>8. CASE z.username # NoLogin /\ Write(r, [draft EXCEPT ![i].username = NoLogin], op[r].todo, {})
  <2>. DEFINE y == Renamed(z, NoLogin)
  <2>1. y = WithLogin(x, NoLogin, z.password, x.claim)
    BY <1>4, FieldSaved
  <2>2. y \in Competitors /\ y = WithLogin(x, y.username, y.password, x.claim)
    <3>1. PICK u \in Logins \cup {NoLogin} : u = NoLogin
      OBVIOUS
    <3>2. PICK p \in BOOLEAN : p = z.password
      BY <1>5
    <3>3. y = WithLogin(x, u, p, x.claim)
      BY <2>1, <3>1, <3>2
    <3>4. x \in Competitors /\ x.claim \in BOOLEAN
      BY <1>3, <1>5
    <3>5. /\ WithLogin(x, u, p, x.claim) \in Competitors
          /\ WithLogin(x, u, p, x.claim).username = u /\ WithLogin(x, u, p, x.claim).password = p
      BY <3>4, LoginFields
    <3>6. y \in Competitors /\ y.username = u /\ y.password = p
      BY <3>3, <3>5
    <3>. QED
      BY <3>3, <3>6
  <2>3. Write(r, [draft EXCEPT ![i] = y], op[r].todo, {})
    BY <1>3, <1>8 DEF z, Renamed
  <2>. HIDE DEF y
  <2>. QED
    BY <1>1, <2>2, <2>3, <1>7
<1>9. CASE /\ z.username = NoLogin /\ z.password
           /\ Write(r, [draft EXCEPT ![i].password = FALSE], op[r].todo, {})
  <2>. DEFINE y == Locked(z, no)
  <2>1. y = WithLogin(x, z.username, no, x.claim)
    BY <1>4, FieldSaved
  <2>2. y \in Competitors /\ y = WithLogin(x, y.username, y.password, x.claim)
    BY <1>3, <1>5, <2>1, LoginFields
  <2>3. Write(r, [draft EXCEPT ![i] = y], op[r].todo, {})
    BY <1>3, <1>6, <1>9 DEF z, Locked
  <2>. HIDE DEF y
  <2>. QED
    BY <1>1, <2>2, <2>3, <1>7
<1>10. CASE /\ z.username = NoLogin /\ ~z.password
            /\ Write(r, [draft EXCEPT ![i].claim = FALSE], op[r].todo \ {i}, {})
  <2>. DEFINE y == Claimed(z, no)
  <2>1. z.password = no
    BY <1>5, <1>6, <1>10
  <2>2. y = WithLogin(x, NoLogin, no, no)
    BY <1>4, <1>10, <2>1, FieldSaved
  <2>3. y \in Competitors
    BY <1>3, <2>2, LoginFields
  <2>4. y = WithLogin(x, NoLogin, FALSE, FALSE)
    BY <1>6, <2>2
  <2>5. Write(r, [draft EXCEPT ![i] = y], op[r].todo \ {i}, {})
    BY <1>3, <1>6, <1>10 DEF z, Claimed
  <2>. HIDE DEF y
  <2>6. op[r].todo \ {i} \in SUBSET Ids
    BY <1>1
  <2>. QED
    BY <2>3, <2>4, <2>5, <2>6, <1>7
<1>. QED
  BY <1>8, <1>9, <1>10 DEF RemoveLogin, z

LEMMA ApproveSaves ==
  ASSUME Inv, NEW r \in Requests, InTransaction(r), NEW i \in op[r].todo, Approve(r, i)
  PROVE  \E d, todo, logins : Saved(r, d, todo, logins)
<1>. DEFINE e == [draft EXCEPT ![i] = Approved(table[i])]
            todo == op[r].todo \ {i}
            n == [kind |-> op[r].kind, todo |-> todo, logins |-> {}]
<1>1. TypeOK /\ op[r].kind = "approve" /\ op[r].todo \subseteq Ids /\ i \in Ids
  BY TransactionShape DEF Inv, Approve
<1>2. Approving(op[r], table, draft)
  BY <1>1 DEF Inv, Progress, Doing
<1>3. draft \in [Ids -> Competitors \cup {Absent}] /\ table[i] \in Competitors /\ draft[i] = table[i]
  BY <1>1, <1>2 DEF TypeOK, Approving
<1>4. Approved(table[i]) \in Competitors /\ todo \in SUBSET Ids
  BY <1>1, <1>3, ApprovedIsCompetitor
<1>5. Write(r, e, todo, {})
  BY <1>1, <1>3 DEF Approve, Approved
<1>6. /\ n = [kind |-> op[r].kind, todo |-> todo, logins |-> {}] /\ n.todo = todo /\ n.kind = "approve"
      /\ e = [draft EXCEPT ![i] = Approved(table[i])]
      /\ e[i] = Approved(table[i]) /\ \A j \in Ids \ {i} : e[j] = draft[j]
  BY <1>1, <1>3
<1>. HIDE DEF e, n
<1>7. Approving(n, table, e)
  BY <1>1, <1>2, <1>3, <1>6 DEF Approving
<1>8. Doing(n, acm, table, e, history)
  BY <1>6, <1>7 DEF Doing
<1>. QED
  BY <1>1, <1>4, <1>5, <1>6, <1>8, EditSaves

LEMMA DeleteOneSaves ==
  ASSUME Inv, NEW r \in Requests, InTransaction(r), NEW i \in op[r].todo, DeleteOne(r, i)
  PROVE  \E d, todo, logins : Saved(r, d, todo, logins)
<1>. DEFINE e == [draft EXCEPT ![i] = Absent]
            todo == op[r].todo \ {i}
            n == [kind |-> op[r].kind, todo |-> todo, logins |-> {}]
<1>1. TypeOK /\ op[r].kind = "cleanup" /\ op[r].todo \subseteq Ids /\ i \in Ids
  BY TransactionShape DEF Inv, DeleteOne
<1>2. Cleaning(op[r], table, draft, history)
  BY <1>1 DEF Inv, Progress, Doing
<1>3. draft \in [Ids -> Competitors \cup {Absent}] /\ todo \in SUBSET Ids
  BY <1>1 DEF TypeOK
<1>4. Write(r, e, todo, {})
  BY DEF DeleteOne
<1>5. /\ n = [kind |-> op[r].kind, todo |-> todo, logins |-> {}] /\ n.todo = todo /\ n.kind = "cleanup"
      /\ e = [draft EXCEPT ![i] = Absent]
      /\ e[i] = Absent /\ \A j \in Ids \ {i} : e[j] = draft[j]
  BY <1>1, <1>3
<1>. HIDE DEF e, n
<1>6. Cleaning(n, table, e, history)
  BY <1>1, <1>2, <1>5 DEF Cleaning
<1>7. Doing(n, acm, table, e, history)
  BY <1>5, <1>6 DEF Doing
<1>. QED
  BY <1>1, <1>3, <1>4, <1>5, <1>7, EditSaves

LEMMA SaveSaves ==
  ASSUME Inv, NEW r \in Requests, Save(r)
  PROVE  InTransaction(r) /\ \E d, todo, logins : Saved(r, d, todo, logins)
  BY CreateSaves, SaveLoginSaves, RemoveLoginSaves, ApproveSaves, DeleteOneSaves DEF Save

-----------------------------------------------------------------------------
(***************************************************************************)
(* A transaction that has nothing left to save leaves good tables.         *)
(***************************************************************************)
LEMMA KeptIfSame ==
  ASSUME NEW t, NEW a, NEW d, EnrolledOnce(t, a),
         \A i \in Present(d) : /\ i \in Present(t)
                              /\ d[i].members = t[i].members /\ d[i].name = t[i].name
  PROVE  EnrolledOnce(d, a)
  BY DEF EnrolledOnce

LEMMA DoneKeeps ==
  ASSUME NEW o, NEW a, NEW t \in [Ids -> Competitors \cup {Absent}],
         NEW d \in [Ids -> Competitors \cup {Absent}], NEW h \in SUBSET Present(t),
         EnrolledOnce(t, a), WholeLogins(t), Doing(o, a, t, d, h), o.kind \in Kinds, o.todo = {}
  PROVE  EnrolledOnce(d, a) /\ WholeLogins(d) /\ h \subseteq Present(d)
<1>0. NoLogin \notin Foreign
  BY ParticipantsAssumption
<1>1. CASE o.kind = "register"
  <2>1. PICK i \in Ids \ Present(t), item \in Items :
          /\ d = [t EXCEPT ![i] = New(item.name, item.members, FALSE)]
          /\ a \/ item.members # {}
          /\ \A j \in Present(t) : t[j].members \cap item.members = {}
    BY <1>1 DEF Doing, Registering
  <2>2. /\ d[i].members = item.members /\ d[i].username = NoLogin
        /\ d[i].password = FALSE /\ d[i].claim = FALSE
    BY <2>1
  <2>3. \A j \in Ids \ {i} : d[j] = t[j]
    BY <2>1
  <2>4. EnrolledOnce(d, a)
    <3>. SUFFICES ASSUME NEW j \in Present(d), NEW k \in Present(d), j # k
         PROVE  /\ d[j].members \cap d[k].members = {}
                /\ d[j].members = {} /\ d[k].members = {} /\ ~a => d[j].name # d[k].name
      BY DEF EnrolledOnce
    <3>1. CASE j = i
      BY <3>1, <2>1, <2>2, <2>3
    <3>2. CASE k = i
      BY <3>2, <2>1, <2>2, <2>3
    <3>3. CASE j # i /\ k # i
      BY <3>3, <2>3 DEF EnrolledOnce
    <3>. QED
      BY <3>1, <3>2, <3>3
  <2>5. WholeLogins(d)
    <3>1. ASSUME NEW j \in Present(d)
          PROVE  /\ d[j].password = d[j].claim
                 /\ d[j].password = (d[j].username # NoLogin)
                 /\ d[j].username \notin Foreign
      <4>1. CASE j = i
        BY <4>1, <2>2, <1>0
      <4>2. CASE j # i
        BY <4>2, <2>3 DEF WholeLogins
      <4>. QED
        BY <4>1, <4>2
    <3>2. ASSUME NEW j \in Present(d), NEW k \in Present(d),
                 d[j].username = d[k].username, d[j].username # NoLogin
          PROVE  j = k
      BY <2>2, <2>3, <3>2 DEF WholeLogins
    <3>. QED
      BY <3>1, <3>2 DEF WholeLogins
  <2>6. h \subseteq Present(d)
    BY <2>1, <2>3
  <2>. QED
    BY <2>4, <2>5, <2>6
<1>2. CASE o.kind = "import"
  <2>1. Importing(o, a, t, d)
    BY <1>2 DEF Doing
  <2>2. ASSUME NEW i \in Ids, d[i] # t[i]
        PROVE  /\ t[i] = Absent /\ d[i].members = {} /\ d[i].username = NoLogin
               /\ d[i].password = FALSE /\ d[i].claim = FALSE
               /\ \A j \in Present(d) : d[i].name = d[j].name => i = j
    BY <2>1, <2>2 DEF Importing
  <2>3. EnrolledOnce(d, a)
    <3>. SUFFICES ASSUME NEW j \in Present(d), NEW k \in Present(d), j # k
         PROVE  /\ d[j].members \cap d[k].members = {}
                /\ d[j].members = {} /\ d[k].members = {} /\ ~a => d[j].name # d[k].name
      BY DEF EnrolledOnce
    <3>1. CASE d[j] # t[j]
      BY <3>1, <2>2
    <3>2. CASE d[k] # t[k]
      BY <3>2, <2>2
    <3>3. CASE d[j] = t[j] /\ d[k] = t[k]
      BY <3>3 DEF EnrolledOnce
    <3>. QED
      BY <3>1, <3>2, <3>3
  <2>4. WholeLogins(d)
    <3>1. ASSUME NEW j \in Present(d)
          PROVE  /\ d[j].password = d[j].claim
                 /\ d[j].password = (d[j].username # NoLogin)
                 /\ d[j].username \notin Foreign
      <4>1. CASE d[j] # t[j]
        BY <4>1, <2>2, <1>0
      <4>2. CASE d[j] = t[j]
        BY <4>2 DEF WholeLogins
      <4>. QED
        BY <4>1, <4>2
    <3>2. ASSUME NEW j \in Present(d), NEW k \in Present(d),
                 d[j].username = d[k].username, d[j].username # NoLogin
          PROVE  j = k
      <4>1. d[j] = t[j] /\ d[k] = t[k]
        BY <2>2, <3>2
      <4>. QED
        BY <4>1, <3>2 DEF WholeLogins
    <3>. QED
      BY <3>1, <3>2 DEF WholeLogins
  <2>5. h \subseteq Present(d)
    BY <2>2
  <2>. QED
    BY <2>3, <2>4, <2>5
<1>3. CASE o.kind = "assign"
  <2>1. Assigning(o, t, d)
    BY <1>3 DEF Doing
  <2>2. Present(d) = Present(t)
    BY <2>1 DEF Assigning
  <2>3. ASSUME NEW i \in Present(d)
        PROVE  /\ d[i].members = t[i].members /\ d[i].name = t[i].name
               /\ d[i].password = d[i].claim
               /\ d[i].password = (d[i].username # NoLogin)
    <3>1. i \in Ids /\ t[i] \in Competitors /\ d[i] \in Competitors
      BY <2>2, AbsentIsNone
    <3>2. CASE t[i].username # NoLogin
      <4>1. d[i] = t[i]
        BY <3>1, <3>2, <2>1 DEF Assigning
      <4>. QED
        BY <4>1, <2>2 DEF WholeLogins
    <3>3. CASE t[i].username = NoLogin
      <4>1. PICK yes \in BOOLEAN : yes = TRUE
        OBVIOUS
      <4>2. d[i] = WithLogin(t[i], d[i].username, yes, yes) /\ d[i].username # NoLogin
        BY <3>1, <3>3, <2>1, <4>1, AbsentIsNone DEF Assigning
      <4>3. d[i].username \in Logins \cup {NoLogin}
        BY <3>1, CompetitorShape
      <4>4. /\ d[i].members = t[i].members /\ d[i].name = t[i].name
            /\ d[i].password = yes /\ d[i].claim = yes
        BY <3>1, <4>2, <4>3, LoginFields
      <4>. QED
        BY <4>1, <4>2, <4>4
    <3>. QED
      BY <3>2, <3>3
  <2>4. EnrolledOnce(d, a)
    BY <2>2, <2>3, KeptIfSame
  <2>5. WholeLogins(d)
    BY <2>1, <2>3 DEF WholeLogins, Assigning
  <2>. QED
    BY <2>2, <2>4, <2>5
<1>4. CASE o.kind = "remove"
  <2>1. Removing(o, t, d)
    BY <1>4 DEF Doing
  <2>2. Present(d) = Present(t)
    BY <2>1 DEF Removing
  <2>3. ASSUME NEW i \in Present(d)
        PROVE  /\ d[i].members = t[i].members /\ d[i].name = t[i].name
               /\ d[i].password = FALSE /\ d[i].claim = FALSE /\ d[i].username = NoLogin
    <3>1. i \in Ids /\ t[i] \in Competitors
      BY <2>2, AbsentIsNone
    <3>2. PICK no \in BOOLEAN : no = FALSE
      OBVIOUS
    <3>3. d[i] = WithLogin(t[i], NoLogin, no, no)
      BY <3>1, <3>2, <2>1, AbsentIsNone DEF Removing
    <3>4. /\ d[i].members = t[i].members /\ d[i].name = t[i].name
          /\ d[i].password = no /\ d[i].claim = no /\ d[i].username = NoLogin
      BY <3>1, <3>3, LoginFields
    <3>. QED
      BY <3>2, <3>4
  <2>4. EnrolledOnce(d, a)
    BY <2>2, <2>3, KeptIfSame
  <2>5. WholeLogins(d)
    BY <2>3, <1>0 DEF WholeLogins
  <2>. QED
    BY <2>2, <2>4, <2>5
<1>5. CASE o.kind = "approve"
  <2>1. Approving(o, t, d)
    BY <1>5 DEF Doing
  <2>2. ASSUME NEW i \in Ids, t[i] # Absent
        PROVE  /\ d[i] # Absent
               /\ d[i].name = t[i].name /\ d[i].members = t[i].members
               /\ d[i].username = t[i].username /\ d[i].password = t[i].password
               /\ d[i].claim = t[i].claim
    BY <2>1, <2>2, ApprovedIsCompetitor, AbsentIsNone DEF Approving
  <2>3. Present(d) = Present(t)
    BY <2>1, <2>2 DEF Approving
  <2>4. EnrolledOnce(d, a)
    BY <2>2, <2>3, KeptIfSame
  <2>5. WholeLogins(d)
    BY <2>2, <2>3 DEF WholeLogins
  <2>. QED
    BY <2>3, <2>4, <2>5
<1>6. CASE o.kind = "cleanup"
  <2>1. \A i \in Ids : d[i] = IF i \in h THEN t[i] ELSE Absent
    BY <1>6 DEF Doing, Cleaning
  <2>2. Present(d) = h /\ \A i \in h : d[i] = t[i]
    BY <2>1
  <2>3. EnrolledOnce(d, a)
    BY <2>2, KeptIfSame
  <2>4. WholeLogins(d)
    BY <2>2 DEF WholeLogins
  <2>. QED
    BY <2>2, <2>3, <2>4
<1>. QED
  BY <1>1, <1>2, <1>3, <1>4, <1>5, <1>6 DEF Kinds

-----------------------------------------------------------------------------
(***************************************************************************)
(* The shape of a step.                                                    *)
(***************************************************************************)
Elsewhere == UNCHANGED <<acm, table, history, writer, draft>>

(* A transaction reads the table that nobody is writing.                   *)
Starts(r, o) ==
  /\ op[r] # Idle => op[r].kind = "generate"
  /\ writer = Idle
  /\ o \in Transactions /\ Doing(o, acm, table, draft, history)
  /\ op' = [op EXCEPT ![r] = o] /\ Elsewhere

(* Something is read outside a transaction.                                *)
Reads(r, o) ==
  /\ op[r] = Idle
  /\ o \in Operations /\ o.kind \notin Kinds
  /\ o.kind \in {"set", "delete"} => o.row = table[o.id]
  /\ op' = [op EXCEPT ![r] = o] /\ Elsewhere

(* A record is replaced without a transaction.                             *)
Replaces(r, i, y) ==
  /\ y \in Competitors \cup {Absent} /\ i \in Ids /\ op[r] # Idle /\ op[r].kind \in {"set", "delete"}
  /\ op[r].id = i
  /\ \A q \in Requests : ~InTransaction(q)
  /\ EnrolledOnce(table, acm) => EnrolledOnce([table EXCEPT ![i] = y], acm)
  /\ WholeLogins(table) => WholeLogins([table EXCEPT ![i] = y])
  /\ table[i] # Absent
  /\ \/ y = Absent /\ i \notin history
     \/ y # Absent /\ \E approved \in BOOLEAN : y = [table[i] EXCEPT !.approved = approved]
  /\ table' = [table EXCEPT ![i] = y] /\ draft' = table'
  /\ op' = [Outdated({i}) EXCEPT ![r] = Idle]
  /\ UNCHANGED <<acm, history, writer>>

LEMMA RegisterStarts ==
  ASSUME Inv, NEW r \in Requests, NEW name \in Names, NEW members \in SUBSET People,
         BeginRegister(r, name, members)
  PROVE  \E o : Starts(r, o)
<1>. DEFINE item == [name |-> name, members |-> members]
            o == [kind |-> "register", todo |-> {item}, logins |-> {}]
<1>1. op[r] = Idle /\ writer = Idle /\ op' = [op EXCEPT ![r] = o] /\ Elsewhere
  BY DEF BeginRegister, Begin, MayRead, Elsewhere
<1>2. item \in Items /\ item.members = members
  BY DEF Items
<1>3. o \in Transactions
  BY <1>2 DEF Transactions
<1>4. draft = table
  BY <1>1 DEF Inv, TypeOK
<1>5. acm \/ members # {}
  BY DEF BeginRegister
<1>6. \A i \in Present(table) : table[i].members \cap members = {}
  BY DEF BeginRegister
<1>7. o.todo = {item} /\ o.kind = "register"
  OBVIOUS
<1>. HIDE DEF item, o
<1>8. Registering(o, acm, table, draft)
  BY <1>2, <1>4, <1>5, <1>6, <1>7 DEF Registering
<1>9. Doing(o, acm, table, draft, history)
  BY <1>7, <1>8 DEF Doing
<1>. QED
  BY <1>1, <1>3, <1>9 DEF Starts

LEMMA ImportStarts ==
  ASSUME Inv, NEW r \in Requests, NEW names \in Lists, BeginImport(r, names)
  PROVE  \E o : Starts(r, o)
<1>. DEFINE todo == {[name |-> n, members |-> {}] : n \in {m \in names : NamedIn(table, m) = {}}}
            o == [kind |-> "import", todo |-> todo, logins |-> {}]
<1>1. /\ op[r] = Idle /\ writer = Idle /\ ~acm
      /\ op' = [op EXCEPT ![r] = o] /\ Elsewhere
  BY DEF BeginImport, Begin, MayRead, Elsewhere
<1>2. todo \subseteq Items
  BY ParticipantsAssumption DEF Items
<1>3. o \in Transactions /\ o.kind = "import" /\ o.todo = todo
  BY <1>2 DEF Transactions
<1>4. draft = table
  BY <1>1 DEF Inv, TypeOK
<1>5. \A item \in todo : item.members = {} /\ \A i \in Present(table) : table[i].name # item.name
  BY DEF NamedIn
<1>. HIDE DEF todo, o
<1>6. Importing(o, acm, table, draft)
  BY <1>1, <1>3, <1>4, <1>5 DEF Importing
<1>7. Doing(o, acm, table, draft, history)
  BY <1>3, <1>6 DEF Doing
<1>. QED
  BY <1>1, <1>3, <1>7 DEF Starts

LEMMA LoginsStart ==
  ASSUME Inv, NEW r \in Requests, NEW logins \in SUBSET Logins, ReadForLogins(r, logins),
         op[r] # Idle => op[r].kind = "generate"
  PROVE  \E o : Starts(r, o)
<1>. DEFINE todo == Unnamed(table)
            free == logins \ Taken(table)
            o == [kind |-> "assign", todo |-> todo, logins |-> free]
<1>1. writer = Idle /\ op' = [op EXCEPT ![r] = o] /\ Elsewhere
  BY DEF ReadForLogins, Begin, MayRead, Elsewhere
<1>2. todo \subseteq Ids /\ free \subseteq Logins
  BY DEF Unnamed
<1>3. o \in Transactions /\ o.kind = "assign" /\ o.todo = todo /\ o.logins = free
  BY <1>2 DEF Transactions, Kinds
<1>4. draft = table /\ WholeLogins(table) /\ table \in [Ids -> Competitors \cup {Absent}]
  BY <1>1 DEF Inv, TypeOK, Tables
<1>5. \A i \in Ids : i \in todo <=> table[i] # Absent /\ table[i].username = NoLogin
  BY DEF Unnamed
<1>6. \A i \in Present(table) : table[i].username \notin free
  BY DEF Taken
<1>. HIDE DEF todo, free, o
<1>7. ASSUME NEW i \in Ids
      PROVE  IF table[i] = Absent \/ table[i].username # NoLogin
             THEN table[i] = table[i] /\ i \notin todo
             ELSE IF i \in todo
                  THEN /\ table[i] = WithLogin(table[i], table[i].username, table[i].password, table[i].claim)
                       /\ table[i].password => table[i].username # NoLogin
                  ELSE /\ table[i] = WithLogin(table[i], table[i].username, TRUE, TRUE)
                       /\ table[i].username # NoLogin
  <2>1. CASE table[i] = Absent \/ table[i].username # NoLogin
    BY <2>1, <1>5
  <2>2. CASE table[i] # Absent /\ table[i].username = NoLogin
    <3>1. i \in todo /\ table[i] \in Competitors
      BY <2>2, <1>4, <1>5
    <3>2. table[i] = WithLogin(table[i], table[i].username, table[i].password, table[i].claim)
      BY <3>1, OwnLogin
    <3>3. table[i].password => table[i].username # NoLogin
      BY <2>2, <1>4 DEF WholeLogins
    <3>. QED
      BY <2>2, <3>1, <3>2, <3>3
  <2>. QED
    BY <2>1, <2>2
<1>8. \A i, j \in Present(table) :
        table[i].username = table[j].username /\ table[i].username # NoLogin => i = j
  BY <1>4 DEF WholeLogins
<1>9. \A i \in Present(table) : table[i].username \notin Foreign
  BY <1>4 DEF WholeLogins
<1>10. Assigning(o, table, table)
  BY <1>2, <1>3, <1>6, <1>7, <1>8, <1>9 DEF Assigning
<1>11. Doing(o, acm, table, draft, history)
  BY <1>3, <1>4, <1>10 DEF Doing
<1>. QED
  BY <1>1, <1>3, <1>11 DEF Starts

LEMMA OthersStart ==
  ASSUME Inv, NEW r \in Requests, BeginRemove(r) \/ BeginApproveAll(r) \/ BeginCleanup(r)
  PROVE  \E o : Starts(r, o)
<1>1. op[r] = Idle /\ writer = Idle
  BY DEF BeginRemove, BeginApproveAll, BeginCleanup, Begin, MayRead
<1>2. draft = table /\ table \in [Ids -> Competitors \cup {Absent}] /\ history \subseteq Present(table)
  BY <1>1 DEF Inv, TypeOK
<1>3. CASE BeginRemove(r)
  <2>. DEFINE todo == Present(table)
              o == [kind |-> "remove", todo |-> todo, logins |-> {}]
  <2>1. op' = [op EXCEPT ![r] = o] /\ Elsewhere
    BY <1>3 DEF BeginRemove, Begin, Elsewhere
  <2>2. o \in Transactions /\ o.kind = "remove" /\ o.todo = todo
    BY DEF Transactions, Kinds
  <2>3. ASSUME NEW i \in Ids, table[i] # Absent
        PROVE  table[i] = WithLogin(table[i], table[i].username, table[i].password, table[i].claim)
    BY <1>2, <2>3, OwnLogin
  <2>4. todo = Present(table)
    OBVIOUS
  <2>. HIDE DEF o
  <2>5. Removing(o, table, table)
    BY <2>2, <2>3 DEF Removing
  <2>6. Doing(o, acm, table, draft, history)
    BY <1>2, <2>2, <2>5 DEF Doing
  <2>. QED
    BY <1>1, <2>1, <2>2, <2>6 DEF Starts
<1>4. CASE BeginApproveAll(r)
  <2>. DEFINE todo == {i \in Present(table) : ~table[i].approved}
              o == [kind |-> "approve", todo |-> todo, logins |-> {}]
  <2>1. op' = [op EXCEPT ![r] = o] /\ Elsewhere
    BY <1>4 DEF BeginApproveAll, Begin, Elsewhere
  <2>2. o \in Transactions /\ o.kind = "approve" /\ o.todo = todo
    BY DEF Transactions, Kinds
  <2>3. ASSUME NEW i \in Ids, table[i] # Absent, i \notin todo
        PROVE  table[i] = Approved(table[i])
    <3>1. table[i] \in Competitors /\ table[i].approved = TRUE
      BY <1>2, <2>3, CompetitorShape
    <3>. QED
      BY <3>1 DEF Approved, Competitors, Abstract!Competitors
  <2>. HIDE DEF o
  <2>4. Approving(o, table, table)
    BY <2>2, <2>3 DEF Approving
  <2>5. Doing(o, acm, table, draft, history)
    BY <1>2, <2>2, <2>4 DEF Doing
  <2>. QED
    BY <1>1, <2>1, <2>2, <2>5 DEF Starts
<1>5. CASE BeginCleanup(r)
  <2>. DEFINE todo == Present(table) \ history
              o == [kind |-> "cleanup", todo |-> todo, logins |-> {}]
  <2>1. op' = [op EXCEPT ![r] = o] /\ Elsewhere
    BY <1>5 DEF BeginCleanup, Begin, Elsewhere
  <2>2. o \in Transactions /\ o.kind = "cleanup" /\ o.todo = todo
    BY DEF Transactions, Kinds
  <2>. HIDE DEF o
  <2>3. Cleaning(o, table, table, history)
    BY <1>2, <2>2 DEF Cleaning
  <2>4. Doing(o, acm, table, draft, history)
    BY <1>2, <2>2, <2>3 DEF Doing
  <2>. QED
    BY <1>1, <2>1, <2>2, <2>4 DEF Starts
<1>. QED
  BY <1>3, <1>4, <1>5

LEMMA GenerateReads ==
  ASSUME Inv, NEW r \in Requests, BeginGenerate(r)
  PROVE  \E o : Reads(r, o)
<1>. DEFINE o == [kind |-> "generate", count |-> Cardinality(Present(table))]
<1>1. op[r] = Idle /\ op' = [op EXCEPT ![r] = o] /\ Elsewhere
  BY DEF BeginGenerate, Elsewhere
<1>2. Cardinality(Present(table)) \in Nat
  <2>1. Present(table) \subseteq Ids /\ IsFiniteSet(Ids)
    BY ParticipantsAssumption
  <2>. HIDE DEF Present, Abstract!Present
  <2>. QED
    BY <2>1, FS_Subset, FS_CardinalityType
<1>3. o \in Operations /\ o.kind = "generate"
  BY <1>2 DEF Operations
<1>. HIDE DEF o
<1>. QED
  BY <1>1, <1>3 DEF Reads, Kinds

LEMMA OneReads ==
  ASSUME Inv, NEW r \in Requests, NEW kind \in {"set", "delete"}, NEW i \in Ids, ReadOne(r, kind, i)
  PROVE  \E o : Reads(r, o)
<1>. DEFINE o == [kind |-> kind, id |-> i, row |-> table[i], current |-> TRUE]
<1>1. op[r] = Idle /\ op' = [op EXCEPT ![r] = o] /\ Elsewhere
  BY DEF ReadOne, Elsewhere
<1>2. table[i] \in Competitors
  BY DEF Inv, TypeOK, ReadOne
<1>3. o \in Operations /\ o.kind = kind /\ o.row = table[i] /\ o.id = i
  BY <1>2 DEF Operations
<1>. HIDE DEF o
<1>. QED
  BY <1>1, <1>3 DEF Reads, Kinds

LEMMA SetReplaces ==
  ASSUME Inv, NEW r \in Requests, NEW approved \in BOOLEAN, SetApproval(r, approved)
  PROVE  Replaces(r, op[r].id, [table[op[r].id] EXCEPT !.approved = approved])
<1>. DEFINE i == op[r].id
            x == table[i]
            y == [x EXCEPT !.approved = approved]
<1>1. op[r] # Idle /\ op[r].kind = "set" /\ op[r].current
  BY DEF SetApproval, StampMatches
<1>2. i \in Ids /\ x \in Competitors /\ op[r].row = x
  BY <1>1, SingleShape DEF Inv, Rows
<1>3. table \in [Ids -> Competitors \cup {Absent}] /\ x # Absent
  BY <1>2, AbsentIsNone DEF Inv, TypeOK
<1>4. [x EXCEPT !.approved = approved, !.claim = x.claim] = y
  BY <1>2 DEF Competitors, Abstract!Competitors
<1>5. WriteOne(r, y)
  BY <1>2, <1>4 DEF SetApproval
<1>6. /\ y \in Competitors /\ y.name = x.name /\ y.members = x.members
      /\ y.username = x.username /\ y.password = x.password /\ y.claim = x.claim
  BY <1>2 DEF Competitors, Abstract!Competitors
<1>. DEFINE e == [table EXCEPT ![i] = y]
<1>. HIDE DEF y
<1>7. e[i] = y /\ y # Absent /\ \A j \in Ids \ {i} : e[j] = table[j]
  BY <1>2, <1>3, <1>6, AbsentIsNone
<1>8. \A j \in Present(e) : /\ j \in Present(table)
                            /\ e[j].members = table[j].members /\ e[j].name = table[j].name
                            /\ e[j].username = table[j].username /\ e[j].password = table[j].password
                            /\ e[j].claim = table[j].claim
  BY <1>3, <1>6, <1>7
<1>9. EnrolledOnce(table, acm) => EnrolledOnce(e, acm)
  <2>. HIDE DEF e
  <2>. QED
    BY <1>8, KeptIfSame
<1>10. WholeLogins(table) => WholeLogins(e)
  <2>. HIDE DEF e
  <2>. QED
    BY <1>8 DEF WholeLogins
<1>. QED
  BY <1>1, <1>2, <1>3, <1>5, <1>6, <1>7, <1>9, <1>10 DEF Replaces, WriteOne, y

LEMMA DeleteReplaces ==
  ASSUME Inv, NEW r \in Requests, Delete(r)
  PROVE  Replaces(r, op[r].id, Absent)
<1>. DEFINE i == op[r].id
            e == [table EXCEPT ![i] = Absent]
<1>1. op[r] # Idle /\ op[r].kind = "delete" /\ op[r].current /\ i \notin history /\ WriteOne(r, Absent)
  BY DEF Delete, StampMatches, Deletable
<1>2. i \in Ids /\ table[i] \in Competitors
  BY <1>1, SingleShape DEF Inv, Rows
<1>3. table \in [Ids -> Competitors \cup {Absent}] /\ table[i] # Absent
  BY <1>2, AbsentIsNone DEF Inv, TypeOK
<1>4. \A j \in Present(e) : j \in Present(table) /\ e[j] = table[j]
  BY <1>2, <1>3
<1>5. EnrolledOnce(table, acm) => EnrolledOnce(e, acm)
  <2>. HIDE DEF e
  <2>. QED
    BY <1>4, KeptIfSame
<1>6. WholeLogins(table) => WholeLogins(e)
  <2>. HIDE DEF e
  <2>. QED
    BY <1>4 DEF WholeLogins
<1>. QED
  BY <1>1, <1>2, <1>3, <1>5, <1>6 DEF Replaces, WriteOne

(* Whatever happens is one of eight.                                       *)
LEMMA StepShape ==
  ASSUME Inv, [Next]_vars
  PROVE  \/ \E r \in Requests :
              \/ \E o : Starts(r, o) \/ Reads(r, o)
              \/ InTransaction(r) /\ \E d, todo, logins : Saved(r, d, todo, logins)
              \/ Commit(r) \/ Fail(r)
              \/ \E i, y : Replaces(r, i, y)
         \/ \E i \in Ids : Submit(i)
         \/ UNCHANGED <<acm, table, history, op, writer, draft>>
<1>1. ASSUME NEW r \in Requests, NEW name \in Names, NEW members \in SUBSET People,
             BeginRegister(r, name, members)
      PROVE  \E o : Starts(r, o)
  BY <1>1, RegisterStarts
<1>2. ASSUME NEW r \in Requests, NEW names \in Lists, BeginImport(r, names)
      PROVE  \E o : Starts(r, o)
  BY <1>2, ImportStarts
<1>3. ASSUME NEW r \in Requests, NEW logins \in Files, BeginAssign(r, logins)
      PROVE  \E o : Starts(r, o)
  <2>1. logins \in SUBSET Logins /\ ReadForLogins(r, logins) /\ op[r] = Idle
    BY <1>3, ParticipantsAssumption DEF BeginAssign
  <2>. QED
    BY <2>1, LoginsStart
<1>4. ASSUME NEW r \in Requests, AssignGenerated(r)
      PROVE  \E o : Starts(r, o)
  <2>1. PICK logins \in SUBSET Logins : ReadForLogins(r, logins)
    BY <1>4 DEF AssignGenerated
  <2>. QED
    BY <1>4, <2>1, LoginsStart DEF AssignGenerated
<1>5. ASSUME NEW r \in Requests, SetApproval(r, TRUE) \/ SetApproval(r, FALSE) \/ Delete(r)
      PROVE  \E i, y : Replaces(r, i, y)
  <2>1. CASE \E approved \in BOOLEAN : SetApproval(r, approved)
    BY <2>1, SetReplaces
  <2>2. CASE Delete(r)
    BY <2>2, DeleteReplaces
  <2>. QED
    BY <1>5, <2>1, <2>2
<1>6. CASE \E r \in Requests :
             \/ \E name \in Names, members \in SUBSET People : BeginRegister(r, name, members)
             \/ \E names \in Lists : BeginImport(r, names)
             \/ \E logins \in Files : BeginAssign(r, logins)
             \/ BeginGenerate(r) \/ AssignGenerated(r)
             \/ BeginRemove(r) \/ BeginApproveAll(r) \/ BeginCleanup(r)
             \/ \E i \in Ids, kind \in {"set", "delete"} : ReadOne(r, kind, i)
  BY <1>1, <1>2, <1>3, <1>4, <1>6, GenerateReads, OneReads, OthersStart
<1>7. CASE \E r \in Requests :
             \/ Save(r) \/ Commit(r) \/ Fail(r)
             \/ \E approved \in BOOLEAN : SetApproval(r, approved)
             \/ Delete(r)
  BY <1>5, <1>7, SaveSaves
<1>8. CASE End \/ UNCHANGED vars
  BY <1>8 DEF End, vars
<1>. QED
  BY <1>6, <1>7, <1>8 DEF Next

-----------------------------------------------------------------------------
(***************************************************************************)
(* Preservation.                                                           *)
(***************************************************************************)
LEMMA InvInit == Init => Inv
<1>. SUFFICES ASSUME Init PROVE Inv
  OBVIOUS
<1>. USE DEF Init
<1>1. Present(table) = {} /\ table \in [Ids -> Competitors \cup {Absent}]
  OBVIOUS
<1>2. TypeOK
  BY <1>1 DEF TypeOK
<1>3. \A r \in Requests : ~InTransaction(r)
  BY DEF InTransaction
<1>4. Locks /\ Rows /\ Progress
  BY <1>3 DEF Locks, Rows, Progress
<1>5. Tables
  BY <1>1 DEF Tables, EnrolledOnce, WholeLogins
<1>. QED
  BY <1>2, <1>4, <1>5 DEF Inv

(* Outdating changes no more than what is current.                         *)
LEMMA OutdatedShape ==
  ASSUME TypeOK, NEW ids \in SUBSET Ids, NEW q \in Requests
  PROVE  /\ Outdated(ids)[q] \in Operations \cup {Idle}
         /\ op[q] = Idle => Outdated(ids)[q] = Idle
         /\ op[q] # Idle =>
              /\ Outdated(ids)[q] # Idle
              /\ Outdated(ids)[q].kind = op[q].kind
              /\ op[q].kind \notin {"set", "delete"} => Outdated(ids)[q] = op[q]
              /\ op[q].kind \in {"set", "delete"} =>
                   /\ Outdated(ids)[q].id = op[q].id /\ Outdated(ids)[q].row = op[q].row
                   /\ Outdated(ids)[q].current => op[q].current /\ op[q].id \notin ids
<1>1. CASE op[q] = Idle \/ op[q].kind \notin {"set", "delete"} \/ op[q].id \notin ids
  <2>1. Outdated(ids)[q] = op[q]
    BY <1>1 DEF Outdated
  <2>. QED
    BY <2>1, <1>1 DEF TypeOK
<1>2. CASE op[q] # Idle /\ op[q].kind \in {"set", "delete"} /\ op[q].id \in ids
  <2>. DEFINE o == op[q]
              x == [kind |-> o.kind, id |-> o.id, row |-> o.row, current |-> FALSE]
  <2>1. Outdated(ids)[q] = [o EXCEPT !.current = FALSE]
    BY <1>2 DEF Outdated
  <2>2. /\ o.id \in Ids /\ o.row \in Competitors
        /\ o = [kind |-> o.kind, id |-> o.id, row |-> o.row, current |-> o.current]
    BY <1>2, SingleShape
  <2>3. [o EXCEPT !.current = FALSE] = x
    <3>1. PICK no \in BOOLEAN : no = FALSE
      OBVIOUS
    <3>2. [[kind |-> o.kind, id |-> o.id, row |-> o.row, current |-> o.current] EXCEPT !.current = no]
            = [kind |-> o.kind, id |-> o.id, row |-> o.row, current |-> no]
      OBVIOUS
    <3>3. [o EXCEPT !.current = no] = [kind |-> o.kind, id |-> o.id, row |-> o.row, current |-> no]
      BY <2>2, <3>2
    <3>. QED
      BY <3>1, <3>3
  <2>4. x \in Operations
    BY <1>2, <2>2 DEF Operations
  <2>5. /\ x.kind = o.kind /\ x.id = o.id /\ x.row = o.row /\ ~x.current
    OBVIOUS
  <2>6. x # Idle
    BY <2>4, IdleAssumption
  <2>. QED
    BY <1>2, <2>1, <2>3, <2>4, <2>5, <2>6
<1>. QED
  BY <1>1, <1>2

LEMMA StartKeeps ==
  ASSUME Inv, ended' \in BOOLEAN, NEW r \in Requests, NEW o, Starts(r, o)
  PROVE  Inv'
<1>1. /\ TypeOK /\ op' = [op EXCEPT ![r] = o] /\ op \in [Requests -> Operations \cup {Idle}]
      /\ writer = Idle /\ o \in Transactions
      /\ UNCHANGED <<acm, table, history, writer, draft>>
  BY DEF Inv, TypeOK, Starts, Elsewhere
<1>2. o \in Operations /\ o # Idle /\ o.kind \in Kinds
  BY <1>1, IdleAssumption DEF Operations, Transactions, Kinds
<1>3. op'[r] = o /\ \A q \in Requests \ {r} : op'[q] = op[q]
  BY <1>1
<1>4. TypeOK'
  BY <1>1, <1>2 DEF TypeOK
<1>5. Locks'
  BY <1>1 DEF Locks
<1>6. Rows'
  BY <1>1, <1>2, <1>3 DEF Inv, Rows, Kinds
<1>7. ASSUME NEW q \in Requests, InTransaction(q)'
      PROVE  Doing(op[q], acm, table, draft, history)'
  <2>1. CASE q = r
    BY <2>1, <1>1, <1>3 DEF Starts
  <2>2. CASE q # r
    <3>1. op'[q] = op[q] /\ InTransaction(q)
      BY <2>2, <1>3, <1>7 DEF InTransaction
    <3>. QED
      BY <3>1, <1>1 DEF Inv, Progress
  <2>. QED
    BY <2>1, <2>2
<1>8. Progress'
  BY <1>7 DEF Progress
<1>9. Tables'
  BY <1>1 DEF Inv, Tables
<1>. QED
  BY <1>4, <1>5, <1>6, <1>8, <1>9 DEF Inv

LEMMA ReadKeeps ==
  ASSUME Inv, ended' \in BOOLEAN, NEW r \in Requests, NEW o, Reads(r, o)
  PROVE  Inv'
<1>1. /\ TypeOK /\ op' = [op EXCEPT ![r] = o] /\ op \in [Requests -> Operations \cup {Idle}]
      /\ op[r] = Idle /\ o \in Operations /\ o.kind \notin Kinds
      /\ o.kind \in {"set", "delete"} => o.row = table[o.id]
      /\ UNCHANGED <<acm, table, history, writer, draft>>
  BY DEF Inv, TypeOK, Reads, Elsewhere
<1>2. op'[r] = o /\ \A q \in Requests \ {r} : op'[q] = op[q]
  BY <1>1
<1>3. \A q \in Requests : InTransaction(q)' <=> InTransaction(q) /\ q # r
  BY <1>1, <1>2 DEF InTransaction
<1>4. TypeOK'
  BY <1>1 DEF TypeOK
<1>5. Locks'
  <2>1. ASSUME writer # Idle PROVE InTransaction(writer)' /\ writer \in Requests
    BY <2>1, <1>1, <1>3 DEF Inv, Locks, TypeOK, InTransaction
  <2>. QED
    BY <2>1, <1>1, <1>3 DEF Inv, Locks, InTransaction
<1>6. Rows'
  BY <1>1, <1>2 DEF Inv, Rows
<1>7. Progress'
  BY <1>1, <1>2, <1>3 DEF Inv, Progress
<1>8. Tables'
  BY <1>1 DEF Inv, Tables
<1>. QED
  BY <1>4, <1>5, <1>6, <1>7, <1>8 DEF Inv

LEMMA SaveKeeps ==
  ASSUME Inv, ended' \in BOOLEAN, NEW r \in Requests, InTransaction(r),
         NEW d, NEW todo, NEW logins, Saved(r, d, todo, logins)
  PROVE  Inv'
<1>. DEFINE o == [kind |-> op[r].kind, todo |-> todo, logins |-> logins]
<1>1. /\ TypeOK /\ op' = [op EXCEPT ![r] = o] /\ op \in [Requests -> Operations \cup {Idle}]
      /\ MayWrite(r) /\ o \in Transactions /\ Doing(o, acm, table, d, history)
      /\ d \in [Ids -> Competitors \cup {Absent}]
      /\ writer' = r /\ draft' = d /\ UNCHANGED <<acm, table, history>>
  BY DEF Inv, TypeOK, Saved
<1>2. o.kind = op[r].kind /\ o.kind \in Kinds
  BY DEF InTransaction
<1>. HIDE DEF o
<1>3. o \in Operations /\ o # Idle /\ r # Idle
  BY <1>1, IdleAssumption DEF Operations
<1>4. op'[r] = o /\ \A q \in Requests \ {r} : op'[q] = op[q]
  BY <1>1
<1>5. \A q \in Requests \ {r} : ~InTransaction(q)
  BY <1>1, <1>3 DEF Inv, Locks, MayWrite
<1>6. \A q \in Requests : InTransaction(q)' <=> q = r
  BY <1>2, <1>3, <1>4, <1>5 DEF InTransaction
<1>7. TypeOK'
  BY <1>1, <1>3 DEF TypeOK
<1>8. Locks'
  BY <1>1, <1>6 DEF Locks, InTransaction
<1>9. Rows'
  BY <1>1, <1>2, <1>4 DEF Inv, Rows, Kinds
<1>10. Progress'
  BY <1>1, <1>4, <1>6 DEF Progress
<1>11. Tables'
  BY <1>1 DEF Inv, Tables
<1>. QED
  BY <1>7, <1>8, <1>9, <1>10, <1>11 DEF Inv

LEMMA FailKeeps ==
  ASSUME Inv, ended' \in BOOLEAN, NEW r \in Requests, Fail(r)
  PROVE  Inv'
<1>1. /\ TypeOK /\ op' = [op EXCEPT ![r] = Idle] /\ op \in [Requests -> Operations \cup {Idle}]
      /\ table' = table /\ draft' = (IF writer = r THEN table ELSE draft)
      /\ writer' = (IF writer = r THEN Idle ELSE writer) /\ UNCHANGED <<acm, history>>
  BY DEF Inv, TypeOK, Fail, UndoneBy
<1>2. op'[r] = Idle /\ \A q \in Requests \ {r} : op'[q] = op[q]
  BY <1>1
<1>3. \A q \in Requests : InTransaction(q)' <=> InTransaction(q) /\ q # r
  BY <1>2 DEF InTransaction
<1>4. TypeOK'
  BY <1>1 DEF TypeOK
<1>5. Locks'
  <2>1. ASSUME writer' # Idle
        PROVE  writer' = writer /\ InTransaction(writer)' /\ writer \in Requests
    BY <2>1, <1>1, <1>3 DEF Inv, Locks, TypeOK, InTransaction
  <2>. QED
    BY <2>1, <1>1, <1>3 DEF Inv, Locks, InTransaction
<1>6. Rows'
  BY <1>1, <1>2 DEF Inv, Rows
<1>7. ASSUME NEW q \in Requests, InTransaction(q)'
      PROVE  Doing(op[q], acm, table, draft, history)'
  <2>1. q # r /\ InTransaction(q) /\ op'[q] = op[q]
    BY <1>2, <1>3, <1>7
  <2>2. writer # r
    BY <2>1, IdleAssumption DEF Inv, Locks
  <2>. QED
    BY <2>1, <2>2, <1>1 DEF Inv, Progress
<1>8. Progress'
  BY <1>7 DEF Progress
<1>9. Tables'
  BY <1>1 DEF Inv, Tables
<1>. QED
  BY <1>4, <1>5, <1>6, <1>8, <1>9 DEF Inv

LEMMA CommitKeeps ==
  ASSUME Inv, ended' \in BOOLEAN, NEW r \in Requests, Commit(r)
  PROVE  Inv'
<1>1. TypeOK /\ op \in [Requests -> Operations \cup {Idle}] /\ InTransaction(r) /\ op[r].todo = {}
  BY DEF Inv, TypeOK, Commit
<1>2. CASE writer = r
  <2>. DEFINE ids == IF op[r].kind = "remove" THEN Ids ELSE {i \in Ids : draft[i] # table[i]}
  <2>1. /\ table' = draft /\ writer' = Idle /\ op' = [Outdated(ids) EXCEPT ![r] = Idle]
        /\ UNCHANGED <<acm, history, draft>>
    BY <1>2 DEF Commit
  <2>2. ids \in SUBSET Ids /\ \A i \in Ids \ ids : draft[i] = table[i]
    OBVIOUS
  <2>. HIDE DEF ids
  <2>3. op'[r] = Idle /\ \A q \in Requests \ {r} : op'[q] = Outdated(ids)[q]
    BY <2>1 DEF Outdated
  <2>4. op' \in [Requests -> Operations \cup {Idle}]
    <3>1. DOMAIN op' = Requests /\ op' = [q \in Requests |-> op'[q]]
      BY <2>1 DEF Outdated
    <3>2. \A q \in Requests : op'[q] \in Operations \cup {Idle}
      BY <2>2, <2>3, <1>1, OutdatedShape
    <3>. QED
      BY <3>1, <3>2
  <2>5. \A q \in Requests \ {r} : ~InTransaction(q)
    BY <1>2, IdleAssumption DEF Inv, Locks
  <2>6. \A q \in Requests : ~InTransaction(q)'
    BY <2>2, <2>3, <2>5, <1>1, OutdatedShape DEF InTransaction
  <2>7. EnrolledOnce(draft, acm) /\ WholeLogins(draft) /\ history \subseteq Present(draft)
    BY <1>1, DoneKeeps DEF Inv, TypeOK, Progress, Tables, InTransaction
  <2>8. TypeOK'
    BY <2>1, <2>4, <2>7, <1>1 DEF TypeOK
  <2>9. Locks'
    BY <2>1 DEF Locks
  <2>10. ASSUME NEW q \in Requests, op'[q] # Idle, op'[q].kind \in {"set", "delete"}, op'[q].current
         PROVE  op'[q].row = table'[op'[q].id]
    <3>1. q # r /\ op'[q] = Outdated(ids)[q]
      BY <2>3, <2>10
    <3>2. /\ op[q] # Idle /\ op[q].kind \in {"set", "delete"} /\ op[q].current /\ op[q].id \notin ids
          /\ op'[q].id = op[q].id /\ op'[q].row = op[q].row
      BY <3>1, <2>2, <2>10, <1>1, OutdatedShape
    <3>3. op[q].id \in Ids /\ op[q].row = table[op[q].id]
      BY <3>2, SingleShape, <1>1 DEF Inv, Rows
    <3>. QED
      BY <3>2, <3>3, <2>1, <2>2
  <2>11. Rows'
    BY <2>10 DEF Rows
  <2>12. Progress'
    BY <2>6 DEF Progress
  <2>13. Tables'
    BY <2>1, <2>7 DEF Tables
  <2>. QED
    BY <2>8, <2>9, <2>11, <2>12, <2>13 DEF Inv
<1>3. CASE writer # r
  <2>1. op' = [op EXCEPT ![r] = Idle] /\ UNCHANGED <<acm, table, history, writer, draft>>
    BY <1>3 DEF Commit
  <2>2. op'[r] = Idle /\ \A q \in Requests \ {r} : op'[q] = op[q]
    BY <2>1, <1>1
  <2>3. \A q \in Requests : InTransaction(q)' <=> InTransaction(q) /\ q # r
    BY <2>2 DEF InTransaction
  <2>4. TypeOK'
    BY <2>1, <1>1 DEF TypeOK
  <2>5. Locks'
    BY <2>1, <2>3, <1>1, <1>3 DEF Inv, Locks, TypeOK
  <2>6. Rows'
    BY <2>1, <2>2 DEF Inv, Rows
  <2>7. Progress'
    BY <2>1, <2>2, <2>3 DEF Inv, Progress
  <2>8. Tables'
    BY <2>1 DEF Inv, Tables
  <2>. QED
    BY <2>4, <2>5, <2>6, <2>7, <2>8 DEF Inv
<1>. QED
  BY <1>2, <1>3

LEMMA ReplaceKeeps ==
  ASSUME Inv, ended' \in BOOLEAN, NEW r \in Requests, NEW i, NEW y, Replaces(r, i, y)
  PROVE  Inv'
<1>1. /\ TypeOK /\ i \in Ids /\ y \in Competitors \cup {Absent}
      /\ op[r] # Idle /\ op[r].kind \in {"set", "delete"} /\ op[r].id = i
      /\ \A q \in Requests : ~InTransaction(q)
      /\ table[i] # Absent /\ (y # Absent \/ i \notin history)
      /\ table' = [table EXCEPT ![i] = y] /\ draft' = table'
      /\ op' = [Outdated({i}) EXCEPT ![r] = Idle]
      /\ UNCHANGED <<acm, history, writer>>
      /\ table \in [Ids -> Competitors \cup {Absent}] /\ op \in [Requests -> Operations \cup {Idle}]
  BY DEF Inv, TypeOK, Replaces
<1>2. /\ table' \in [Ids -> Competitors \cup {Absent}] /\ table'[i] = y
      /\ \A j \in Ids \ {i} : table'[j] = table[j]
  BY <1>1
<1>3. op'[r] = Idle /\ \A q \in Requests \ {r} : op'[q] = Outdated({i})[q]
  BY <1>1 DEF Outdated
<1>4. {i} \in SUBSET Ids
  BY <1>1
<1>5. op' \in [Requests -> Operations \cup {Idle}]
  <2>1. DOMAIN op' = Requests /\ op' = [q \in Requests |-> op'[q]]
    BY <1>1 DEF Outdated
  <2>2. \A q \in Requests : op'[q] \in Operations \cup {Idle}
    BY <1>1, <1>3, <1>4, OutdatedShape
  <2>. QED
    BY <2>1, <2>2
<1>6. writer = Idle
  BY <1>1 DEF Inv, Locks, TypeOK
<1>7. \A q \in Requests : ~InTransaction(q)'
  BY <1>1, <1>3, <1>4, OutdatedShape DEF InTransaction
<1>8. history \subseteq Present(table')
  BY <1>1, <1>2 DEF TypeOK
<1>9. TypeOK'
  BY <1>1, <1>2, <1>5, <1>8 DEF TypeOK
<1>10. Locks'
  BY <1>1, <1>6 DEF Locks
<1>11. ASSUME NEW q \in Requests, op'[q] # Idle, op'[q].kind \in {"set", "delete"}, op'[q].current
       PROVE  op'[q].row = table'[op'[q].id]
  <2>1. q # r /\ op'[q] = Outdated({i})[q]
    BY <1>3, <1>11
  <2>2. /\ op[q] # Idle /\ op[q].kind \in {"set", "delete"} /\ op[q].current /\ op[q].id \notin {i}
        /\ op'[q].id = op[q].id /\ op'[q].row = op[q].row
    BY <2>1, <1>4, <1>11, <1>1, OutdatedShape
  <2>3. op[q].id \in Ids /\ op[q].row = table[op[q].id]
    BY <2>2, SingleShape, <1>1 DEF Inv, Rows
  <2>. QED
    BY <2>2, <2>3, <1>2
<1>12. Rows'
  BY <1>11 DEF Rows
<1>13. Progress'
  BY <1>7 DEF Progress
<1>14. Tables'
  BY <1>1 DEF Inv, Tables, Replaces
<1>. QED
  BY <1>9, <1>10, <1>12, <1>13, <1>14 DEF Inv

LEMMA SubmitKeeps ==
  ASSUME Inv, ended' \in BOOLEAN, NEW i \in Ids, Submit(i)
  PROVE  Inv'
<1>1. /\ table[i] # Absent /\ history' = history \cup {i}
      /\ \A q \in Requests : op[q] # Idle => op[q].kind # "cleanup"
      /\ UNCHANGED <<acm, table, op, writer, draft>>
  BY DEF Submit
<1>2. TypeOK'
  BY <1>1 DEF Inv, TypeOK
<1>3. Locks' /\ Rows'
  BY <1>1 DEF Inv, Locks, Rows, InTransaction
<1>4. ASSUME NEW q \in Requests, InTransaction(q)
      PROVE  Doing(op[q], acm, table, draft, history')
  BY <1>1, <1>4 DEF Inv, Progress, Doing, InTransaction
<1>5. Progress'
  BY <1>1, <1>4 DEF Progress, InTransaction
<1>6. Tables'
  BY <1>1 DEF Inv, Tables
<1>. QED
  BY <1>2, <1>3, <1>5, <1>6 DEF Inv

LEMMA StutterKeeps ==
  ASSUME Inv, ended' \in BOOLEAN, UNCHANGED <<acm, table, history, op, writer, draft>>
  PROVE  Inv'
  BY DEF Inv, TypeOK, Locks, Rows, Progress, Tables, InTransaction

LEMMA EndedStays ==
  ASSUME TypeOK, [Next]_vars
  PROVE  ended' \in BOOLEAN
<1>1. ASSUME NEW r \in Requests, NEW kind, NEW todo, NEW logins, Begin(r, kind, todo, logins)
      PROVE  ended' = ended
  BY <1>1 DEF Begin
<1>2. ASSUME NEW r \in Requests, NEW t, NEW todo, NEW logins, Write(r, t, todo, logins)
      PROVE  ended' = ended
  BY <1>2 DEF Write
<1>3. ASSUME NEW r \in Requests, Save(r)
      PROVE  ended' = ended
  BY <1>2, <1>3 DEF Save, Create, SaveLogin, RemoveLogin, Approve, DeleteOne
<1>4. ASSUME NEW r \in Requests,
             \/ \E name \in Names, members \in SUBSET People : BeginRegister(r, name, members)
             \/ \E names \in Lists : BeginImport(r, names)
             \/ \E logins \in Files : BeginAssign(r, logins)
             \/ AssignGenerated(r) \/ BeginRemove(r) \/ BeginApproveAll(r) \/ BeginCleanup(r)
      PROVE  ended' = ended
  BY <1>1, <1>4 DEF BeginRegister, BeginImport, BeginAssign, AssignGenerated, ReadForLogins,
                    BeginRemove, BeginApproveAll, BeginCleanup
<1>5. ASSUME NEW r \in Requests, BeginGenerate(r) \/ Commit(r) \/ Fail(r)
      PROVE  ended' = ended
  BY <1>5 DEF BeginGenerate, Commit, Fail
<1>6. ASSUME NEW r \in Requests,
             \/ \E i \in Ids, kind \in {"set", "delete"} : ReadOne(r, kind, i)
             \/ \E approved \in BOOLEAN : SetApproval(r, approved)
             \/ Delete(r)
      PROVE  ended' = ended
  BY <1>6 DEF ReadOne, SetApproval, Delete, WriteOne
<1>7. ended' = ended \/ ended' = TRUE
  BY <1>3, <1>4, <1>5, <1>6 DEF vars, Next, Submit, End
<1>. QED
  BY <1>7 DEF TypeOK

LEMMA InvStep == Inv /\ [Next]_vars => Inv'
<1>. SUFFICES ASSUME Inv, [Next]_vars PROVE Inv'
  OBVIOUS
<1>1. ended' \in BOOLEAN
  BY EndedStays DEF Inv
<1>. QED
  BY <1>1, StepShape, StartKeeps, ReadKeeps, SaveKeeps, CommitKeeps, FailKeeps, ReplaceKeeps,
     SubmitKeeps, StutterKeeps

LEMMA Invariance == Spec => []Inv
  BY InvInit, InvStep, PTL DEF Spec

-----------------------------------------------------------------------------
(***************************************************************************)
(* The refinement: the end of a transaction is one abstract operation.     *)
(***************************************************************************)
ThreeSaved(x, u, p, c) == [x EXCEPT !.username = u, !.password = p, !.claim = c]

LEMMA ThreeFields ==
  ASSUME NEW x \in Competitors, NEW u, NEW p, NEW c
  PROVE  ThreeSaved(x, u, p, c) = WithLogin(x, u, p, c)
<1>1. [x EXCEPT !.username = u, !.password = p, !.claim = c]
        = [[[x EXCEPT !.username = u] EXCEPT !.password = p] EXCEPT !.claim = c]
  OBVIOUS
<1>2. ThreeSaved(x, u, p, c) = Claimed(Locked(Renamed(x, u), p), c)
  BY <1>1 DEF ThreeSaved, Claimed, Locked, Renamed
<1>3. Renamed(x, u) = WithLogin(x, u, x.password, x.claim)
  BY OwnLogin, FieldSaved
<1>4. Locked(WithLogin(x, u, x.password, x.claim), p) = WithLogin(x, u, p, x.claim)
  BY FieldSaved
<1>5. Claimed(WithLogin(x, u, p, x.claim), c) = WithLogin(x, u, p, c)
  BY FieldSaved
<1>. QED
  BY <1>2, <1>3, <1>4, <1>5

LEMMA DoneIsOneStep ==
  ASSUME TypeOK, TypeOK', WholeLogins(table),
         NEW o, o.kind \in Kinds, o.todo = {}, Doing(o, acm, table, table', history),
         history' = history
  PROVE  Abstract!Next
<1>. DEFINE t == table
            d == table'
<1>1. t \in [Ids -> Competitors \cup {Absent}] /\ d \in [Ids -> Competitors \cup {Absent}]
  BY DEF TypeOK
<1>2. d \in [Ids -> Abstract!Competitors \cup {Absent}]
  BY <1>1 DEF Competitors
<1>3. CASE o.kind = "register"
  <2>1. PICK i \in Ids \ Present(t), item \in Items :
          /\ d = [t EXCEPT ![i] = New(item.name, item.members, FALSE)]
          /\ \A j \in Present(t) : t[j].members \cap item.members = {}
    BY <1>3 DEF Doing, Registering
  <2>2. d[i].name = item.name /\ d[i].members = item.members
    BY <1>1, <2>1
  <2>3. New(item.name, item.members, FALSE) \in Competitors
    BY NewIsCompetitor DEF Items
  <2>4. d[i] # Absent
    <3>. HIDE DEF d
    <3>. QED
      BY <1>1, <2>1, <2>3, AbsentIsNone
  <2>5. Abstract!Register(i)
    BY <2>1, <2>2, <2>4 DEF Abstract!Register
  <2>. QED
    BY <1>2, <2>5 DEF Abstract!Next
<1>4. CASE o.kind = "import"
  <2>1. Importing(o, acm, t, d)
    BY <1>4 DEF Doing
  <2>. DEFINE added == Present(d) \ Present(t)
  <2>2. \A i \in Ids : i \in added <=> d[i] # t[i]
    BY <2>1 DEF Importing
  <2>3. ASSUME NEW i \in Ids
        PROVE  d[i] = IF i \in added THEN New(d[i].name, {}, TRUE) ELSE t[i]
    BY <2>1, <2>2 DEF Importing
  <2>4. \A i \in added, j \in Present(d) : d[i].name = d[j].name => i = j
    BY <2>1, <2>2 DEF Importing
  <2>5. d = [i \in Ids |-> IF i \in added THEN New(d[i].name, {}, TRUE) ELSE t[i]]
    <3>. HIDE DEF d, added, New, Abstract!New
    <3>. QED
      BY <1>1, <2>3
  <2>6. Abstract!Import
    BY <2>4, <2>5 DEF Abstract!Import
  <2>. QED
    BY <1>2, <2>6 DEF Abstract!Next
<1>5. CASE o.kind = "assign"
  <2>1. Assigning(o, t, d)
    BY <1>5 DEF Doing
  <2>2. Present(d) = Present(t)
    BY <2>1 DEF Assigning
  <2>3. PICK yes \in BOOLEAN : yes = TRUE
    OBVIOUS
  <2>4. ASSUME NEW i \in Ids
        PROVE  d[i] = IF i \in Present(t) /\ t[i].username = NoLogin
                      THEN [t[i] EXCEPT !.username = d[i].username, !.password = yes, !.claim = yes]
                      ELSE t[i]
    <3>1. CASE t[i] # Absent /\ t[i].username = NoLogin
      <4>1. t[i] \in Competitors
        BY <3>1, <1>1
      <4>2. d[i] = WithLogin(t[i], d[i].username, yes, yes)
        BY <3>1, <2>1, <2>3 DEF Assigning
      <4>3. ThreeSaved(t[i], d[i].username, yes, yes) = WithLogin(t[i], d[i].username, yes, yes)
        BY <4>1, ThreeFields
      <4>. QED
        BY <3>1, <4>2, <4>3 DEF ThreeSaved
    <3>2. CASE t[i] = Absent \/ t[i].username # NoLogin
      BY <3>2, <2>1 DEF Assigning
    <3>. QED
      BY <3>1, <3>2
  <2>5. d = [i \in Ids |-> IF i \in Present(t) /\ t[i].username = NoLogin
                           THEN [t[i] EXCEPT !.username = d[i].username, !.password = TRUE, !.claim = TRUE]
                           ELSE t[i]]
    <3>. HIDE DEF d, Present, Abstract!Present
    <3>. QED
      BY <1>1, <2>3, <2>4
  <2>6. ASSUME NEW i \in Present(d)
        PROVE  d[i].username \in Logins \ Foreign /\ d[i].username # NoLogin
    <3>1. d[i] \in Competitors /\ i \in Ids /\ t[i] # Absent
      BY <1>1, <2>2
    <3>2. d[i].username \in Logins \cup {NoLogin}
      BY <3>1, CompetitorShape
    <3>3. d[i].username \notin Foreign /\ d[i].username # NoLogin
      BY <2>1, <3>1 DEF Assigning
    <3>. QED
      BY <3>2, <3>3
  <2>7. \A i, j \in Present(d) : d[i].username = d[j].username => i = j
    BY <2>1, <2>6 DEF Assigning
  <2>8. Abstract!AssignLogins
    BY <2>2, <2>5, <2>6, <2>7 DEF Abstract!AssignLogins
  <2>. QED
    BY <1>2, <2>8 DEF Abstract!Next
<1>6. CASE o.kind = "remove"
  <2>1. Removing(o, t, d)
    BY <1>6 DEF Doing
  <2>2. PICK no \in BOOLEAN : no = FALSE
    OBVIOUS
  <2>3. ASSUME NEW i \in Ids
        PROVE  d[i] = IF i \in Present(t)
                      THEN [t[i] EXCEPT !.username = NoLogin, !.password = no, !.claim = no]
                      ELSE Absent
    <3>1. CASE t[i] # Absent
      <4>1. t[i] \in Competitors
        BY <3>1, <1>1
      <4>2. d[i] = WithLogin(t[i], NoLogin, no, no)
        BY <3>1, <2>1, <2>2 DEF Removing
      <4>3. ThreeSaved(t[i], NoLogin, no, no) = WithLogin(t[i], NoLogin, no, no)
        BY <4>1, ThreeFields
      <4>. QED
        BY <3>1, <4>2, <4>3 DEF ThreeSaved
    <3>2. CASE t[i] = Absent
      BY <3>2, <2>1 DEF Removing
    <3>. QED
      BY <3>1, <3>2
  <2>4. d = [i \in Ids |-> IF i \in Present(t)
                           THEN [t[i] EXCEPT !.username = NoLogin, !.password = FALSE, !.claim = FALSE]
                           ELSE Absent]
    <3>. HIDE DEF d, Present, Abstract!Present
    <3>. QED
      BY <1>1, <2>2, <2>3
  <2>5. Abstract!RemoveLogins
    BY <2>4 DEF Abstract!RemoveLogins
  <2>. QED
    BY <1>2, <2>5 DEF Abstract!Next
<1>7. CASE o.kind = "approve"
  <2>1. \A i \in Ids : d[i] = IF i \in Present(t) THEN [t[i] EXCEPT !.approved = TRUE] ELSE Absent
    BY <1>7 DEF Doing, Approving, Approved
  <2>2. d = [i \in Ids |-> IF i \in Present(t) THEN [t[i] EXCEPT !.approved = TRUE] ELSE Absent]
    <3>. HIDE DEF d, Present, Abstract!Present
    <3>. QED
      BY <1>1, <2>1
  <2>3. Abstract!ApproveAll
    BY <2>2 DEF Abstract!ApproveAll
  <2>. QED
    BY <1>2, <2>3 DEF Abstract!Next
<1>8. CASE o.kind = "cleanup"
  <2>1. \A i \in Ids : d[i] = IF i \in history THEN t[i] ELSE Absent
    BY <1>8 DEF Doing, Cleaning
  <2>2. d = [i \in Ids |-> IF i \in history THEN t[i] ELSE Absent]
    BY <1>1, <2>1
  <2>3. Abstract!DeleteWithoutHistory
    BY <2>2 DEF Abstract!DeleteWithoutHistory
  <2>. QED
    BY <1>2, <2>3 DEF Abstract!Next
<1>. QED
  BY <1>3, <1>4, <1>5, <1>6, <1>7, <1>8 DEF Kinds

LEMMA StepRefines ==
  ASSUME Inv, Inv', [Next]_vars
  PROVE  [Abstract!Next]_<<table, history>>
<1>1. table' \in [Ids -> Abstract!Competitors \cup {Absent}]
  BY DEF Inv, TypeOK, Competitors
<1>2. ASSUME NEW r \in Requests, Commit(r)
      PROVE  [Abstract!Next]_<<table, history>>
  <2>1. CASE writer = r
    <3>1. /\ InTransaction(r) /\ op[r].todo = {} /\ table' = draft /\ history' = history
      BY <1>2, <2>1 DEF Commit
    <3>2. Doing(op[r], acm, table, table', history) /\ op[r].kind \in Kinds
      BY <3>1 DEF Inv, Progress, InTransaction
    <3>. QED
      BY <3>1, <3>2, DoneIsOneStep DEF Inv, Tables
  <2>2. CASE writer # r
    BY <1>2, <2>2 DEF Commit
  <2>. QED
    BY <2>1, <2>2
<1>3. ASSUME NEW r \in Requests, NEW i, NEW y, Replaces(r, i, y)
      PROVE  Abstract!Next
  <2>1. /\ i \in Ids /\ table[i] # Absent /\ table' = [table EXCEPT ![i] = y] /\ history' = history
        /\ table \in [Ids -> Competitors \cup {Absent}]
    BY <1>3 DEF Replaces, Inv, TypeOK
  <2>2. CASE y = Absent /\ i \notin history
    <3>1. Abstract!Delete(i)
      BY <2>1, <2>2 DEF Abstract!Delete
    <3>. QED
      BY <1>1, <2>1, <3>1 DEF Abstract!Next
  <2>3. CASE \E approved \in BOOLEAN : y = [table[i] EXCEPT !.approved = approved]
    <3>1. PICK approved \in BOOLEAN : y = [table[i] EXCEPT !.approved = approved]
      BY <2>3
    <3>2. table' = [table EXCEPT ![i].approved = approved]
      BY <2>1, <3>1
    <3>3. Abstract!SetApproval(i, approved)
      BY <2>1, <3>2 DEF Abstract!SetApproval
    <3>. QED
      BY <1>1, <2>1, <3>3 DEF Abstract!Next
  <2>. QED
    BY <1>3, <2>2, <2>3 DEF Replaces
<1>4. ASSUME NEW i \in Ids, Submit(i)
      PROVE  Abstract!Next
  <2>1. Abstract!Submit(i)
    BY <1>4 DEF Submit, Abstract!Submit
  <2>. QED
    BY <1>1, <2>1 DEF Abstract!Next
<1>5. ASSUME NEW r \in Requests,
             \/ \E o : Starts(r, o) \/ Reads(r, o)
             \/ \E d, todo, logins : Saved(r, d, todo, logins)
             \/ Fail(r)
      PROVE  UNCHANGED <<table, history>>
  BY <1>5 DEF Starts, Reads, Elsewhere, Saved, Fail, UndoneBy
<1>. QED
  BY StepShape, <1>2, <1>3, <1>4, <1>5

-----------------------------------------------------------------------------
(* The state is well formed: a draft differs from the table only while a   *)
(* transaction writes, and only participants have a history.               *)
THEOREM TypeCorrect == Spec => []TypeOK
<1>1. Inv => TypeOK
  BY DEF Inv
<1>. QED
  BY <1>1, Invariance, PTL

(* For any number of concurrent registrations and imports: nobody is a     *)
(* member of two participants, and no name is imported twice.              *)
THEOREM NobodyTwice == Spec => []EnrolsOnce
<1>1. Inv => EnrolsOnce
  BY DEF Inv, Tables, EnrolledOnce, EnrolsOnce
<1>. QED
  BY <1>1, Invariance, PTL

(* However a bulk operation on logins is interrupted or interleaved, each  *)
(* participant has a whole login or none, and no two have the same.        *)
THEOREM LoginsAreWhole == Spec => []LoginsWhole
<1>1. Inv => LoginsWhole
  BY DEF Inv, Tables, WholeLogins, LoginsWhole
<1>. QED
  BY <1>1, Invariance, PTL

(* The transactions, their failures and the two operations without one     *)
(* implement operations that happen at one moment.                         *)
THEOREM Refinement == Spec => ImplementsEnrollment
<1>1. Init => Abstract!Init
  BY DEF Init, Abstract!Init
<1>2. Inv /\ Inv' /\ [Next]_vars => [Abstract!Next]_<<table, history>>
  BY StepRefines
<1>. QED
  BY <1>1, <1>2, Invariance, PTL DEF Spec, ImplementsEnrollment, Abstract!Spec

==============================================================================
