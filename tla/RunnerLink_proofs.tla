-------------------------- MODULE RunnerLink_proofs --------------------------
(***************************************************************************)
(* What is proved about the link between site and runner, for any number   *)
(* of sessions, connections, commands and breaks.                          *)
(***************************************************************************)
EXTENDS RunnerLink, TLAPS

Own(c, m) ==
  /\ m.session = holder[c] /\ m.session \in Sessions /\ pc[m.session] = "waiting"
  /\ m.number = sent[m.session]
Executes(c) == client = c /\ running # None

(* The places where a command or its answer can be, while the Connect call *)
(* reads the next command or waits for an answer.                          *)
Place(c) ==
  /\ loop[c] = "unused" =>
       requests[c] = None /\ responses[c] = None /\ client # c /\ c \notin up
  /\ c \in up => client = c /\ loop[c] \in {"reading", "answering"}
  /\ c \notin up => outgoing[c] = None /\ incoming[c] = None
  /\ loop[c] = "reading" =>
       /\ outgoing[c] = None /\ incoming[c] = None /\ ~Executes(c)
       /\ requests[c] = None \/ responses[c] = None
  /\ loop[c] = "answering" =>
       /\ requests[c] = None /\ responses[c] = None
       /\ holder[c] # Nobody /\ pc[holder[c]] = "waiting"
       /\ outgoing[c] = None \/ incoming[c] = None
       /\ Executes(c) => outgoing[c] = None /\ incoming[c] = None

(* What is in one of these places is the command that the holder waits for;*)
(* after the end of the call, this is still true of an answer not yet read.*)
Owned(c) ==
  /\ responses[c] # None => Own(c, responses[c])
  /\ loop[c] # "closed" =>
       /\ requests[c] # None => Own(c, requests[c])
       /\ outgoing[c] # None => Own(c, outgoing[c])
       /\ incoming[c] # None => Own(c, incoming[c])
       /\ Executes(c) => Own(c, running)

Places == (\A c \in Connections : Place(c)) /\ (client = Nobody => running = None)
Owners == \A c \in Connections : Owned(c)

(* Once a program's compilation was executed, its directory is there for   *)
(* as long as the runner reads from this connection.                       *)
Directory(c) ==
  client = c /\ c \in up /\ holder[c] \in Programs
    /\ (sent[holder[c]] > 0 \/ incoming[c] # None \/ responses[c] # None)
  => workDir = holder[c]
Directories == OwnDirectory /\ \A c \in Connections : Directory(c)

Inv == TypeOK /\ Places /\ Owners /\ Directories /\ OwnAnswer

LEMMA InvInit == Init => Inv
<1>. SUFFICES ASSUME Init PROVE Inv
  OBVIOUS
<1>1. Types
  BY SessionsAssumption, BoundsAssumption DEF Init, Types
<1>2. Holders
  BY DEF Init, Holders
<1>3. Places /\ Owners
  BY SessionsAssumption DEF Init, Places, Place, Owners, Owned, Executes
<1>4. Directories
  BY SessionsAssumption DEF Init, Directories, Directory, OwnDirectory
<1>5. OwnAnswer
  BY DEF Init, OwnAnswer
<1>. QED
  BY <1>1, <1>2, <1>3, <1>4, <1>5 DEF Inv, TypeOK

LEMMA TypeStep ==
  ASSUME Inv, [Next]_vars
  PROVE  Types'
<1>. USE SessionsAssumption, BoundsAssumption, NoneAssumption DEF Inv, TypeOK, Types, Messages
<1>1. ASSUME NEW s \in Sessions, NEW c \in Connections, Begin(s, c) PROVE Types'
  <2>1. on' \in [Sessions -> Connections \cup {Nobody}] /\ on'[s] = c
    BY <1>1 DEF Begin, serviceVars, streamVars, clientVars
  <2>2. pc' \in [Sessions -> {"idle", "entering", "ready", "waiting", "done", "failed"}]
    BY <1>1 DEF Begin, serviceVars, streamVars, clientVars
  <2>3. \A q \in Sessions : pc'[q] # "idle" => on'[q] \in Connections
    BY <1>1 DEF Begin, serviceVars, streamVars, clientVars
  <2>4. \A q \in Sessions : pc'[q] \in {"entering", "ready", "waiting"} => sent'[q] < Commands
    BY <1>1 DEF Holders, Begin, serviceVars, streamVars, clientVars
  <2>. QED
    BY <1>1, <2>1, <2>2, <2>3, <2>4 DEF Begin, serviceVars, streamVars, clientVars
<1>2. ASSUME NEW s \in Sessions, Enter(s) PROVE Types'
  BY <1>2 DEF Enter, streamVars, clientVars
<1>3. ASSUME NEW s \in Sessions, Send(s) PROVE Types'
  BY <1>3 DEF Send, Command, streamVars, clientVars
<1>4. ASSUME NEW s \in Sessions, NEW last \in BOOLEAN, Receive(s, last) PROVE Types'
  BY <1>4 DEF Receive, ReleasedAfter, Released, streamVars, clientVars
<1>5. ASSUME NEW s \in Sessions, Fail(s) PROVE Types'
  BY <1>5 DEF Fail, Released, Throws, streamVars, clientVars
<1>6. ASSUME NEW s \in Sessions, Cancel(s) PROVE Types'
  BY <1>6 DEF Cancel, serviceVars, streamVars, clientVars
<1>7. ASSUME NEW c \in Connections, Forward(c) PROVE Types'
  BY <1>7 DEF Forward, sessionVars, clientVars
<1>8. ASSUME NEW c \in Connections, Return(c) PROVE Types'
  BY <1>8 DEF Return, sessionVars, clientVars
<1>9. ASSUME NEW c \in Connections, Close(c) PROVE Types'
  BY <1>9 DEF Close, sessionVars, streamVars, clientVars
<1>10. ASSUME NEW c \in Connections, Connect(c) PROVE Types'
  BY <1>10 DEF Connect, sessionVars
<1>11. ASSUME NEW c \in Connections, Break(c) PROVE Types'
  BY <1>11 DEF Break, sessionVars, serviceVars, clientVars
<1>12. CASE Execute
  BY <1>12 DEF Execute, Emptied, Compiles, sessionVars, serviceVars
<1>13. CASE Answer
  BY <1>13 DEF Answer, sessionVars, serviceVars
<1>14. CASE Disconnected
  BY <1>14 DEF Disconnected, sessionVars, serviceVars, streamVars
<1>15. CASE UNCHANGED vars
  BY <1>15 DEF vars
<1>. HIDE DEF Inv, TypeOK, Types, Messages
<1>. QED
  BY <1>1, <1>2, <1>3, <1>4, <1>5, <1>6, <1>7, <1>8, <1>9, <1>10, <1>11, <1>12, <1>13, <1>14, <1>15 DEF Next, SessionStep

LEMMA HolderStep ==
  ASSUME Inv, [Next]_vars
  PROVE  Holders'
<1>. USE SessionsAssumption, BoundsAssumption, NoneAssumption DEF Inv, TypeOK, Types, Holders
<1>1. ASSUME NEW s \in Sessions, NEW c \in Connections, Begin(s, c) PROVE Holders'
  BY <1>1 DEF Begin, serviceVars, streamVars, clientVars
<1>2. ASSUME NEW s \in Sessions, Enter(s) PROVE Holders'
  BY <1>2 DEF Enter, streamVars, clientVars
<1>3. ASSUME NEW s \in Sessions, Send(s) PROVE Holders'
  BY <1>3 DEF Send, Command, streamVars, clientVars
<1>4. ASSUME NEW s \in Sessions, NEW last \in BOOLEAN, Receive(s, last) PROVE Holders'
  BY <1>4 DEF Receive, ReleasedAfter, Released, streamVars, clientVars
<1>5. ASSUME NEW s \in Sessions, Fail(s) PROVE Holders'
  BY <1>5 DEF Fail, Released, Throws, streamVars, clientVars
<1>6. ASSUME NEW s \in Sessions, Cancel(s) PROVE Holders'
  BY <1>6 DEF Cancel, serviceVars, streamVars, clientVars
<1>7. ASSUME NEW c \in Connections, Forward(c) PROVE Holders'
  BY <1>7 DEF Forward, sessionVars, clientVars
<1>8. ASSUME NEW c \in Connections, Return(c) PROVE Holders'
  BY <1>8 DEF Return, sessionVars, clientVars
<1>9. ASSUME NEW c \in Connections, Close(c) PROVE Holders'
  BY <1>9 DEF Close, sessionVars, streamVars, clientVars
<1>10. ASSUME NEW c \in Connections, Connect(c) PROVE Holders'
  BY <1>10 DEF Connect, sessionVars
<1>11. ASSUME NEW c \in Connections, Break(c) PROVE Holders'
  BY <1>11 DEF Break, sessionVars, serviceVars, clientVars
<1>12. CASE Execute
  BY <1>12 DEF Execute, Emptied, Compiles, sessionVars, serviceVars
<1>13. CASE Answer
  BY <1>13 DEF Answer, sessionVars, serviceVars
<1>14. CASE Disconnected
  BY <1>14 DEF Disconnected, sessionVars, serviceVars, streamVars
<1>15. CASE UNCHANGED vars
  BY <1>15 DEF vars
<1>. HIDE DEF Inv, TypeOK, Types, Holders
<1>. QED
  BY <1>1, <1>2, <1>3, <1>4, <1>5, <1>6, <1>7, <1>8, <1>9, <1>10, <1>11, <1>12, <1>13, <1>14, <1>15 DEF Next, SessionStep

LEMMA PlaceStep ==
  ASSUME Inv, [Next]_vars
  PROVE  Places'
<1>. USE SessionsAssumption, BoundsAssumption, NoneAssumption DEF Inv, TypeOK, Types, Holders, Places, Place, Owners, Owned, Own, Executes
<1>1. ASSUME NEW s \in Sessions, NEW c \in Connections, Begin(s, c) PROVE Places'
  BY <1>1 DEF Begin, serviceVars, streamVars, clientVars
<1>2. ASSUME NEW s \in Sessions, Enter(s) PROVE Places'
  BY <1>2 DEF Enter, streamVars, clientVars
<1>3. ASSUME NEW s \in Sessions, Send(s) PROVE Places'
  BY <1>3 DEF Send, Command, streamVars, clientVars
<1>4. ASSUME NEW s \in Sessions, NEW last \in BOOLEAN, Receive(s, last) PROVE Places'
  BY <1>4 DEF Receive, ReleasedAfter, Released, streamVars, clientVars
<1>5. ASSUME NEW s \in Sessions, Fail(s) PROVE Places'
  BY <1>5 DEF Fail, Released, Throws, streamVars, clientVars
<1>6. ASSUME NEW s \in Sessions, Cancel(s) PROVE Places'
  BY <1>6 DEF Cancel, serviceVars, streamVars, clientVars
<1>7. ASSUME NEW c \in Connections, Forward(c) PROVE Places'
  BY <1>7 DEF Forward, sessionVars, clientVars
<1>8. ASSUME NEW c \in Connections, Return(c) PROVE Places'
  BY <1>8 DEF Return, sessionVars, clientVars
<1>9. ASSUME NEW c \in Connections, Close(c) PROVE Places'
  BY <1>9 DEF Close, sessionVars, streamVars, clientVars
<1>10. ASSUME NEW c \in Connections, Connect(c) PROVE Places'
  BY <1>10 DEF Connect, sessionVars
<1>11. ASSUME NEW c \in Connections, Break(c) PROVE Places'
  BY <1>11 DEF Break, sessionVars, serviceVars, clientVars
<1>12. CASE Execute
  BY <1>12 DEF Execute, Emptied, Compiles, sessionVars, serviceVars
<1>13. CASE Answer
  BY <1>13 DEF Answer, sessionVars, serviceVars
<1>14. CASE Disconnected
  BY <1>14 DEF Disconnected, sessionVars, serviceVars, streamVars
<1>15. CASE UNCHANGED vars
  BY <1>15 DEF vars
<1>. HIDE DEF Inv, TypeOK, Types, Holders, Places, Place, Owners, Owned, Own, Executes
<1>. QED
  BY <1>1, <1>2, <1>3, <1>4, <1>5, <1>6, <1>7, <1>8, <1>9, <1>10, <1>11, <1>12, <1>13, <1>14, <1>15 DEF Next, SessionStep

LEMMA OwnerStep ==
  ASSUME Inv, [Next]_vars
  PROVE  Owners'
<1>. USE SessionsAssumption, BoundsAssumption, NoneAssumption DEF Inv, TypeOK, Types, Holders, Places, Place, Owners, Owned, Own, Executes
<1>1. ASSUME NEW s \in Sessions, NEW c \in Connections, Begin(s, c) PROVE Owners'
  BY <1>1 DEF Begin, serviceVars, streamVars, clientVars
<1>2. ASSUME NEW s \in Sessions, Enter(s) PROVE Owners'
  BY <1>2 DEF Enter, streamVars, clientVars
<1>3. ASSUME NEW s \in Sessions, Send(s) PROVE Owners'
  BY <1>3 DEF Send, Command, streamVars, clientVars
<1>4. ASSUME NEW s \in Sessions, NEW last \in BOOLEAN, Receive(s, last) PROVE Owners'
  BY <1>4 DEF Receive, ReleasedAfter, Released, streamVars, clientVars
<1>5. ASSUME NEW s \in Sessions, Fail(s) PROVE Owners'
  BY <1>5 DEF Fail, Released, Throws, streamVars, clientVars
<1>6. ASSUME NEW s \in Sessions, Cancel(s) PROVE Owners'
  BY <1>6 DEF Cancel, serviceVars, streamVars, clientVars
<1>7. ASSUME NEW c \in Connections, Forward(c) PROVE Owners'
  BY <1>7 DEF Forward, sessionVars, clientVars
<1>8. ASSUME NEW c \in Connections, Return(c) PROVE Owners'
  BY <1>8 DEF Return, sessionVars, clientVars
<1>9. ASSUME NEW c \in Connections, Close(c) PROVE Owners'
  BY <1>9 DEF Close, sessionVars, streamVars, clientVars
<1>10. ASSUME NEW c \in Connections, Connect(c) PROVE Owners'
  BY <1>10 DEF Connect, sessionVars
<1>11. ASSUME NEW c \in Connections, Break(c) PROVE Owners'
  BY <1>11 DEF Break, sessionVars, serviceVars, clientVars
<1>12. CASE Execute
  BY <1>12 DEF Execute, Emptied, Compiles, sessionVars, serviceVars
<1>13. CASE Answer
  BY <1>13 DEF Answer, sessionVars, serviceVars
<1>14. CASE Disconnected
  BY <1>14 DEF Disconnected, sessionVars, serviceVars, streamVars
<1>15. CASE UNCHANGED vars
  BY <1>15 DEF vars
<1>. HIDE DEF Inv, TypeOK, Types, Holders, Places, Place, Owners, Owned, Own, Executes
<1>. QED
  BY <1>1, <1>2, <1>3, <1>4, <1>5, <1>6, <1>7, <1>8, <1>9, <1>10, <1>11, <1>12, <1>13, <1>14, <1>15 DEF Next, SessionStep

LEMMA DirectoryStep ==
  ASSUME Inv, [Next]_vars
  PROVE  Directories'
<1>. USE SessionsAssumption, BoundsAssumption, NoneAssumption DEF Inv, TypeOK, Types, Holders, Places, Place, Owners, Owned, Own, Executes, Directories, Directory, OwnDirectory
<1>1. ASSUME NEW s \in Sessions, NEW c \in Connections, Begin(s, c) PROVE Directories'
  BY <1>1 DEF Begin, serviceVars, streamVars, clientVars
<1>2. ASSUME NEW s \in Sessions, Enter(s) PROVE Directories'
  BY <1>2 DEF Enter, streamVars, clientVars
<1>3. ASSUME NEW s \in Sessions, Send(s) PROVE Directories'
  BY <1>3 DEF Send, Command, streamVars, clientVars
<1>4. ASSUME NEW s \in Sessions, NEW last \in BOOLEAN, Receive(s, last) PROVE Directories'
  BY <1>4 DEF Receive, ReleasedAfter, Released, streamVars, clientVars
<1>5. ASSUME NEW s \in Sessions, Fail(s) PROVE Directories'
  BY <1>5 DEF Fail, Released, Throws, streamVars, clientVars
<1>6. ASSUME NEW s \in Sessions, Cancel(s) PROVE Directories'
  BY <1>6 DEF Cancel, serviceVars, streamVars, clientVars
<1>7. ASSUME NEW c \in Connections, Forward(c) PROVE Directories'
  BY <1>7 DEF Forward, sessionVars, clientVars
<1>8. ASSUME NEW c \in Connections, Return(c) PROVE Directories'
  BY <1>8 DEF Return, sessionVars, clientVars
<1>9. ASSUME NEW c \in Connections, Close(c) PROVE Directories'
  BY <1>9 DEF Close, sessionVars, streamVars, clientVars
<1>10. ASSUME NEW c \in Connections, Connect(c) PROVE Directories'
  BY <1>10 DEF Connect, sessionVars
<1>11. ASSUME NEW c \in Connections, Break(c) PROVE Directories'
  BY <1>11 DEF Break, sessionVars, serviceVars, clientVars
<1>12. CASE Execute
  BY <1>12 DEF Execute, Emptied, Compiles, sessionVars, serviceVars
<1>13. CASE Answer
  BY <1>13 DEF Answer, sessionVars, serviceVars
<1>14. CASE Disconnected
  BY <1>14 DEF Disconnected, sessionVars, serviceVars, streamVars
<1>15. CASE UNCHANGED vars
  BY <1>15 DEF vars
<1>. HIDE DEF Inv, TypeOK, Types, Holders, Places, Place, Owners, Owned, Own, Executes, Directories, Directory, OwnDirectory
<1>. QED
  BY <1>1, <1>2, <1>3, <1>4, <1>5, <1>6, <1>7, <1>8, <1>9, <1>10, <1>11, <1>12, <1>13, <1>14, <1>15 DEF Next, SessionStep

LEMMA AnswerStep ==
  ASSUME Inv, [Next]_vars
  PROVE  OwnAnswer'
<1>. USE SessionsAssumption, BoundsAssumption, NoneAssumption DEF Inv, TypeOK, Types, Holders, OwnAnswer
<1>1. ASSUME NEW s \in Sessions, NEW c \in Connections, Begin(s, c) PROVE OwnAnswer'
  BY <1>1 DEF Begin, serviceVars, streamVars, clientVars
<1>2. ASSUME NEW s \in Sessions, Enter(s) PROVE OwnAnswer'
  BY <1>2 DEF Enter, streamVars, clientVars
<1>3. ASSUME NEW s \in Sessions, Send(s) PROVE OwnAnswer'
  BY <1>3 DEF Send, Command, streamVars, clientVars
<1>4. ASSUME NEW s \in Sessions, NEW last \in BOOLEAN, Receive(s, last) PROVE OwnAnswer'
  <2>1. on[s] \in Connections /\ Own(on[s], responses[on[s]]) /\ holder[on[s]] = s
    BY <1>4 DEF Receive, Owners, Owned
  <2>2. responses[on[s]] = [session |-> s, number |-> sent[s]]
    <3>1. responses[on[s]] \in Messages
      BY <1>4, <2>1 DEF Receive
    <3>. QED
      BY <2>1, <3>1 DEF Own, Messages
  <2>3. heard'[s] = [session |-> s, number |-> sent'[s] - 1] /\ sent'[s] # 0
    BY <1>4, <2>2 DEF Receive
  <2>4. \A q \in Sessions \ {s} : heard'[q] = heard[q] /\ sent'[q] = sent[q]
    BY <1>4 DEF Receive
  <2>. QED
    BY <2>3, <2>4
<1>5. ASSUME NEW s \in Sessions, Fail(s) PROVE OwnAnswer'
  BY <1>5 DEF Fail, Released, Throws, streamVars, clientVars
<1>6. ASSUME NEW s \in Sessions, Cancel(s) PROVE OwnAnswer'
  BY <1>6 DEF Cancel, serviceVars, streamVars, clientVars
<1>7. ASSUME NEW c \in Connections, Forward(c) PROVE OwnAnswer'
  BY <1>7 DEF Forward, sessionVars, clientVars
<1>8. ASSUME NEW c \in Connections, Return(c) PROVE OwnAnswer'
  BY <1>8 DEF Return, sessionVars, clientVars
<1>9. ASSUME NEW c \in Connections, Close(c) PROVE OwnAnswer'
  BY <1>9 DEF Close, sessionVars, streamVars, clientVars
<1>10. ASSUME NEW c \in Connections, Connect(c) PROVE OwnAnswer'
  BY <1>10 DEF Connect, sessionVars
<1>11. ASSUME NEW c \in Connections, Break(c) PROVE OwnAnswer'
  BY <1>11 DEF Break, sessionVars, serviceVars, clientVars
<1>12. CASE Execute
  BY <1>12 DEF Execute, Emptied, Compiles, sessionVars, serviceVars
<1>13. CASE Answer
  BY <1>13 DEF Answer, sessionVars, serviceVars
<1>14. CASE Disconnected
  BY <1>14 DEF Disconnected, sessionVars, serviceVars, streamVars
<1>15. CASE UNCHANGED vars
  BY <1>15 DEF vars
<1>. HIDE DEF Inv, TypeOK, Types, Holders, OwnAnswer
<1>. QED
  BY <1>1, <1>2, <1>3, <1>4, <1>5, <1>6, <1>7, <1>8, <1>9, <1>10, <1>11, <1>12, <1>13, <1>14, <1>15 DEF Next, SessionStep

LEMMA AlwaysInv == Spec => []Inv
<1>1. Inv /\ [Next]_vars => Inv'
  BY TypeStep, HolderStep, PlaceStep, OwnerStep, DirectoryStep, AnswerStep DEF Inv, TypeOK
<1>. QED
  BY InvInit, <1>1, PTL DEF Spec

(* Every variable keeps its type, no session sends more than its commands, *)
(* and who sends one holds the semaphore of the checker that it uses, also *)
(* when others give up waiting for it.                                     *)
THEOREM TypeCorrect == Spec => []TypeOK
  BY AlwaysInv, PTL DEF Inv

(* Commands and answers carry no number, and still each session hears the  *)
(* answer to the command that it sent last.                                *)
THEOREM AnswersAreOwn == Spec => []OwnAnswer
  BY AlwaysInv, PTL DEF Inv

(* A program runs in the directory that its session compiled it in, across *)
(* broken streams and reconnections too.                                   *)
THEOREM DirectoriesAreOwn == Spec => []OwnDirectory
<1>1. Inv => OwnDirectory
  BY DEF Inv, Directories
<1>. QED
  BY AlwaysInv, <1>1, PTL

(* At most one command of a connection is under way, that of the holder of *)
(* the semaphore.                                                          *)
THEOREM OneIsUnderWay == Spec => []OneAtATime
<1>1. Inv => OneAtATime
  BY DEF Inv, Owners, Owned, Own, Executes, OneAtATime, UnderWay
<1>. QED
  BY AlwaysInv, <1>1, PTL
==============================================================================
