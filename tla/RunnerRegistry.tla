---------------------------- MODULE RunnerRegistry ----------------------------
(***************************************************************************)
(* Which runners the site knows.  A runner keeps its id and reconnects     *)
(* when its stream breaks.  Each Connect call registers a checker under    *)
(* that id, which starts its worker loop, and unregisters the id when it   *)
(* ends, for whatever reason.  Administrators enable the compilers of a    *)
(* listed checker and disable those that no listed checker offers.  A      *)
(* Connect call is a slot that is used again after it has ended.           *)
(***************************************************************************)
EXTENDS Naturals

CONSTANTS
  Runners,      \* runner processes, each with the id it made for itself
  Connections,  \* Connect calls, several for each runner
  RunnerOf,     \* the runner that opens a connection
  Compilators,
  Offers,       \* the compilers of each runner
  Nobody,       \* no connection
  None,         \* no administrator's operation
  MaxFaults     \* bound: broken streams and failing checks

ASSUME RegistryAssumption ==
  /\ RunnerOf \in [Connections -> Runners]
  /\ Offers \in [Runners -> SUBSET Compilators]
  /\ Nobody \notin Connections
  /\ MaxFaults \in Nat

Operations == [kind : {"add", "disable"}, compilators : SUBSET Compilators,
               connected : SUBSET Compilators]
ASSUME NoneAssumption == None \notin Operations

VARIABLES
  conn,      \* the Connect call: "arrived", "open", or "leaving" through its finally
  broken,    \* connections whose stream no longer works
  client,    \* the connection each runner reads from
  registry,  \* _checkers
  work,      \* the worker loop of the connection's checker
  status,    \* SelfTestingStatus of the connection's checker
  enabled,   \* compiler records with IsActive
  op,        \* what an administrator has begun, in the gate
  late,      \* history: has a runner reconnected before the site ended its old call?
  faults

vars == <<conn, broken, client, registry, work, status, enabled, op, late, faults>>

Fault == faults < MaxFaults /\ faults' = faults + 1

Connected(c) == conn[c] = "open" /\ c \notin broken

(* Variants with a plausible mistake stand before the definitions they     *)
(* replace in the project's mutation runs, named for the mistake.          *)
KeyIsName(c) == CHOOSE r \in Runners : TRUE
Key(c) == RunnerOf[c]

TypeOK ==
  /\ conn \in [Connections -> {"unused", "arrived", "open", "leaving"}]
  /\ broken \subseteq Connections
  /\ client \in [Runners -> Connections \cup {Nobody}]
  /\ registry \in [Runners -> Connections \cup {Nobody}]
  /\ \A r \in Runners : registry[r] # Nobody => RunnerOf[registry[r]] = r
  /\ work \in [Connections -> {"none", "loading", "testing", "working", "delayed", "ended"}]
  /\ status \in [Connections -> {"unknown", "in_process", "success", "failed"}]
  /\ enabled \subseteq Compilators
  /\ op \in Operations \cup {None}
  /\ late \in BOOLEAN
  /\ faults \in Nat

(* The site has started; the database remembers some enabled compilers.    *)
Init ==
  /\ conn = [c \in Connections |-> "unused"]
  /\ broken = {}
  /\ client = [r \in Runners |-> Nobody]
  /\ registry = [r \in Runners |-> Nobody]
  /\ work = [c \in Connections |-> "none"]
  /\ status = [c \in Connections |-> "unknown"]
  /\ enabled \in SUBSET Compilators
  /\ op = None
  /\ late = FALSE
  /\ faults = 0

-----------------------------------------------------------------------------
(***************************************************************************)
(* Connecting and disconnecting.                                           *)
(***************************************************************************)
Connect(r, c) ==
  /\ client[r] = Nobody
  /\ RunnerOf[c] = r /\ conn[c] = "unused"
  /\ conn' = [conn EXCEPT ![c] = "arrived"]
  /\ broken' = broken \ {c}
  /\ client' = [client EXCEPT ![r] = c]
  /\ late' = (late \/ \E d \in Connections : RunnerOf[d] = r /\ conn[d] # "unused")
  /\ UNCHANGED <<registry, work, status, enabled, op, faults>>

(* Register: the id is free, and the worker loop starts.                   *)
Register(c) ==
  /\ conn[c] = "arrived"
  /\ registry[Key(c)] = Nobody
  /\ registry' = [registry EXCEPT ![Key(c)] = c]
  /\ conn' = [conn EXCEPT ![c] = "open"]
  /\ work' = [work EXCEPT ![c] = "loading"]
  /\ UNCHANGED <<broken, client, status, enabled, op, late, faults>>

(* Register throws: the id is taken.                                       *)
Refuse(c) ==
  /\ conn[c] = "arrived"
  /\ registry[Key(c)] # Nobody
  /\ conn' = [conn EXCEPT ![c] = "leaving"]
  /\ UNCHANGED <<broken, client, registry, work, status, enabled, op, late, faults>>

Break(c) ==
  /\ Connected(c)
  /\ Fault
  /\ broken' = broken \cup {c}
  /\ UNCHANGED <<conn, client, registry, work, status, enabled, op, late>>

SiteNotices(c) ==
  /\ conn[c] = "open" /\ c \in broken
  /\ conn' = [conn EXCEPT ![c] = "leaving"]
  /\ UNCHANGED <<broken, client, registry, work, status, enabled, op, late, faults>>

UnregisteredNever(c) == registry
Unregistered(c) == [registry EXCEPT ![Key(c)] = Nobody]

(* The finally of Connect: it removes the entry of the runner's id, which  *)
(* may be that of another connection, and ends the call and its worker.    *)
Leave(c) ==
  /\ conn[c] = "leaving"
  /\ registry' = Unregistered(c)
  /\ conn' = [conn EXCEPT ![c] = "unused"]
  /\ broken' = broken \cup {c}
  /\ work' = [work EXCEPT ![c] = "none"]
  /\ status' = [status EXCEPT ![c] = "unknown"]
  /\ UNCHANGED <<client, enabled, op, late, faults>>

(* The runner's call fails; it will connect again after ten seconds.       *)
RunnerNotices(r) ==
  /\ client[r] # Nobody /\ client[r] \in broken
  /\ client' = [client EXCEPT ![r] = Nobody]
  /\ UNCHANGED <<conn, broken, registry, work, status, enabled, op, late, faults>>

-----------------------------------------------------------------------------
(***************************************************************************)
(* The worker loop, as far as the administration sees it.                  *)
(***************************************************************************)

(* The versions are known, from now or before; the self-tests begin.       *)
BeginSelfTests(c) ==
  /\ conn[c] = "open" /\ work[c] = "loading"
  /\ work' = [work EXCEPT ![c] = "testing"]
  /\ status' = [status EXCEPT ![c] = "in_process"]
  /\ UNCHANGED <<conn, broken, client, registry, enabled, op, late, faults>>

(* Failed self-tests end the loop for good; the connection stays.          *)
EndSelfTests(c, success) ==
  /\ conn[c] = "open" /\ work[c] = "testing"
  /\ work' = [work EXCEPT ![c] = IF success THEN "working" ELSE "ended"]
  /\ status' = [status EXCEPT ![c] = IF success THEN "success" ELSE "failed"]
  /\ UNCHANGED <<conn, broken, client, registry, enabled, op, late, faults>>

(* A check or the queue throws; the loop waits a minute and starts over.   *)
FailWork(c) ==
  /\ conn[c] = "open" /\ work[c] = "working"
  /\ Fault
  /\ work' = [work EXCEPT ![c] = "delayed"]
  /\ UNCHANGED <<conn, broken, client, registry, status, enabled, op, late>>

Resume(c) ==
  /\ conn[c] = "open" /\ work[c] = "delayed"
  /\ work' = [work EXCEPT ![c] = "loading"]
  /\ UNCHANGED <<conn, broken, client, registry, status, enabled, op, late, faults>>

-----------------------------------------------------------------------------
(***************************************************************************)
(* Administration, in the gate: what is read of the checkers decides what  *)
(* is written to the database a moment later.                              *)
(***************************************************************************)
Listed == {c \in Connections : \E r \in Runners : registry[r] = c}
Available == UNION {Offers[RunnerOf[c]] : c \in {d \in Listed : status[d] = "success"}}

(* What runners offer that are connected and have not failed their tests.  *)
OfferedByConnected ==
  UNION {Offers[RunnerOf[c]] : c \in {d \in Connections : Connected(d) /\ status[d] # "failed"}}

BeginAdd(r) ==
  /\ op = None
  /\ registry[r] # Nobody /\ status[registry[r]] = "success"
  /\ op' = [kind |-> "add", compilators |-> Offers[r], connected |-> OfferedByConnected]
  /\ UNCHANGED <<conn, broken, client, registry, work, status, enabled, late, faults>>

SettledUnlessTesting == \A c \in Listed : status[c] # "in_process"
Settled == \A c \in Listed : status[c] \notin {"unknown", "in_process"}

BeginDisable ==
  /\ op = None
  /\ Settled
  /\ op' = [kind |-> "disable", compilators |-> Available, connected |-> OfferedByConnected]
  /\ UNCHANGED <<conn, broken, client, registry, work, status, enabled, late, faults>>

Save ==
  /\ op # None
  /\ enabled' = IF op.kind = "add" THEN enabled \cup op.compilators ELSE enabled \cap op.compilators
  /\ op' = None
  /\ UNCHANGED <<conn, broken, client, registry, work, status, late, faults>>

-----------------------------------------------------------------------------
Next ==
  \/ \E r \in Runners, c \in Connections : Connect(r, c)
  \/ \E c \in Connections :
       \/ Register(c) \/ Refuse(c) \/ Break(c) \/ SiteNotices(c) \/ Leave(c)
       \/ BeginSelfTests(c) \/ FailWork(c) \/ Resume(c)
       \/ \E success \in BOOLEAN : EndSelfTests(c, success)
  \/ \E r \in Runners : RunnerNotices(r) \/ BeginAdd(r)
  \/ BeginDisable
  \/ Save

Spec == Init /\ [][Next]_vars

(* A runner without a connection makes one, the site's pings notice a      *)
(* broken stream, and a loop on the site that can go on does.              *)
Fairness ==
  /\ \A r \in Runners : WF_vars(\E c \in Connections : Connect(r, c))
  /\ \A c \in Connections :
       /\ WF_vars(Register(c) \/ Refuse(c)) /\ WF_vars(SiteNotices(c)) /\ WF_vars(Leave(c))
       /\ WF_vars(Resume(c))

FairSpec == Spec /\ Fairness

-----------------------------------------------------------------------------
(***************************************************************************)
(* Correctness.                                                            *)
(***************************************************************************)

(* A listed checker belongs to a Connect call that has not ended.          *)
ListedIsOpen == \A c \in Listed : conn[c] \in {"open", "leaving"}

(* A connected runner, whose worker takes submissions from the queue, is   *)
(* listed, so that the pages and the administrator's commands see it, if   *)
(* the site has always seen a stream break before its runner reconnected.  *)
ConnectedIsListed ==
  ~late => \A c \in Connections : Connected(c) => registry[RunnerOf[c]] = c

(* Disabling the compilers without a runner spares those of every runner   *)
(* that was connected when the command began and had not failed its tests. *)
DisableSparesConnected ==
  op # None /\ op.kind = "disable" => enabled \cap op.connected \subseteq op.compilators

(* It does so at least while no runner has reconnected early.              *)
DisableSparesListed == ~late => DisableSparesConnected

(* Once streams stop breaking and checks stop failing, every runner is     *)
(* connected with a worker that takes submissions or has failed its tests, *)
(* if the commands that runners execute end: self-tests consist of them,   *)
(* and a runner notices a broken stream after its command.                 *)
CommandsEnd ==
  /\ \A c \in Connections : []<>(work[c] \notin {"loading", "testing"})
  /\ \A r \in Runners : []<>(client[r] \notin broken)

RunnersSettle ==
  CommandsEnd => \A r \in Runners :
    <>[](\E c \in Connections : RunnerOf[c] = r /\ Connected(c) /\ work[c] \in {"working", "ended"})
=============================================================================
