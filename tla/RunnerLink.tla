------------------------------ MODULE RunnerLink ------------------------------
(***************************************************************************)
(* The way from a check to the runner that executes it.  A session (a      *)
(* check of a submission, a run from the administrator's page, one         *)
(* self-test, the query of the compilers' versions) holds the semaphore    *)
(* of its CheckerService and sends its commands one by one through two     *)
(* bounded channels of RunnerService.  The Connect call of that runner     *)
(* forwards each command to the gRPC stream and the answer back.  The      *)
(* runner, RunnerClientService, executes one command at a time in one      *)
(* working directory and reconnects when the stream breaks.                *)
(*                                                                         *)
(* A command is its session and its number within it, and so is the answer *)
(* to it.  This is history, for the properties: in the code neither says   *)
(* whose it is.  What a command prints and consumes is left out; any       *)
(* answer may be the last its session wants (a compilation error, a wrong  *)
(* test).                                                                  *)
(***************************************************************************)
EXTENDS Naturals

CONSTANTS
  Sessions,     \* users of a CheckerService
  Programs,     \* those that compile a program, in an empty directory, and run it
  Connections,  \* Connect calls, one after the other, of one runner
  Commands,     \* bound: commands of one session
  Nobody,       \* nobody, no connection
  None,         \* no command, no answer
  MaxBreaks     \* bound: broken streams

ASSUME SessionsAssumption ==
  Programs \subseteq Sessions /\ Nobody \notin Sessions \cup Connections
ASSUME BoundsAssumption == Commands \in Nat \ {0} /\ MaxBreaks \in Nat

Messages == [session : Sessions, number : 0..(Commands - 1)]
ASSUME NoneAssumption == None \notin Messages

VARIABLES
  pc,         \* where each session stands
  on,         \* the connection whose CheckerService it uses
  sent,       \* commands of the session that were answered
  heard,      \* the answer it received last
  cancelled,  \* its token
  holder,     \* CheckerService._semaphore
  loop,       \* the Connect call: "reading" the channel, "answering" a command
  requests,   \* RunnerService._request, a channel for one command
  responses,  \* RunnerService._response, a channel for one answer
  up,         \* streams that work
  outgoing,   \* command on its way to the runner
  incoming,   \* answer on its way to the site
  client,     \* the connection the runner reads from
  running,    \* the command it executes
  workDir,    \* the session whose files are in the working directory
  breaks      \* broken streams so far

sessionVars == <<pc, on, sent, heard, cancelled>>
serviceVars == <<holder, loop, requests, responses>>
streamVars == <<up, outgoing, incoming>>
clientVars == <<client, running, workDir>>
vars == <<pc, on, sent, heard, cancelled, holder, loop, requests, responses,
          up, outgoing, incoming, client, running, workDir, breaks>>

Command(s) == [session |-> s, number |-> sent[s]]
Compiles(m) == m.session \in Programs /\ m.number = 0

Types ==
  /\ pc \in [Sessions -> {"idle", "entering", "ready", "waiting", "done", "failed"}]
  /\ on \in [Sessions -> Connections \cup {Nobody}]
  /\ \A s \in Sessions : pc[s] # "idle" => on[s] \in Connections
  /\ sent \in [Sessions -> 0..Commands]
  /\ \A s \in Sessions : pc[s] \in {"entering", "ready", "waiting"} => sent[s] < Commands
  /\ heard \in [Sessions -> Messages \cup {None}]
  /\ cancelled \subseteq Sessions
  /\ holder \in [Connections -> Sessions \cup {Nobody}]
  /\ loop \in [Connections -> {"unused", "reading", "answering", "closed"}]
  /\ requests \in [Connections -> Messages \cup {None}]
  /\ responses \in [Connections -> Messages \cup {None}]
  /\ up \subseteq Connections
  /\ outgoing \in [Connections -> Messages \cup {None}]
  /\ incoming \in [Connections -> Messages \cup {None}]
  /\ client \in Connections \cup {Nobody}
  /\ running \in Messages \cup {None}
  /\ workDir \in Sessions \cup {Nobody}
  /\ breaks \in Nat

(* Who is in a session holds the semaphore of its checker, and nobody else *)
(* does; a connection that was never made has no users.                    *)
Holders ==
  /\ \A s \in Sessions :
       /\ pc[s] # "idle" => loop[on[s]] # "unused"
       /\ pc[s] \in {"ready", "waiting"} => holder[on[s]] = s
       /\ pc[s] \in {"idle", "entering"} => sent[s] = 0
  /\ \A c \in Connections : holder[c] # Nobody =>
       on[holder[c]] = c /\ pc[holder[c]] \in {"ready", "waiting"}

TypeOK == Types /\ Holders

Init ==
  /\ pc = [s \in Sessions |-> "idle"]
  /\ on = [s \in Sessions |-> Nobody]
  /\ sent = [s \in Sessions |-> 0]
  /\ heard = [s \in Sessions |-> None]
  /\ cancelled = {}
  /\ holder = [c \in Connections |-> Nobody]
  /\ loop = [c \in Connections |-> "unused"]
  /\ requests = [c \in Connections |-> None]
  /\ responses = [c \in Connections |-> None]
  /\ up = {}
  /\ outgoing = [c \in Connections |-> None]
  /\ incoming = [c \in Connections |-> None]
  /\ client = Nobody
  /\ running = None
  /\ workDir = Nobody
  /\ breaks = 0

-----------------------------------------------------------------------------
(***************************************************************************)
(* Sessions on the site: CheckerService and RunnerService.Run.             *)
(***************************************************************************)

(* A caller finds the checker of a connected runner; by the time it        *)
(* enters, the connection may be gone.                                     *)
Begin(s, c) ==
  /\ pc[s] = "idle" /\ loop[c] \in {"reading", "answering"}
  /\ pc' = [pc EXCEPT ![s] = "entering"]
  /\ on' = [on EXCEPT ![s] = c]
  /\ UNCHANGED <<sent, heard, cancelled, serviceVars, streamVars, clientVars, breaks>>

Enter(s) ==
  /\ pc[s] = "entering" /\ holder[on[s]] = Nobody
  /\ holder' = [holder EXCEPT ![on[s]] = s]
  /\ pc' = [pc EXCEPT ![s] = "ready"]
  /\ UNCHANGED <<on, sent, heard, cancelled, loop, requests, responses,
                 streamVars, clientVars, breaks>>

Send(s) ==
  /\ pc[s] = "ready" /\ s \notin cancelled
  /\ loop[on[s]] # "closed" /\ requests[on[s]] = None
  /\ requests' = [requests EXCEPT ![on[s]] = Command(s)]
  /\ pc' = [pc EXCEPT ![s] = "waiting"]
  /\ UNCHANGED <<on, sent, heard, cancelled, holder, loop, responses,
                 streamVars, clientVars, breaks>>

(* Variants with a plausible mistake stand before the definitions they     *)
(* replace in the project's mutation runs, named for the mistake.          *)
ReleasedByAnybody(s) == [holder EXCEPT ![on[s]] = Nobody]
(* WaitAsync stands before the try: who was cancelled while it waited for  *)
(* the semaphore does not release it.                                      *)
Released(s) == IF holder[on[s]] = s THEN [holder EXCEPT ![on[s]] = Nobody] ELSE holder

ReleasedAfterEach(s, last) == Released(s)
ReleasedAfter(s, last) == IF last THEN Released(s) ELSE holder

(* The answer arrives, also when the channel was completed meanwhile: the  *)
(* session goes on with its next command, or has what it wants.            *)
Receive(s, last) ==
  /\ pc[s] = "waiting" /\ responses[on[s]] # None
  /\ sent[s] + 1 = Commands => last
  /\ heard' = [heard EXCEPT ![s] = responses[on[s]]]
  /\ responses' = [responses EXCEPT ![on[s]] = None]
  /\ sent' = [sent EXCEPT ![s] = @ + 1]
  /\ pc' = [pc EXCEPT ![s] = IF last THEN "done" ELSE "ready"]
  /\ holder' = ReleasedAfter(s, last)
  /\ UNCHANGED <<on, cancelled, loop, requests, streamVars, clientVars, breaks>>

ThrowsAlsoWhenWaiting(s) ==
  \/ pc[s] \in {"entering", "ready", "waiting"} /\ s \in cancelled
  \/ pc[s] \in {"ready", "waiting"} /\ loop[on[s]] = "closed" /\ responses[on[s]] = None

ThrowsOnlyWhenSending(s) ==
  \/ pc[s] \in {"entering", "ready"} /\ s \in cancelled
  \/ pc[s] = "ready" /\ loop[on[s]] = "closed"

(* Waiting for the semaphore or for room in the channel can be cancelled,  *)
(* waiting for the answer cannot; a completed channel ends both.           *)
Throws(s) ==
  \/ pc[s] \in {"entering", "ready"} /\ s \in cancelled
  \/ pc[s] = "ready" /\ loop[on[s]] = "closed"
  \/ pc[s] = "waiting" /\ loop[on[s]] = "closed" /\ responses[on[s]] = None

Fail(s) ==
  /\ Throws(s)
  /\ pc' = [pc EXCEPT ![s] = "failed"]
  /\ holder' = Released(s)
  /\ UNCHANGED <<on, sent, heard, cancelled, loop, requests, responses,
                 streamVars, clientVars, breaks>>

(* The request is aborted, or the worker's connection ends.                *)
Cancel(s) ==
  /\ pc[s] \in {"entering", "ready", "waiting"} /\ s \notin cancelled
  /\ cancelled' = cancelled \cup {s}
  /\ UNCHANGED <<pc, on, sent, heard, serviceVars, streamVars, clientVars, breaks>>

-----------------------------------------------------------------------------
(***************************************************************************)
(* The Connect call of a connection.                                       *)
(***************************************************************************)
Forward(c) ==
  /\ loop[c] = "reading" /\ requests[c] # None
  /\ requests' = [requests EXCEPT ![c] = None]
  /\ outgoing' = IF c \in up THEN [outgoing EXCEPT ![c] = requests[c]] ELSE outgoing
  /\ loop' = [loop EXCEPT ![c] = "answering"]
  /\ UNCHANGED <<sessionVars, holder, responses, up, incoming, clientVars, breaks>>

Return(c) ==
  /\ loop[c] = "answering" /\ incoming[c] # None /\ responses[c] = None
  /\ responses' = [responses EXCEPT ![c] = incoming[c]]
  /\ incoming' = [incoming EXCEPT ![c] = None]
  /\ loop' = [loop EXCEPT ![c] = "reading"]
  /\ UNCHANGED <<sessionVars, holder, requests, up, outgoing, clientVars, breaks>>

(* The site notices that the stream is broken (keep-alive pings) and       *)
(* completes both channels.                                                *)
Close(c) ==
  /\ loop[c] \in {"reading", "answering"} /\ c \notin up
  /\ loop' = [loop EXCEPT ![c] = "closed"]
  /\ UNCHANGED <<sessionVars, holder, requests, responses, streamVars, clientVars, breaks>>

-----------------------------------------------------------------------------
(***************************************************************************)
(* The runner.                                                             *)
(***************************************************************************)
Connect(c) ==
  /\ client = Nobody /\ loop[c] = "unused"
  /\ client' = c
  /\ loop' = [loop EXCEPT ![c] = "reading"]
  /\ up' = up \cup {c}
  /\ UNCHANGED <<sessionVars, holder, requests, responses, outgoing, incoming,
                 running, workDir, breaks>>

Emptied(m) == IF Compiles(m) THEN m.session ELSE workDir

(* The next command; a compilation clears the working directory first.     *)
Execute ==
  /\ client # Nobody /\ running = None /\ outgoing[client] # None
  /\ running' = outgoing[client]
  /\ outgoing' = [outgoing EXCEPT ![client] = None]
  /\ workDir' = Emptied(outgoing[client])
  /\ UNCHANGED <<sessionVars, serviceVars, up, incoming, client, breaks>>

(* The command ends; on a broken stream its answer is lost and the runner  *)
(* will reconnect.                                                         *)
Answer ==
  /\ running # None
  /\ running' = None
  /\ IF client \in up
       THEN incoming' = [incoming EXCEPT ![client] = running] /\ UNCHANGED client
       ELSE client' = Nobody /\ UNCHANGED incoming
  /\ UNCHANGED <<sessionVars, serviceVars, up, outgoing, workDir, breaks>>

(* Reading from a broken stream fails.                                     *)
Disconnected ==
  /\ client # Nobody /\ running = None /\ client \notin up
  /\ client' = Nobody
  /\ UNCHANGED <<sessionVars, serviceVars, streamVars, running, workDir, breaks>>

(* The stream breaks, also because executing a command threw on the        *)
(* runner; what was on its way is lost.                                    *)
Break(c) ==
  /\ c \in up /\ breaks < MaxBreaks
  /\ breaks' = breaks + 1
  /\ up' = up \ {c}
  /\ outgoing' = [outgoing EXCEPT ![c] = None]
  /\ incoming' = [incoming EXCEPT ![c] = None]
  /\ UNCHANGED <<sessionVars, serviceVars, clientVars>>

-----------------------------------------------------------------------------
SessionStep(s) ==
  \/ \E c \in Connections : Begin(s, c)
  \/ Enter(s)
  \/ Send(s)
  \/ \E last \in BOOLEAN : Receive(s, last)
  \/ Fail(s)
  \/ Cancel(s)

Next ==
  \/ \E s \in Sessions : SessionStep(s)
  \/ \E c \in Connections : Forward(c) \/ Return(c) \/ Close(c) \/ Connect(c) \/ Break(c)
  \/ Execute
  \/ Answer
  \/ Disconnected

Spec == Init /\ [][Next]_vars

(***************************************************************************)
(* Fairness.  Everybody who can go on does; the semaphore is handed to its *)
(* waiters in turn; the keep-alive pings of both sides notice a broken     *)
(* stream.  Nothing is assumed of the programs that the runner executes.   *)
(***************************************************************************)
Fairness ==
  /\ \A s \in Sessions :
       /\ SF_vars(Enter(s)) /\ WF_vars(Send(s)) /\ WF_vars(Fail(s))
       /\ WF_vars(\E last \in BOOLEAN : Receive(s, last))
  /\ \A c \in Connections : WF_vars(Forward(c)) /\ WF_vars(Return(c)) /\ WF_vars(Close(c))
  /\ WF_vars(Execute) /\ WF_vars(Disconnected)

FairSpec == Spec /\ Fairness

-----------------------------------------------------------------------------
(***************************************************************************)
(* Correctness.                                                            *)
(***************************************************************************)

(* The channels carry no names: a session takes whatever answer comes.     *)
(* Still it is the answer to the command it sent last.                     *)
OwnAnswer ==
  \A s \in Sessions :
    heard[s] = IF sent[s] = 0 THEN None ELSE [session |-> s, number |-> sent[s] - 1]

(* A program runs in the directory that its own session compiled it in;    *)
(* no other session compiles there in between, across reconnects too.      *)
OwnDirectory ==
  running # None /\ running.session \in Programs => workDir = running.session

(* At any time at most one command of a connection is under way, anywhere. *)
UnderWay(c) ==
  {m \in {requests[c], outgoing[c], incoming[c], responses[c]} : m # None}
    \cup (IF client = c /\ running # None THEN {running} ELSE {})

OneAtATime ==
  \A c \in Connections : loop[c] # "closed" =>
    \A m \in UnderWay(c) :
      /\ holder[c] = m.session /\ pc[m.session] = "waiting" /\ m.number = sent[m.session]

(* Whoever asks a runner to do something gets an answer or an exception:   *)
(* nobody waits forever, although the wait for an answer has no timeout.   *)
(* This is as far as the link is concerned: the commands that the runner   *)
(* executes must end, which RunnerProcess is about.                        *)
EveryCallEnds ==
  []<>(running = None) =>
    \A s \in Sessions : pc[s] = "entering" ~> pc[s] \in {"done", "failed"}
=============================================================================
