--------------------------- MODULE NetworkClient ---------------------------
(***************************************************************************)
(* network::NetworkClient: the threads that call connect, disconnect and   *)
(* submitAction, the network thread that connect starts, and the detached  *)
(* threads of the submissions.                                             *)
(*                                                                         *)
(* A step is one access to what the threads share.  What connect creates   *)
(* is known by the number of the connection it was created for; 0 is the   *)
(* null pointer.  Reads and writes of one pointer in two threads at a time *)
(* (a data race in the code) are taken in either order.                    *)
(*                                                                         *)
(* Nobody puts events into the event buffer yet, so it is left out.        *)
(***************************************************************************)
EXTENDS Naturals, FiniteSets

CONSTANTS
  Callers,        \* the threads of the program that use the client
  MaxConnects     \* bound of the model: the connections ever made

ClientAssumption == MaxConnects \in Nat

VARIABLES
  state,          \* state_
  stub,           \* stub_ (channel_ goes with it)
  queue,          \* completionQueue_
  queueShut,      \* Shutdown() has been called on it
  shutdown,       \* shutdownRequested_
  thread,         \* networkThread_: "none" when it is not joinable
  pc,             \* per caller: the next statement
  made,           \* the connections made so far
  inFlight        \* the stubs that detached threads are calling

shared == <<state, stub, queue, queueShut, shutdown, thread>>
vars == <<shared, pc, made, inFlight>>

Null == 0

Connections == 0 .. MaxConnects

Init ==
  /\ state = "Disconnected"
  /\ stub = Null /\ queue = Null
  /\ queueShut = FALSE /\ shutdown = FALSE
  /\ thread = "none"
  /\ pc = [c \in Callers |-> "idle"]
  /\ made = 0
  /\ inFlight = {}

Goto(c, from, to) == pc[c] = from /\ pc' = [pc EXCEPT ![c] = to]

-----------------------------------------------------------------------------
(* connect. *)

\* compare_exchange_strong.
Connect(c) ==
  /\ Goto(c, "idle", "createStub")
  /\ made < MaxConnects
  /\ state = "Disconnected"
  /\ state' = "Connecting"
  /\ made' = made + 1
  /\ UNCHANGED <<stub, queue, queueShut, shutdown, thread, inFlight>>

CreateStub(c) ==
  /\ Goto(c, "createStub", "createQueue")
  /\ stub' = made
  /\ UNCHANGED <<state, queue, queueShut, shutdown, thread, made, inFlight>>

CreateQueue(c) ==
  /\ Goto(c, "createQueue", "clearRequest")
  /\ queue' = made
  /\ queueShut' = FALSE
  /\ UNCHANGED <<state, stub, shutdown, thread, made, inFlight>>

ClearRequest(c) ==
  /\ Goto(c, "clearRequest", "launch")
  /\ shutdown' = FALSE
  /\ UNCHANGED <<state, stub, queue, queueShut, thread, made, inFlight>>

Launch(c) ==
  /\ Goto(c, "launch", "setConnected")
  /\ thread' = "running"
  /\ UNCHANGED <<state, stub, queue, queueShut, shutdown, made, inFlight>>

\* Whatever has become of the state in the meantime.
SetConnected(c) ==
  /\ Goto(c, "setConnected", "idle")
  /\ state' = "Connected"
  /\ UNCHANGED <<stub, queue, queueShut, shutdown, thread, made, inFlight>>

-----------------------------------------------------------------------------
(* disconnect, which the destructor calls too. *)

\* The state is read here and written by the next step.
Disconnect(c) ==
  /\ Goto(c, "idle", "setDisconnecting")
  /\ state \notin {"Disconnected", "Disconnecting"}
  /\ UNCHANGED <<shared, made, inFlight>>

SetDisconnecting(c) ==
  /\ Goto(c, "setDisconnecting", "requestShutdown")
  /\ state' = "Disconnecting"
  /\ UNCHANGED <<stub, queue, queueShut, shutdown, thread, made, inFlight>>

\* Mutant: the thread is waited for before it is told to stop.
RequestAfterJoin(c) ==
  /\ Goto(c, "requestShutdown", "shutQueue")
  /\ thread \in {"none", "finished"}
  /\ shutdown' = TRUE
  /\ UNCHANGED <<state, stub, queue, queueShut, thread, made, inFlight>>

RequestShutdown(c) ==
  /\ Goto(c, "requestShutdown", "shutQueue")
  /\ shutdown' = TRUE
  /\ UNCHANGED <<state, stub, queue, queueShut, thread, made, inFlight>>

ShutQueue(c) ==
  /\ Goto(c, "shutQueue", "join")
  /\ queueShut' = (queueShut \/ queue # Null)
  /\ UNCHANGED <<state, stub, queue, shutdown, thread, made, inFlight>>

\* Mutant: the thread is left to itself.
JoinNobody(c) ==
  /\ Goto(c, "join", "releaseStub")
  /\ UNCHANGED <<shared, made, inFlight>>

Join(c) ==
  /\ Goto(c, "join", "releaseStub")
  /\ thread \in {"none", "finished"}
  /\ thread' = "none"
  /\ UNCHANGED <<state, stub, queue, queueShut, shutdown, made, inFlight>>

ReleaseStub(c) ==
  /\ Goto(c, "releaseStub", "releaseQueue")
  /\ stub' = Null
  /\ UNCHANGED <<state, queue, queueShut, shutdown, thread, made, inFlight>>

ReleaseQueue(c) ==
  /\ Goto(c, "releaseQueue", "setDisconnected")
  /\ queue' = Null
  /\ queueShut' = FALSE
  /\ UNCHANGED <<state, stub, shutdown, thread, made, inFlight>>

SetDisconnected(c) ==
  /\ Goto(c, "setDisconnected", "idle")
  /\ state' = "Disconnected"
  /\ UNCHANGED <<stub, queue, queueShut, shutdown, thread, made, inFlight>>

-----------------------------------------------------------------------------
(* submitAction. *)

Submit(c) ==
  /\ Goto(c, "idle", "spawn")
  /\ state = "Connected"
  /\ UNCHANGED <<shared, made, inFlight>>

\* The detached thread gets the bare pointer.
Spawn(c) ==
  /\ Goto(c, "spawn", "idle")
  /\ inFlight' = inFlight \cup {stub}
  /\ UNCHANGED <<shared, made>>

\* The call returns, within the deadline.
SubmissionReturns ==
  /\ \E s \in inFlight : inFlight' = inFlight \ {s}
  /\ UNCHANGED <<shared, pc, made>>

-----------------------------------------------------------------------------
(* networkThreadFunc. *)

CheckRequest ==
  /\ thread = "running"
  /\ thread' = IF shutdown THEN "finished" ELSE "waiting"
  /\ UNCHANGED <<state, stub, queue, queueShut, shutdown, pc, made, inFlight>>

\* AsyncNext: SHUTDOWN, or TIMEOUT after the deadline.
PollQueue ==
  /\ thread = "waiting"
  /\ thread' = IF queueShut THEN "finished" ELSE "running"
  /\ UNCHANGED <<state, stub, queue, queueShut, shutdown, pc, made, inFlight>>

-----------------------------------------------------------------------------

ConnectStep(c) ==
  \/ Connect(c) \/ CreateStub(c) \/ CreateQueue(c) \/ ClearRequest(c)
  \/ Launch(c) \/ SetConnected(c)

DisconnectStep(c) ==
  \/ Disconnect(c) \/ SetDisconnecting(c) \/ RequestShutdown(c) \/ ShutQueue(c)
  \/ Join(c) \/ ReleaseStub(c) \/ ReleaseQueue(c) \/ SetDisconnected(c)

CallerStep(c) == ConnectStep(c) \/ DisconnectStep(c) \/ Submit(c) \/ Spawn(c)

ThreadStep == CheckRequest \/ PollQueue

Next ==
  \/ \E c \in Callers : CallerStep(c)
  \/ ThreadStep
  \/ SubmissionReturns

Spec == Init /\ [][Next]_vars

\* Threads run: the network thread, and a caller in the middle of a call.
FairSpec ==
  /\ Spec
  /\ WF_vars(ThreadStep)
  /\ \A c \in Callers : WF_vars(pc[c] # "idle" /\ CallerStep(c))

-----------------------------------------------------------------------------
(* What is checked. *)

Connecting == {"createStub", "createQueue", "clearRequest", "launch", "setConnected"}

TearingDown ==
  {"requestShutdown", "shutQueue", "join", "releaseStub", "releaseQueue", "setDisconnected"}

TypeOK ==
  /\ state \in {"Disconnected", "Connecting", "Connected", "Disconnecting"}
  /\ made \in Connections
  /\ {stub, queue} \subseteq {Null, made}
  /\ {queueShut, shutdown} \subseteq BOOLEAN
  /\ thread \in {"none", "running", "waiting", "finished"}
  /\ pc \in [Callers -> Connecting \cup TearingDown \cup {"idle", "setDisconnecting", "spawn"}]
  /\ inFlight \subseteq Connections

\* The network thread calls AsyncNext on a queue that exists and is not
\* destroyed under it: connect makes the queue before the thread and
\* disconnect lets go of it after the thread.
ThreadHasItsQueue == thread = "waiting" => queue # Null

\* A std::thread that still runs is never assigned over (which would end
\* the program).
ThreadsAreJoined == \A c \in Callers : pc[c] = "launch" => thread = "none"

\* Whoever finds the client connected finds a stub to call: submitAction
\* asks isConnected and then uses stub_.
ConnectedHasStub ==
  state = "Connected" \/ (\E c \in Callers : pc[c] = "spawn") => stub # Null

\* disconnect returns: the thread that it waits for sees one of the two
\* signals.
DisconnectReturns ==
  \A c \in Callers : pc[c] = "setDisconnecting" ~> pc[c] = "idle"

\* What the threads share is there when one of them uses it.
ClientIsSound == TypeOK /\ ThreadHasItsQueue /\ ThreadsAreJoined /\ ConnectedHasStub

=============================================================================
