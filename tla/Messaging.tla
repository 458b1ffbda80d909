------------------------------ MODULE Messaging ------------------------------
(***************************************************************************)
(* The NATS JetStream client of every service (nats_client.py) between a   *)
(* stream that delivers a message until it is acknowledged and the         *)
(* handlers the services subscribe (their api/events.py).                  *)
(*                                                                         *)
(* One durable consumer is followed in a behaviour, chosen at its start.   *)
(* nats-py calls the handler of a subscription for one message at a time,  *)
(* in the order of delivery; the server delivers again what is refused, or *)
(* not acknowledged in time, which may be while it waits or is handled.    *)
(* The stream's limits (seven days, a million messages) are not reached.   *)
(***************************************************************************)
EXTENDS Naturals, Sequences, SequencesExt

CONSTANTS
  MsMessages,     \* the messages of a behaviour
  MsMaxFailures,  \* bound: handler runs that fail
  MsMaxCopies,    \* bound: deliveries of what was delivered already
  MsMaxBreaks     \* bound: losses of the connection, and restarts of the service

ASSUME MessagingAssumption == {MsMaxFailures, MsMaxCopies, MsMaxBreaks} \subseteq Nat

VARIABLES
  msConsumer,    \* the service whose subscription is followed
  msConnection,  \* "up", "down", or "closed" for good
  msStored,      \* messages the stream took
  msAcked,       \* those it need not deliver again
  msQueue,       \* deliveries that wait in the client
  msHandled,     \* the message whose handler runs, if any
  msTasks,       \* work that was handed to a task of its own
  msDone,        \* messages whose work was done
  msFailed,      \* messages whose failure a handler only logged
  msBudget       \* failures, copies, losses of the connection and restarts

msVars == <<msConsumer, msConnection, msStored, msAcked, msQueue, msHandled, msTasks, msDone,
            msFailed, msBudget>>
msWork == <<msHandled, msTasks, msDone, msFailed>>

\* on_requirements_completed lets every error out; the repository's handlers log the
\* errors of its service, monitoring's logs all; an incident's work is a task of its own.
MsConsumers == {"manager", "repository", "monitoring", "incident_response"}
Raises == {"manager", "repository"}
Logs == {"repository", "monitoring"}
Spawns == {"incident_response"}

Idle == {}

MsInit ==
  /\ msConsumer \in MsConsumers /\ msConnection = "up"
  /\ msStored = {} /\ msAcked = {} /\ msQueue = <<>>
  /\ msHandled = Idle /\ msTasks = {} /\ msDone = {} /\ msFailed = {}
  /\ msBudget = [failures |-> 0, copies |-> 0, losses |-> 0, restarts |-> 0]

Spend(what, bound) ==
  msBudget[what] < bound /\ msBudget' = [msBudget EXCEPT ![what] = @ + 1]

\* The publisher has its answer from the stream; without one it raises.
MsPublish(m) ==
  /\ m \notin msStored /\ msStored' = msStored \cup {m}
  /\ UNCHANGED <<msConsumer, msConnection, msAcked, msQueue, msWork, msBudget>>

Unacked == msStored \ msAcked
InClient == ToSet(msQueue) \cup msHandled

DeliverTo(m) ==
  /\ msConnection = "up" /\ msQueue' = Append(msQueue, m)
  /\ UNCHANGED <<msConsumer, msConnection, msStored, msAcked, msWork>>

Deliver == \E m \in Unacked \ InClient : DeliverTo(m) /\ UNCHANGED msBudget
DeliverAgain ==
  /\ Len(msQueue) < 2 /\ Spend("copies", MsMaxCopies)
  /\ \E m \in Unacked \cap InClient : DeliverTo(m)

Handle ==
  /\ msHandled = Idle /\ msQueue # <<>>
  /\ msHandled' = {Head(msQueue)} /\ msQueue' = Tail(msQueue)
  /\ UNCHANGED <<msConsumer, msConnection, msStored, msAcked, msTasks, msDone, msFailed, msBudget>>

\* Mutant: a handler that returned is not acknowledged either.
SettleForgets(outcome) == msHandled' = Idle /\ UNCHANGED msAcked

\* _message_handler: ack what the handler returned from, nak what it raised on.  While the
\* connection is down either may be kept and sent later, or lost.
Settle(outcome) ==
  /\ msHandled' = Idle
  /\ \/ outcome = "returned" /\ msConnection # "closed" /\ msAcked' = msAcked \cup msHandled
     \/ (outcome = "raised" \/ msConnection # "up") /\ UNCHANGED msAcked

MsReturns ==
  /\ msHandled # Idle /\ Settle("returned")
  /\ IF msConsumer \in Spawns THEN msTasks' = msTasks \cup msHandled /\ UNCHANGED msDone
     ELSE msDone' = msDone \cup msHandled /\ UNCHANGED msTasks
  /\ UNCHANGED <<msConsumer, msConnection, msStored, msQueue, msFailed, msBudget>>

MsFails ==
  /\ msHandled # Idle /\ msConsumer \notin Spawns /\ Spend("failures", MsMaxFailures)
  /\ \/ msConsumer \in Raises /\ Settle("raised") /\ UNCHANGED msFailed
     \/ msConsumer \in Logs /\ Settle("returned") /\ msFailed' = msFailed \cup msHandled
  /\ UNCHANGED <<msConsumer, msConnection, msStored, msQueue, msTasks, msDone>>

\* A task logs what its lifecycle raises.
TaskEnds ==
  /\ \E m \in msTasks :
       /\ msTasks' = msTasks \ {m}
       /\ \/ msDone' = msDone \cup {m} /\ UNCHANGED <<msFailed, msBudget>>
          \/ msFailed' = msFailed \cup {m} /\ Spend("failures", MsMaxFailures) /\ UNCHANGED msDone
  /\ UNCHANGED <<msConsumer, msConnection, msStored, msAcked, msQueue, msHandled>>

\* The client gives up after ten attempts to reconnect, and is told so only in the log.
Loses ==
  /\ msConnection = "up" /\ Spend("losses", MsMaxBreaks) /\ msConnection' = "down"
  /\ UNCHANGED <<msConsumer, msStored, msAcked, msQueue, msWork>>
Reconnects ==
  /\ msConnection = "down" /\ msConnection' \in {"up", "closed"}
  /\ UNCHANGED <<msConsumer, msStored, msAcked, msQueue, msWork, msBudget>>

\* The durable consumer is subscribed again; what the process held is gone.
MsRestart ==
  /\ Spend("restarts", MsMaxBreaks)
  /\ msConnection' = "up" /\ msQueue' = <<>> /\ msHandled' = Idle /\ msTasks' = {}
  /\ UNCHANGED <<msConsumer, msStored, msAcked, msDone, msFailed>>

MsNext ==
  \/ \E m \in MsMessages : MsPublish(m)
  \/ Deliver \/ DeliverAgain \/ Handle \/ MsReturns \/ MsFails \/ TaskEnds
  \/ Loses \/ Reconnects \/ MsRestart

\* nats-py retries a connection until it is back or given up, a consumer with messages to
\* deliver delivers, and handlers and tasks end.
MsFairness ==
  /\ WF_msVars(Deliver) /\ WF_msVars(Handle) /\ WF_msVars(MsReturns) /\ WF_msVars(TaskEnds)
  /\ WF_msVars(Reconnects)

MsSpec == MsInit /\ [][MsNext]_msVars /\ MsFairness

-----------------------------------------------------------------------------
\* What need not be delivered again was worked on: only an error that was logged, or a
\* restart in the midst of a task nobody waits for, loses the work of a message.
AckedWasDone ==
  \A m \in msAcked :
    \/ m \in msDone \cup msFailed
    \/ msConsumer \in Spawns /\ (m \in msTasks \/ msBudget.restarts > 0)

\* A message whose errors pass is settled in the end, whatever is refused, redelivered, cut
\* off or restarted, unless the client gives its connection up.  One that is refused always
\* is delivered always: neither the client nor its subscriptions bound that.
SettledInTheEnd ==
  \A m \in MsMessages : m \in msStored ~> (m \in msAcked \/ msConnection = "closed")

\* The client settles what was handled, and settles everything in the end.
SettledAsDone == []AckedWasDone /\ SettledInTheEnd
=============================================================================
