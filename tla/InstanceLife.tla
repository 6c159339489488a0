----------------------------- MODULE InstanceLife -----------------------------
(* What supply coordination sees of the forecast instances                    *)
(* (instance_statuses), and what it is told of them: the abstract view of the *)
(* forecast side that the coordination of lines relies on.                    *)
CONSTANT Instances

VARIABLES
  kind,  \* InstanceStatus.kind; "held" and "gone" are both "excluded"
  bell   \* the instances supply coordination has a signal for

Kinds == {"processing", "delivered", "held", "gone"}

InstancesFresh ==
  /\ kind = [i \in Instances |-> "processing"]
  /\ bell = {}

Becomes(i, k) == kind' = [kind EXCEPT ![i] = k]
Ring(i) == bell' = bell \cup {i}

\* A passed value was handed over.
Deliver(i) == kind[i] = "processing" /\ Becomes(i, "delivered") /\ Ring(i)

\* A hold began.
Stop(i) == kind[i] = "processing" /\ Becomes(i, "held") /\ Ring(i)

\* A hold ended: there is work again, or the instance is dismissed or ends
\* without a demand.
Release(i) == kind[i] = "held" /\ Becomes(i, "processing") /\ Ring(i)
Leave(i) == kind[i] = "held" /\ Becomes(i, "gone") /\ Ring(i)

\* A delivered value goes back, which no other agent is told of.
GoBack(i) ==
  /\ kind[i] = "delivered"
  /\ Becomes(i, "processing")
  /\ bell' \in {bell, bell \ {i}}

\* A signal is acknowledged.
Heard(i) == i \in bell /\ bell' = bell \ {i} /\ UNCHANGED kind

LifeStep(i) == Deliver(i) \/ Stop(i) \/ Release(i) \/ Leave(i) \/ GoBack(i)

LifeNext == \E i \in Instances : LifeStep(i) \/ Heard(i)

LifeSpec == InstancesFresh /\ [][LifeNext]_<<kind, bell>>
==============================================================================
