----------------------------- MODULE AtLeastOnce -----------------------------
(* What a channel promises its users (signal_queue.py, module docstring): a   *)
(* signal that was put stays pending until a worker that handled it           *)
(* acknowledges it; a worker that fails leaves it pending.  Nothing is said   *)
(* of the order of delivery, nor of how often a signal is delivered.          *)
CONSTANTS Signals,    \* the signal objects that producers may put
          Workers,    \* the tasks that read the channel
          NoSignal    \* what an idle worker holds

VARIABLES pending,    \* put and not yet acknowledged
          acked,      \* acknowledged
          job         \* job[w]: the signal worker w is handling, or NoSignal

avars == <<pending, acked, job>>

AInit ==
  /\ pending = {}
  /\ acked = {}
  /\ job = [w \in Workers |-> NoSignal]

APut(s) ==
  /\ s \notin pending \cup acked
  /\ pending' = pending \cup {s}
  /\ UNCHANGED <<acked, job>>

ADeliver(w) ==
  /\ job[w] = NoSignal
  /\ \E s \in pending : job' = [job EXCEPT ![w] = s]
  /\ UNCHANGED <<pending, acked>>

\* The signal may already be gone: another worker to which it was redelivered
\* acknowledged it first.
AAck(w) ==
  /\ job[w] # NoSignal
  /\ pending' = pending \ {job[w]}
  /\ acked' = acked \cup {job[w]}
  /\ job' = [job EXCEPT ![w] = NoSignal]

AFail(w) ==
  /\ job[w] # NoSignal
  /\ job' = [job EXCEPT ![w] = NoSignal]
  /\ UNCHANGED <<pending, acked>>

ANext ==
  \/ \E s \in Signals : APut(s)
  \/ \E w \in Workers : ADeliver(w) \/ AAck(w) \/ AFail(w)

ASpec == AInit /\ [][ANext]_avars
==============================================================================
