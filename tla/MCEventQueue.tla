---------------------------- MODULE MCEventQueue ----------------------------
(* EventQueue with the history that Punctual needs; EventQueue.cfg has the     *)
(* bounds.                                                                     *)
EXTENDS EventQueue

VARIABLE late  \* time has passed while a thread was ready or an interrupt pending

\* Nothing but a new call, a post made elsewhere or the time can move on.
Quiet ==
  /\ \A w \in Waiters : pc[w] = "idle" \/ (pc[w] = "block" /\ sem[w] = 0)
  /\ mpc = "take" /\ ~notified

MCInit == Init /\ late = FALSE

MCNext ==
  \/ Step /\ UNCHANGED late
  \/ Tick /\ late' = (late \/ ~Quiet)

MCSpec == MCInit /\ [][MCNext]_<<vars, late>> /\ Fairness

\* As long as every ready thread is run before the next tick, no event stays
\* queued past its deadline: whatever order threads arm the timer in, and though
\* it clips a long delay, it fires in time (timer.cpp:171-204, event.cpp:209-222).
Punctual == ~late => \A w \in Queued : clock <= due[w]
=============================================================================
