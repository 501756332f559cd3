--------------------------- MODULE WalRcvLifecycle ---------------------------
(***************************************************************************)
(* What the WAL receiver's shared state promises (spec section 4.1): the  *)
(* WalRcvState machine, together with whether a receiver process exists. *)
(* Which edges are taken by the startup process and which by the          *)
(* receiver itself, and which need a live process, is the whole content. *)
(***************************************************************************)
VARIABLES
  state,   \* walrcv->walRcvState
  alive    \* a receiver process exists (launched or running)

States == {"STOPPED", "STARTING", "STREAMING", "WAITING", "RESTARTING",
           "STOPPING"}

\* The states in which a receiver may still run its exit hook: the
\* Assert of WalRcvDie.
ExitStates == {"STREAMING", "RESTARTING", "STARTING", "WAITING", "STOPPING"}

TypeOK == state \in States /\ alive \in BOOLEAN

Init == state = "STOPPED" /\ ~alive

\* The startup process asks for streaming: a stopped receiver is started
\* (launching a process unless one exists), a waiting one is restarted.
Request ==
  \/ state = "STOPPED" /\ state' = "STARTING" /\ alive' = TRUE
  \/ state = "WAITING" /\ state' = "RESTARTING" /\ UNCHANGED alive

\* The startup process asks the receiver to stop.
Stop ==
  /\ \/ state = "STARTING" /\ state' = "STOPPED"
     \/ state \in {"STREAMING", "WAITING", "RESTARTING"} /\ state' = "STOPPING"
  /\ UNCHANGED alive

\* The receiver claims the slot, or finds it was told to stop and leaves.
Claim == alive /\ state = "STARTING" /\ state' = "STREAMING" /\ UNCHANGED alive

Refuse ==
  /\ alive /\ state \in {"STOPPED", "STOPPING"}
  /\ state' = "STOPPED" /\ ~alive'

\* Streaming ended: the receiver waits for a new start position, and
\* resumes streaming once it is given one.
Idle == alive /\ state = "STREAMING" /\ state' = "WAITING" /\ UNCHANGED alive

Resume == alive /\ state = "RESTARTING" /\ state' = "STREAMING" /\ UNCHANGED alive

\* The receiver exits, from any state its exit hook allows.
Exit == alive /\ state \in ExitStates /\ state' = "STOPPED" /\ ~alive'

\* The server crashes: shared memory is re-initialised.
Crash == state' = "STOPPED" /\ ~alive'

Next == Request \/ Stop \/ Claim \/ Refuse \/ Idle \/ Resume \/ Exit \/ Crash

Spec == Init /\ [][Next]_<<state, alive>>
=============================================================================
