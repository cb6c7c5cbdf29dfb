------------------------------ MODULE MCBrokers -----------------------------
(***************************************************************************)
(* The FIX executor, and the stand-alone trader of lead_lag.cpp.  They     *)
(* share no variable, so that a behaviour is one of a single part, which   *)
(* its first state chooses.                                                *)
(*                                                                         *)
(* FIX: two orders on a queue of one, so that one is being written while   *)
(* the other waits or is refused, and one fault, so that a session         *)
(* inherits what another left behind.  Trader: the one worker that Config  *)
(* gives the pool, two signals and a failed session.                       *)
(***************************************************************************)
EXTENDS FixExecutor, LeadLag

VARIABLE part

brokersVars == <<part, vars, leadLagVars>>

\* The part that is not chosen stays as it is.
FixPart == part = "fix" /\ UNCHANGED <<part, leadLagVars>>
LeadLagPart == part = "lead_lag" /\ UNCHANGED <<part, vars>>

BrokersInit == part \in {"fix", "lead_lag"} /\ Init /\ LeadLagInit

BrokersNext ==
  \/ FixPart /\ Next
  \/ LeadLagPart /\ LeadLagNext

\* FairSpec and LeadLagFairSpec.
BrokersSpec ==
  /\ BrokersInit /\ [][BrokersNext]_brokersVars
  /\ WF_vars(part = "fix" /\ SessionThread) /\ WF_vars(part = "fix" /\ OnStop)
  /\ WF_vars(part = "fix" /\ OnWrite) /\ WF_vars(part = "fix" /\ Drain)
  /\ WF_vars(part = "fix" /\ Arrives)
  /\ \A w \in Workers :
       WF_leadLagVars(part = "lead_lag" /\ pc[w] # "post" /\ Worker(w))
  /\ WF_leadLagVars(part = "lead_lag" /\ Writer)
  /\ WF_leadLagVars(part = "lead_lag" /\ Main)
  /\ WF_leadLagVars(part = "lead_lag" /\ TimerFires)
=============================================================================
