---------------------------- MODULE DispatchCycles ----------------------------
(***************************************************************************)
(* Dispatch with a record of its discovery cycles.  A cycle starts when a   *)
(* pass fetches the repository list and ends when one fetches it again; the *)
(* two history variables say how many Jobs each repository has been given   *)
(* in the current cycle and how old it is.  They constrain nothing: a step  *)
(* of CycleNext is a step of Next with its effect on the history.          *)
(***************************************************************************)
EXTENDS Dispatch

VARIABLES
  made,      \* made[r]: Jobs repository r was given in this cycle
  cycleAge   \* ticks since the cycle began, up to CycleBound

cycleVars == <<vars, made, cycleAge>>

(* Nothing is said of a cycle that outlives its interval by a whole pass. *)
CycleBound == Interval + MaxPass

CycleTypeOK == made \in [Repo -> Nat] /\ cycleAge \in 0 .. CycleBound

CycleInit == Init /\ made = [r \in Repo |-> 0] /\ cycleAge = CycleBound

(* The pass has just fetched the list in this step. *)
Discovered == pc = "gate" /\ pc' = "list" /\ pass'.discovered

(* Repository r is given a Job in this step. *)
Created(r) == phase[r] = "absent" /\ phase'[r] # "absent"

CycleStep ==
  /\ Reconcile \/ Caches \/ Cluster
  /\ IF Discovered THEN made' = [r \in Repo |-> 0] /\ cycleAge' = 0
     ELSE /\ made' = [r \in Repo |-> IF Created(r) THEN made[r] + 1 ELSE made[r]]
          /\ UNCHANGED cycleAge

CycleTick ==
  /\ Tick
  /\ cycleAge' = IF cycleAge < CycleBound THEN cycleAge + 1 ELSE cycleAge
  /\ UNCHANGED made

CycleNext == CycleStep \/ CycleTick

CycleSpec == CycleInit /\ [][CycleNext]_cycleVars

-------------------------------------------------------------------------------
(* "an existing Job (active or finished-awaiting-TTL) is never recreated    *)
(* within a discovery cycle": a repository gets at most one Job between two *)
(* discoveries.  A finished Job stands in the way of its successor only     *)
(* until its TTL runs out, and the shipped TTL is shorter than the default  *)
(* interval, so this is not what the code keeps; JobsAreSpaced is.          *)
OneJobPerCycle ==
  [][\A r \in Repo : Created(r) => made[r] = 0]_cycleVars

(* With a shorter TTL, as the shipped one is, a repository is collected      *)
(* again before the interval is over, but not without end: each of its Jobs *)
(* but the last stood in the way for a whole TTL, so there are fewer than   *)
(* CycleBound / TTL of them.                                               *)
JobsAreSpaced == \A r \in Repo : (made[r] - 1) * TTL < CycleBound

===============================================================================
