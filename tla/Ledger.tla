-------------------------------- MODULE Ledger --------------------------------
(***************************************************************************)
(* What the remediation store promises: a ledger that credits each          *)
(* remediated finding to its histogram once, whoever reports it, however    *)
(* often, and whatever fails on the way.  Losing the database empties the   *)
(* ledger; nothing else takes a credit back.                               *)
(***************************************************************************)
EXTENDS Naturals

CONSTANTS Finding, Scope, ScopeOf

VARIABLES
  done,   \* findings credited
  total   \* total[s]: the count of the histogram of scope s

Init == done = {} /\ total = [s \in Scope |-> 0]

Credit(f) ==
  /\ f \notin done
  /\ done' = done \cup {f}
  /\ total' = [total EXCEPT ![ScopeOf[f]] = @ + 1]

Wipe == done' = {} /\ total' = [s \in Scope |-> 0]

Next == Wipe \/ \E f \in Finding : Credit(f)

Spec == Init /\ [][Next]_<<done, total>>

===============================================================================
