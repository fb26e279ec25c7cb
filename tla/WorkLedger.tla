----------------------------- MODULE WorkLedger -----------------------------
(***************************************************************************)
(* What the job queue promises, without rows, ids or a worker: for every   *)
(* key (an operation on a path) work is pending, was given up ("failed"),  *)
(* or there is nothing to do.  A failure is a promise to the user: it is   *)
(* shown until the work is asked for again, and Retry asks for all of it.  *)
(***************************************************************************)
CONSTANT Key

VARIABLE ledger

KeyStates == {"clear", "pending", "failed"}

Init == ledger \in [Key -> KeyStates]   \* the table outlives the process

(* New work for k; an earlier failure is thereby tried again.               *)
Ask(k) == ledger' = [ledger EXCEPT ![k] = "pending"]

(* The pending work is done, withdrawn or given up.  An older failure of    *)
(* the same key, if there is one, shows again.                              *)
End(k) ==
  /\ ledger[k] = "pending"
  /\ \E s \in {"clear", "failed"} : ledger' = [ledger EXCEPT ![k] = s]

(* Work on one key is withdrawn in favour of another one.                   *)
Replace(k, l) ==
  /\ ledger[k] = "pending"
  /\ k # l
  /\ \E s \in {"clear", "failed"} :
       ledger' = [ledger EXCEPT ![k] = s, ![l] = "pending"]

(* Retry: every failed key, and no other, is pending again.                 *)
RetryAll ==
  ledger' = [k \in Key |-> IF ledger[k] = "failed" THEN "pending"
                                                  ELSE ledger[k]]

Forget == ledger' = [k \in Key |-> "clear"]

Next ==
  \/ \E k \in Key : Ask(k) \/ End(k)
  \/ \E k, l \in Key : Replace(k, l)
  \/ RetryAll
  \/ Forget

Spec == Init /\ [][Next]_ledger

=============================================================================
