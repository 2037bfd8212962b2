----------------------------- MODULE TokenPool -----------------------------
(***************************************************************************)
(* What an omnibus account promises: a pool of tokens of each asset that   *)
(* never owes more than it holds.  A debt arises only for tokens that have *)
(* arrived and are owed to nobody, and a token leaves only to pay a debt.  *)
(* An asset whose books cannot be trusted any longer is closed for good.   *)
(***************************************************************************)
EXTENDS Naturals

CONSTANT Assets
VARIABLES open,          (* the assets whose books are kept                *)
          held, owed     (* [Assets -> Nat], nothing for a closed asset    *)

Init ==
  /\ open \subseteq Assets
  /\ held \in [Assets -> Nat] /\ owed \in [Assets -> Nat]
  /\ \A a \in Assets : owed[a] <= held[a]

Arrive(a) ==
  /\ held' = [held EXCEPT ![a] = held'[a]] /\ held'[a] \in Nat
  /\ held'[a] > held[a]
  /\ UNCHANGED <<open, owed>>

Credit(a) ==
  /\ owed' = [owed EXCEPT ![a] = owed'[a]] /\ owed'[a] \in Nat
  /\ owed[a] < owed'[a] /\ owed'[a] <= held[a]
  /\ UNCHANGED <<open, held>>

Pay(a) ==
  /\ owed[a] > 0
  /\ held' = [held EXCEPT ![a] = @ - 1]
  /\ owed' = [owed EXCEPT ![a] = @ - 1]
  /\ UNCHANGED open

Close(a) ==
  /\ open' = open \ {a}
  /\ held' = [held EXCEPT ![a] = 0]
  /\ owed' = [owed EXCEPT ![a] = 0]

Next == \E a \in open : Arrive(a) \/ Credit(a) \/ Pay(a) \/ Close(a)
Spec == Init /\ [][Next]_<<open, held, owed>>
=============================================================================
