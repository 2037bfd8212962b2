----------------------------- MODULE StartProofs -----------------------------
(***************************************************************************)
(* Safety of the start: the adoption of the legacy tables, for any number  *)
(* of replicas, adapters and tables, and the assembly of one adapter,      *)
(* whatever its environment and its network.                               *)
(*                                                                         *)
(* Adoption: the inductive invariant says what an open transaction knows.  *)
(* A rename it holds is of a table that is committed under its legacy name *)
(* only, and nobody else holds it (the lock); a pair it has passed is      *)
(* either held or adopted; what it read of a source that is gone stays     *)
(* true.                                                                   *)
(*                                                                         *)
(* Assembly: the invariant says which guards the start has passed, and     *)
(* which registrars have had their turn at the payments slot.              *)
(***************************************************************************)
EXTENDS LegacyMigration, AdapterBoot, TLAPS

(***************************************************************************)
(* Adoption (LegacyMigration).                                             *)
(***************************************************************************)

Gone(i) == table[<<Legacy, i>>] = Absent
There(r, i) == table[<<SchemaOf[r], i>>] # Absent

(* A replica has dealt with pair i of its loop. *)
Passed(r, i) ==
  \/ pc[r] \in {"source", "dest", "alter", "resource", "redest"} /\ i < pair[r]
  \/ pc[r] = "commit"

HeldInv ==
  \A r \in Replicas : \A i \in own[r] :
    /\ ~ Gone(i) /\ ~ There(r, i)
    /\ pc[r] # "rollback" => Passed(r, i)
    /\ \A q \in Replicas : i \in own[q] => q = r

PassedInv ==
  \A r \in Replicas, i \in Pairs : Passed(r, i) => i \in own[r] \/ Gone(i) \/ There(r, i)

ReadInv ==
  \A r \in Replicas :
    /\ pc[r] = "dest" /\ ~ sourceExists[r] => Gone(pair[r])
    /\ pc[r] = "redest" => Gone(pair[r])

Inv == TypeOK /\ HeldInv /\ PassedInv /\ ReadInv /\ ReturnedIsAdopted

(* The initial state satisfies the invariant. *)
LEMMA InitInv == ASSUME Init PROVE Inv
<1> USE DataAssumption, BoundAssumption, ContentAssumption
<1>1. PICK there \in Starts :
        table = [n \in Names |-> IF n \in there THEN Original(n[1], n[2]) ELSE Absent]
  BY DEF Init
<1>2. \A n \in Names : Original(n[1], n[2]) = n
  BY DEF Names, Original
<1>3. table \in [Names -> Names \cup {Absent}]
  BY <1>1, <1>2
<1>4. TypeOK
  BY <1>3 DEF Init, TypeOK, Pairs, States, Adopting
<1>5. HeldInv /\ PassedInv /\ ReadInv /\ ReturnedIsAdopted
  BY DEF Init, HeldInv, PassedInv, ReadInv, ReturnedIsAdopted, Passed
<1>6. QED
  BY <1>4, <1>5 DEF Inv

(* The loop goes on to a legal place. *)
LEMMA NextRenameTypes ==
  ASSUME TypeOK, NEW r \in Replicas, NextRename(r)
  PROVE  /\ pc' \in [Replicas -> States] /\ pair' \in [Replicas -> Pairs]
         /\ \A q \in Replicas : pc'[q] \notin Adopting => q # r /\ pc'[q] = pc[q]
<1>1. CASE pair[r] = N
  BY <1>1 DEF NextRename, TypeOK, States, Adopting
<1>2. CASE pair[r] # N
  <2>1. pair[r] + 1 \in Pairs
    BY <1>2, DataAssumption DEF TypeOK, Pairs
  <2>2. QED
    BY <1>2, <2>1 DEF NextRename, TypeOK, States, Adopting
<1>3. QED
  BY <1>1, <1>2

(* Every step keeps the types. *)
LEMMA TypeStep == ASSUME TypeOK, [Next]_vars PROVE TypeOK'
<1> USE DataAssumption, BoundAssumption, ContentAssumption
<1>1. ASSUME NEW r \in Replicas, Boot(r) PROVE TypeOK'
  BY <1>1 DEF Boot, TypeOK, States, Adopting, Pairs
<1>2. ASSUME NEW r \in Replicas, ReadSource(r) PROVE TypeOK'
  <2>1. SourceExists(r) \in BOOLEAN
    BY DEF SourceExists
  <2>2. sourceExists' \in [Replicas -> BOOLEAN]
    BY <1>2, <2>1 DEF ReadSource, TypeOK
  <2>3. QED
    BY <1>2, <2>2 DEF ReadSource, TypeOK, States, Adopting
<1>3. ASSUME NEW r \in Replicas, ReadDest(r) PROVE TypeOK'
  <2>1. CASE NextRename(r)
    BY <1>3, <2>1, NextRenameTypes DEF ReadDest, TypeOK
  <2>2. CASE pc' = [pc EXCEPT ![r] = "alter"] /\ pair' = pair
    BY <1>3, <2>2 DEF ReadDest, TypeOK, States, Adopting
  <2>3. QED
    BY <1>3, <2>1, <2>2 DEF ReadDest
<1>4. ASSUME NEW r \in Replicas, Alter(r) PROVE TypeOK'
  <2>1. CASE SourceExists(r) /\ ~ DestExists(r)
    <3>1. NextRename(r) /\ own' = [own EXCEPT ![r] = @ \cup {pair[r]}]
      BY <1>4, <2>1 DEF Alter
    <3>2. own' \in [Replicas -> SUBSET Pairs] /\ \A q \in Replicas : q # r => own'[q] = own[q]
      BY <3>1 DEF TypeOK
    <3>3. QED
      BY <1>4, <3>1, <3>2, NextRenameTypes DEF Alter, TypeOK
  <2>2. CASE ~ (SourceExists(r) /\ ~ DestExists(r))
    BY <1>4, <2>2 DEF Alter, TypeOK, States, Adopting
  <2>3. QED
    BY <2>1, <2>2
<1>5. ASSUME NEW r \in Replicas, RereadSource(r) PROVE TypeOK'
  BY <1>5 DEF RereadSource, TypeOK, States, Adopting
<1>6. ASSUME NEW r \in Replicas, RereadDest(r) PROVE TypeOK'
  <2>1. CASE NextRename(r)
    BY <1>6, <2>1, NextRenameTypes DEF RereadDest, TypeOK
  <2>2. CASE pc' = [pc EXCEPT ![r] = "rollback"] /\ pair' = pair
    BY <1>6, <2>2 DEF RereadDest, TypeOK, States, Adopting
  <2>3. QED
    BY <1>6, <2>1, <2>2 DEF RereadDest
<1>7. ASSUME NEW r \in Replicas, Commit(r) PROVE TypeOK'
  <2>1. table' \in [Names -> Names \cup {Absent, Fresh}]
    <3>1. \A i \in own[r] : <<Legacy, i>> \in Names
      BY DEF TypeOK, Names
    <3>2. QED
      BY <1>7, <3>1 DEF Commit, Renamed, TypeOK, Names
  <2>2. pc' \in [Replicas -> States] /\ faults' \in Nat
    BY <1>7 DEF Commit, TypeOK, States
  <2>3. \A q \in Replicas : pc'[q] \notin Adopting => own'[q] = {}
    BY <1>7 DEF Commit, TypeOK
  <2>4. QED
    BY <1>7, <2>1, <2>2, <2>3 DEF Commit, TypeOK, Pairs
<1>8. ASSUME NEW r \in Replicas, Rollback(r) PROVE TypeOK'
  BY <1>8 DEF Rollback, TypeOK, States, Adopting
<1>9. ASSUME NEW r \in Replicas, QueryFails(r) PROVE TypeOK'
  <2>1. PICK next \in {"resource", "rollback"} : pc' = [pc EXCEPT ![r] = next]
    BY <1>9 DEF QueryFails
  <2>2. QED
    BY <1>9, <2>1 DEF QueryFails, TypeOK, States, Adopting
<1>10. ASSUME NEW r \in Replicas, Migrate(r) PROVE TypeOK'
  <2>1. table' \in [Names -> Names \cup {Absent, Fresh}]
    BY <1>10 DEF Migrate, TypeOK
  <2>2. CASE pair[r] = N
    BY <1>10, <2>1, <2>2 DEF Migrate, TypeOK, States, Adopting
  <2>3. CASE pair[r] # N
    <3>1. pair[r] + 1 \in Pairs
      BY <2>3 DEF TypeOK, Pairs
    <3>2. QED
      BY <1>10, <2>1, <2>3, <3>1 DEF Migrate, TypeOK
  <2>4. QED
    BY <2>2, <2>3
<1>11. ASSUME NEW r \in Replicas, Stop(r) PROVE TypeOK'
  BY <1>11 DEF Stop, TypeOK, States, Adopting
<1>12. CASE UNCHANGED vars
  BY <1>12 DEF vars, TypeOK
<1>13. QED
  BY <1>1, <1>2, <1>3, <1>4, <1>5, <1>6, <1>7, <1>8, <1>9, <1>10, <1>11, <1>12 DEF Next, Adopt

(* A step is one replica's; the others stay where they are. *)
Still(q) == /\ pc'[q] = pc[q] /\ pair'[q] = pair[q]
            /\ sourceExists'[q] = sourceExists[q] /\ own'[q] = own[q]

LEMMA OneMoves ==
  ASSUME TypeOK, NEW r \in Replicas, NEW q \in Replicas \ {r},
         Boot(r) \/ Adopt(r) \/ QueryFails(r) \/ Migrate(r) \/ Stop(r)
  PROVE  Still(q)
<1>1. ASSUME NextRename(r) PROVE pc'[q] = pc[q] /\ pair'[q] = pair[q]
  BY <1>1 DEF NextRename, TypeOK
<1>2. CASE Boot(r) \/ QueryFails(r) \/ Migrate(r) \/ Stop(r)
  BY <1>2 DEF Boot, QueryFails, Migrate, Stop, Still, TypeOK
<1>3. CASE ReadSource(r) \/ RereadSource(r) \/ Commit(r) \/ Rollback(r)
  BY <1>3 DEF ReadSource, RereadSource, Commit, Rollback, Still, TypeOK
<1>4. CASE ReadDest(r) \/ Alter(r) \/ RereadDest(r)
  BY <1>1, <1>4 DEF ReadDest, Alter, RereadDest, Still, TypeOK
<1>5. QED
  BY <1>2, <1>3, <1>4 DEF Adopt

(* What the two steps that touch the catalog do to a name. *)
LEMMA CommitTable ==
  ASSUME TypeOK, NEW r \in Replicas, Commit(r), NEW i \in Pairs
  PROVE  /\ i \in own[r] => table'[<<Legacy, i>>] = Absent
         /\ i \notin own[r] => table'[<<Legacy, i>>] = table[<<Legacy, i>>]
         /\ i \in own[r] => table'[<<SchemaOf[r], i>>] = table[<<Legacy, i>>]
         /\ \A s \in Schemas : i \notin own[r] \/ s # SchemaOf[r] => table'[<<s, i>>] = table[<<s, i>>]
<1>1. table' = Renamed(r)
  BY DEF Commit
<1>2. <<Legacy, i>> \in Names /\ \A s \in Schemas : <<s, i>> \in Names
  BY DEF Names
<1>3. SchemaOf[r] \in Schemas /\ SchemaOf[r] # Legacy
  BY DataAssumption
<1>4. QED
  BY <1>1, <1>2, <1>3, DataAssumption DEF Renamed

LEMMA MigrateTable ==
  ASSUME TypeOK, NEW r \in Replicas, Migrate(r), NEW i \in Pairs
  PROVE  /\ table'[<<Legacy, i>>] = table[<<Legacy, i>>]
         /\ \A s \in Schemas :
              \/ table'[<<s, i>>] = table[<<s, i>>]
              \/ /\ s = SchemaOf[r] /\ i = pair[r]
                 /\ table[<<s, i>>] = Absent /\ table'[<<s, i>>] = Fresh
<1>1. table' = [table EXCEPT ![<<SchemaOf[r], pair[r]>>] = IF @ = Absent THEN Fresh ELSE @]
  BY DEF Migrate
<1>2. <<Legacy, i>> \in Names /\ \A s \in Schemas : <<s, i>> \in Names
  BY DEF Names
<1>3. SchemaOf[r] \in Schemas /\ SchemaOf[r] # Legacy /\ table \in [Names -> Names \cup {Absent, Fresh}]
  BY DataAssumption DEF TypeOK
<1>4. QED
  BY <1>1, <1>2, <1>3

LEMMA TableStays ==
  ASSUME NEW r \in Replicas, Boot(r) \/ Adopt(r) \/ QueryFails(r) \/ Stop(r), ~ Commit(r)
  PROVE  table' = table
BY DEF Boot, Adopt, ReadSource, ReadDest, Alter, RereadSource, RereadDest, Rollback, QueryFails, Stop

(* A source that is gone stays gone, and an adopted table stays. *)
LEMMA Monotone ==
  ASSUME TypeOK, HeldInv, Next, NEW i \in Pairs
  PROVE  /\ Gone(i) => Gone(i)'
         /\ \A q \in Replicas : There(q, i) => There(q, i)'
<1> USE DataAssumption, ContentAssumption
<1>1. ASSUME NEW r \in Replicas, Commit(r)
      PROVE  (Gone(i) => Gone(i)') /\ \A q \in Replicas : There(q, i) => There(q, i)'
  <2>1. i \in own[r] => table[<<Legacy, i>>] # Absent
    BY DEF HeldInv, Gone
  <2>2. \A q \in Replicas : SchemaOf[q] \in Schemas
    OBVIOUS
  <2>3. QED
    BY <1>1, <2>1, <2>2, CommitTable DEF Gone, There
<1>2. ASSUME NEW r \in Replicas, Migrate(r)
      PROVE  (Gone(i) => Gone(i)') /\ \A q \in Replicas : There(q, i) => There(q, i)'
  BY <1>2, MigrateTable DEF Gone, There
<1>3. CASE table' = table
  BY <1>3 DEF Gone, There
<1>4. QED
  BY <1>1, <1>2, <1>3, TableStays DEF Next

(* The loop has passed one more pair at most. *)
LEMMA NextPassed ==
  ASSUME TypeOK, NEW r \in Replicas, NextRename(r),
         pc[r] \in {"dest", "alter", "redest"}
  PROVE  /\ \A i \in Pairs : Passed(r, i)' <=> Passed(r, i) \/ i = pair[r]
         /\ pc'[r] \in {"source", "commit"}
<1>1. pair[r] \in Pairs /\ pair \in [Replicas -> Pairs] /\ pc \in [Replicas -> States]
  BY DEF TypeOK
<1>2. CASE pair[r] = N
  <2>1. pc'[r] = "commit"
    BY <1>1, <1>2 DEF NextRename
  <2>2. \A i \in Pairs : i < pair[r] \/ i = pair[r]
    BY <1>2, DataAssumption DEF Pairs
  <2>3. QED
    BY <2>1, <2>2 DEF Passed
<1>3. CASE pair[r] # N
  <2>1. pc'[r] = "source" /\ pair'[r] = pair[r] + 1
    BY <1>1, <1>3 DEF NextRename
  <2>2. \A i \in Pairs : i < pair[r] + 1 <=> i < pair[r] \/ i = pair[r]
    BY <1>1 DEF Pairs
  <2>3. QED
    BY <2>1, <2>2 DEF Passed
<1>4. QED
  BY <1>2, <1>3

(* The pairs a replica has passed, whatever step it takes itself. *)
LEMMA PassedOwn ==
  ASSUME TypeOK, ReadInv, PassedInv, NEW r \in Replicas,
         Boot(r) \/ Adopt(r) \/ QueryFails(r) \/ Migrate(r) \/ Stop(r), NEW i \in Pairs, Passed(r, i)'
  PROVE  i \in own'[r] \/ Gone(i) \/ There(r, i)
<1>0. /\ pc \in [Replicas -> States] /\ pair \in [Replicas -> Pairs] /\ own \in [Replicas -> SUBSET Pairs]
      /\ pair[r] \in Pairs
  BY DEF TypeOK
<1>1. ASSUME Passed(r, i), own'[r] = own[r] PROVE i \in own'[r] \/ Gone(i) \/ There(r, i)
  BY <1>1 DEF PassedInv
<1>2. CASE Boot(r)
  BY <1>0, <1>2 DEF Boot, Passed, Pairs
<1>3. CASE ReadSource(r)
  BY <1>0, <1>1, <1>3 DEF ReadSource, Passed
<1>4. CASE ReadDest(r)
  <2>1. CASE ~ sourceExists[r] \/ DestExists(r)
    <3>1. NextRename(r) /\ own'[r] = own[r] /\ pc[r] = "dest"
      BY <1>4, <2>1 DEF ReadDest
    <3>2. CASE i = pair[r]
      BY <2>1, <3>1, <3>2 DEF ReadInv, DestExists, There
    <3>3. QED
      BY <1>1, <3>1, <3>2, NextPassed
  <2>2. CASE ~ (~ sourceExists[r] \/ DestExists(r))
    BY <1>0, <1>1, <1>4, <2>2 DEF ReadDest, Passed
  <2>3. QED
    BY <2>1, <2>2
<1>5. CASE Alter(r)
  <2>1. CASE SourceExists(r) /\ ~ DestExists(r)
    <3>1. NextRename(r) /\ own'[r] = own[r] \cup {pair[r]} /\ pc[r] = "alter"
      BY <1>0, <1>5, <2>1 DEF Alter
    <3>2. QED
      BY <3>1, NextPassed DEF PassedInv
  <2>2. CASE ~ (SourceExists(r) /\ ~ DestExists(r))
    BY <1>0, <1>1, <1>5, <2>2 DEF Alter, Passed
  <2>3. QED
    BY <2>1, <2>2
<1>6. CASE RereadSource(r)
  BY <1>0, <1>1, <1>6 DEF RereadSource, Passed
<1>7. CASE RereadDest(r)
  <2>1. CASE DestExists(r)
    <3>1. NextRename(r) /\ own'[r] = own[r] /\ pc[r] = "redest"
      BY <1>7, <2>1 DEF RereadDest
    <3>2. CASE i = pair[r]
      BY <3>1, <3>2 DEF ReadInv
    <3>3. QED
      BY <1>1, <3>1, <3>2, NextPassed
  <2>2. CASE ~ DestExists(r)
    BY <1>0, <1>1, <1>7, <2>2 DEF RereadDest, Passed
  <2>3. QED
    BY <2>1, <2>2
<1>8. CASE Commit(r) \/ Rollback(r) \/ Stop(r) \/ Migrate(r)
  BY <1>0, <1>8 DEF Commit, Rollback, Stop, Migrate, Passed
<1>9. CASE QueryFails(r)
  <2>1. pc'[r] = "rollback" \/ (pc'[r] = "resource" /\ pc[r] = "alter")
    BY <1>0, <1>9 DEF QueryFails
  <2>2. QED
    BY <1>1, <1>9, <2>1 DEF QueryFails, Passed
<1>10. QED
  BY <1>2, <1>3, <1>4, <1>5, <1>6, <1>7, <1>8, <1>9 DEF Adopt

LEMMA PassedStep == ASSUME Inv, Next PROVE PassedInv'
<1>1. PICK r \in Replicas : Boot(r) \/ Adopt(r) \/ QueryFails(r) \/ Migrate(r) \/ Stop(r)
  BY DEF Next
<1>2. SUFFICES ASSUME NEW q \in Replicas, NEW i \in Pairs, Passed(q, i)'
               PROVE  i \in own'[q] \/ Gone(i)' \/ There(q, i)'
  BY DEF PassedInv, Passed, Gone, There
<1>3. i \in own'[q] \/ Gone(i) \/ There(q, i)
  <2>1. CASE q = r
    BY <1>1, <1>2, <2>1, PassedOwn DEF Inv
  <2>2. CASE q # r
    <3>1. Still(q)
      BY <1>1, <2>2, OneMoves DEF Inv
    <3>2. QED
      BY <1>2, <3>1 DEF Still, Passed, Inv, PassedInv
  <2>3. QED
    BY <2>1, <2>2
<1>4. QED
  BY <1>3, Monotone DEF Inv

(* What a replica has read of a source that is gone stays true. *)
LEMMA ReadStep == ASSUME Inv, Next PROVE ReadInv'
<1>0. TypeOK /\ TypeOK' /\ HeldInv
  BY TypeStep DEF Inv
<1>1. PICK r \in Replicas : Boot(r) \/ Adopt(r) \/ QueryFails(r) \/ Migrate(r) \/ Stop(r)
  BY DEF Next
<1>2. SUFFICES ASSUME NEW q \in Replicas,
                      (pc'[q] = "dest" /\ ~ sourceExists'[q]) \/ pc'[q] = "redest"
               PROVE  table'[<<Legacy, pair'[q]>>] = Absent
  BY DEF ReadInv, Gone
<1>3. Gone(pair'[q])
  <2>1. CASE q # r
    BY <1>0, <1>1, <1>2, <2>1, OneMoves DEF Still, Inv, ReadInv, Gone
  <2>2. CASE q = r
    <3>1. CASE ReadSource(r)
      <4>1. sourceExists'[r] = SourceExists(r) /\ pair' = pair /\ pc[r] = "source" /\ pc'[r] = "dest"
        BY <1>0, <3>1 DEF ReadSource, TypeOK
      <4>2. pair[r] \in own[r] => Passed(r, pair[r])
        BY <1>0, <4>1 DEF HeldInv
      <4>3. pair[r] \notin own[r]
        BY <1>0, <4>1, <4>2 DEF Passed, TypeOK, Pairs
      <4>4. QED
        BY <1>2, <2>2, <4>1, <4>3 DEF SourceExists, Gone
    <3>2. CASE RereadSource(r)
      <4>1. pair' = pair /\ pc[r] = "resource" /\ pc'[r] \in {"rollback", "redest"}
            /\ (pc'[r] = "redest" => ~ SourceExists(r))
        BY <1>0, <3>2 DEF RereadSource, TypeOK
      <4>2. pair[r] \in own[r] => Passed(r, pair[r])
        BY <1>0, <4>1 DEF HeldInv
      <4>3. pair[r] \notin own[r]
        BY <1>0, <4>1, <4>2 DEF Passed, TypeOK, Pairs
      <4>4. QED
        BY <1>2, <2>2, <4>1, <4>3 DEF SourceExists, Gone
    <3>3. CASE ~ ReadSource(r) /\ ~ RereadSource(r)
      <4>1. pc'[r] \notin {"dest", "redest"}
        <5>1. ASSUME NextRename(r) PROVE pc'[r] \in {"source", "commit"}
          BY <1>0, <5>1 DEF NextRename, TypeOK
        <5>2. CASE ReadDest(r) \/ Alter(r) \/ RereadDest(r)
          BY <1>0, <5>1, <5>2 DEF ReadDest, Alter, RereadDest, TypeOK
        <5>3. CASE Commit(r) \/ Rollback(r) \/ Stop(r) \/ Boot(r) \/ Migrate(r)
          BY <1>0, <5>3 DEF Commit, Rollback, Stop, Boot, Migrate, TypeOK
        <5>4. CASE QueryFails(r)
          BY <1>0, <5>4 DEF QueryFails, TypeOK
        <5>5. QED
          BY <1>1, <3>3, <5>2, <5>3, <5>4 DEF Adopt
      <4>2. QED
        BY <1>2, <2>2, <4>1
    <3>4. QED
      BY <3>1, <3>2, <3>3
  <2>3. QED
    BY <2>1, <2>2
<1>4. pair'[q] \in Pairs
  BY <1>0 DEF TypeOK
<1>5. QED
  BY <1>0, <1>3, <1>4, Monotone DEF Gone

(* What the next state of r's renames can be. *)
LEMMA OwnStep ==
  ASSUME TypeOK, HeldInv, NEW r \in Replicas,
         Boot(r) \/ Adopt(r) \/ QueryFails(r) \/ Migrate(r) \/ Stop(r), NEW i \in own'[r]
  PROVE  /\ i \in Pairs
         /\ \/ i \in own[r]
            \/ /\ Alter(r) /\ i = pair[r] /\ ~ Locked(r)
               /\ ~ Gone(i) /\ ~ There(r, i)
               /\ pc[r] = "alter" /\ NextRename(r)
         /\ pc'[r] # "rollback" => Passed(r, i)'
<1>0. /\ pc \in [Replicas -> States] /\ pair \in [Replicas -> Pairs] /\ own \in [Replicas -> SUBSET Pairs]
      /\ pair[r] \in Pairs
  BY DEF TypeOK
<1>1. ASSUME NextRename(r), pc[r] \in {"dest", "alter", "redest"}, i \in own[r]
      PROVE  Passed(r, i)'
  <2>1. i \in Pairs /\ Passed(r, i)
    BY <1>0, <1>1 DEF HeldInv
  <2>2. QED
    BY <1>1, <2>1, NextPassed
<1>2. ASSUME own'[r] = own[r], pair'[r] = pair[r],
             pc[r] \in {"source", "dest", "alter", "resource", "redest"},
             pc'[r] \in {"source", "dest", "alter", "resource", "redest", "rollback"}
      PROVE  i \in own[r] /\ i \in Pairs /\ (pc'[r] # "rollback" => Passed(r, i)')
  <2>1. Passed(r, i)
    BY <1>2 DEF HeldInv
  <2>2. QED
    BY <1>0, <1>2, <2>1 DEF Passed
<1>3. CASE Alter(r)
  <2>1. CASE SourceExists(r) /\ ~ DestExists(r)
    <3>1. /\ NextRename(r) /\ own'[r] = own[r] \cup {pair[r]} /\ pc[r] = "alter" /\ ~ Locked(r)
      BY <1>0, <1>3, <2>1 DEF Alter
    <3>2. \A j \in Pairs : j = pair[r] => Passed(r, j)'
      BY <1>0, <3>1, NextPassed
    <3>3. ~ Gone(pair[r]) /\ ~ There(r, pair[r])
      BY <2>1 DEF SourceExists, DestExists, Gone, There
    <3>4. CASE i \in own[r]
      BY <1>0, <1>1, <3>1, <3>4
    <3>5. CASE i = pair[r]
      BY <1>0, <1>3, <3>1, <3>2, <3>3, <3>5
    <3>6. QED
      BY <3>1, <3>4, <3>5
  <2>2. CASE ~ (SourceExists(r) /\ ~ DestExists(r))
    BY <1>0, <1>2, <1>3, <2>2 DEF Alter
  <2>3. QED
    BY <2>1, <2>2
<1>4. CASE ReadDest(r) \/ RereadDest(r)
  <2>1. own'[r] = own[r] /\ pc[r] \in {"dest", "redest"}
    BY <1>4 DEF ReadDest, RereadDest
  <2>2. CASE NextRename(r)
    BY <1>0, <1>1, <2>1, <2>2
  <2>3. CASE pair' = pair /\ pc'[r] \in {"alter", "rollback"}
    BY <1>2, <2>1, <2>3
  <2>4. QED
    BY <1>0, <1>4, <2>2, <2>3 DEF ReadDest, RereadDest
<1>5. CASE ReadSource(r) \/ RereadSource(r)
  BY <1>0, <1>2, <1>5 DEF ReadSource, RereadSource
<1>6. CASE QueryFails(r)
  <2>1. own' = own /\ pair' = pair /\ pc[r] \in Adopting
    BY <1>6 DEF QueryFails
  <2>2. pc'[r] = "rollback" \/ (pc'[r] = "resource" /\ pc[r] = "alter")
    BY <1>0, <1>6 DEF QueryFails
  <2>3. QED
    BY <1>0, <1>2, <2>1, <2>2
<1>7. CASE Boot(r) \/ Migrate(r)
  BY <1>0, <1>7 DEF Boot, Migrate, TypeOK, Adopting
<1>8. CASE Commit(r) \/ Rollback(r) \/ Stop(r)
  BY <1>0, <1>8 DEF Commit, Rollback, Stop
<1>9. QED
  BY <1>3, <1>4, <1>5, <1>6, <1>7, <1>8 DEF Adopt

(* The lock keeps a rename's table as it was until the transaction ends. *)
LEMMA HeldStep == ASSUME Inv, Next PROVE HeldInv'
<1> USE DataAssumption, ContentAssumption
<1>0. TypeOK /\ HeldInv /\ ReturnedIsAdopted /\ own \in [Replicas -> SUBSET Pairs]
  BY DEF Inv, TypeOK
<1>1. PICK r \in Replicas : Boot(r) \/ Adopt(r) \/ QueryFails(r) \/ Migrate(r) \/ Stop(r)
  BY DEF Next
<1>2. \A q \in Replicas : q # r => Still(q)
  BY <1>0, <1>1, OneMoves
<1>3. ASSUME NEW q \in Replicas, NEW i \in own'[q]
      PROVE  i \in Pairs /\ ~ Gone(i) /\ ~ There(q, i) /\ (pc'[q] # "rollback" => Passed(q, i)')
  <2>1. CASE q = r
    BY <1>0, <1>1, <1>3, <2>1, OwnStep DEF HeldInv
  <2>2. CASE q # r
    <3>1. Still(q) /\ i \in own[q]
      BY <1>2, <1>3, <2>2 DEF Still
    <3>2. QED
      BY <1>0, <3>1 DEF HeldInv, Still, Passed
  <2>3. QED
    BY <2>1, <2>2
<1>4. ASSUME NEW q \in Replicas, NEW i \in own'[q], NEW p \in Replicas, i \in own'[p] PROVE p = q
  <2>1. ASSUME NEW a \in Replicas, NEW b \in Replicas, a # b, b # r, i \in own'[a], i \in own'[b] PROVE FALSE
    <3>1. i \in own[b]
      BY <1>2, <2>1 DEF Still
    <3>2. i \notin own[a]
      BY <1>0, <2>1, <3>1 DEF HeldInv
    <3>3. a = r
      BY <1>2, <2>1, <3>2 DEF Still
    <3>4. i = pair[r] /\ ~ Locked(r)
      BY <1>0, <1>1, <2>1, <3>2, <3>3, OwnStep
    <3>5. QED
      BY <2>1, <3>1, <3>4 DEF Locked
  <2>2. QED
    BY <1>4, <2>1
<1>5. ASSUME NEW q \in Replicas, NEW i \in own'[q] PROVE ~ Gone(i)' /\ ~ There(q, i)'
  <2>1. i \in Pairs /\ ~ Gone(i) /\ ~ There(q, i)
    BY <1>3
  <2>2. CASE table' = table
    BY <2>1, <2>2 DEF Gone, There
  <2>3. CASE Commit(r)
    <3>1. q # r
      BY <1>0, <2>3 DEF Commit
    <3>2. i \in own[q] /\ i \notin own[r]
      BY <1>0, <1>2, <3>1 DEF HeldInv, Still
    <3>3. QED
      BY <1>0, <2>1, <2>3, <3>2, CommitTable DEF Gone, There
  <2>4. CASE Migrate(r)
    <3>1. pc[r] = "returned" /\ pair[r] \in Pairs
      BY <1>0, <2>4 DEF Migrate, TypeOK
    <3>2. Gone(pair[r]) \/ There(r, pair[r])
      BY <1>0, <3>1 DEF ReturnedIsAdopted, Gone, There
    <3>3. QED
      BY <1>0, <2>1, <2>4, <3>2, MigrateTable DEF Gone, There
  <2>5. QED
    BY <1>1, <2>2, <2>3, <2>4, TableStays
<1>6. QED
  BY <1>3, <1>4, <1>5 DEF HeldInv

(* What a replica has adopted stays adopted. *)
LEMMA ReturnedStep == ASSUME Inv, Next PROVE ReturnedIsAdopted'
<1>0. TypeOK /\ HeldInv /\ PassedInv /\ pc \in [Replicas -> States]
  BY DEF Inv, TypeOK
<1>1. PICK r \in Replicas : Boot(r) \/ Adopt(r) \/ QueryFails(r) \/ Migrate(r) \/ Stop(r)
  BY DEF Next
<1>2. SUFFICES ASSUME NEW q \in Replicas, NEW i \in Pairs, pc'[q] \in {"returned", "running"}
               PROVE  Gone(i)' \/ There(q, i)'
  BY DEF ReturnedIsAdopted, Gone, There
<1>3. CASE pc[q] \in {"returned", "running"}
  <2>1. Gone(i) \/ There(q, i)
    BY <1>3 DEF Inv, ReturnedIsAdopted, Gone, There
  <2>2. QED
    BY <1>0, <2>1, Monotone
<1>4. CASE pc[q] \notin {"returned", "running"}
  <2>1. q = r
    BY <1>0, <1>1, <1>2, <1>4, OneMoves DEF Still
  <2>2. Commit(r)
    <3>1. ASSUME NextRename(r) PROVE pc'[r] \in {"source", "commit"}
      BY <1>0, <3>1 DEF NextRename
    <3>2. CASE ReadDest(r) \/ Alter(r) \/ RereadDest(r)
      BY <1>0, <1>2, <2>1, <3>1, <3>2 DEF ReadDest, Alter, RereadDest
    <3>3. CASE Rollback(r) \/ Stop(r) \/ Boot(r) \/ Migrate(r) \/ ReadSource(r) \/ RereadSource(r)
      BY <1>0, <1>2, <1>4, <2>1, <3>3 DEF Rollback, Stop, Boot, Migrate, ReadSource, RereadSource
    <3>4. CASE QueryFails(r)
      BY <1>0, <1>2, <2>1, <3>4 DEF QueryFails
    <3>5. QED
      BY <1>1, <3>2, <3>3, <3>4 DEF Adopt
  <2>3. i \in own[r] \/ Gone(i) \/ There(r, i)
    BY <1>0, <2>2 DEF Commit, PassedInv, Passed
  <2>4. CASE i \in own[r]
    BY <1>0, <2>2, <2>4, CommitTable DEF Gone
  <2>5. CASE Gone(i) \/ There(r, i)
    BY <1>0, <2>1, <2>5, Monotone
  <2>6. QED
    BY <2>3, <2>4, <2>5
<1>5. QED
  BY <1>3, <1>4

(* The invariant is inductive. *)
LEMMA Invariance == Spec => []Inv
<1>1. Init => Inv
  BY InitInv
<1>2. Inv /\ [Next]_vars => Inv'
  <2>1. CASE Next
    <3>1. Inv => TypeOK
      BY DEF Inv
    <3>2. QED
      BY <2>1, <3>1, TypeStep, PassedStep, ReadStep, HeldStep, ReturnedStep DEF Inv
  <2>2. ASSUME Inv, UNCHANGED vars PROVE Inv'
    <3>1. TypeOK'
      BY <2>2 DEF Inv, TypeOK, vars
    <3>2. HeldInv' /\ PassedInv' /\ ReadInv' /\ ReturnedIsAdopted'
      BY <2>2 DEF Inv, HeldInv, PassedInv, ReadInv, ReturnedIsAdopted, Gone, There, Passed, vars
    <3>3. QED
      BY <3>1, <3>2 DEF Inv
  <2>3. QED
    BY <2>1, <2>2
<1>3. QED
  BY <1>1, <1>2, PTL DEF Spec

(* The types of LegacyMigration hold in every reachable state. *)
THEOREM TypeCorrect == Spec => []TypeOK
<1>1. Inv => TypeOK
  BY DEF Inv
<1>2. QED
  BY <1>1, Invariance, PTL

(* For any number of replicas, adapters and tables: a replica whose adoption
   has returned leaves goose no free name beside a legacy table. *)
THEOREM Adopted == Spec => []ReturnedIsAdopted
<1>1. Inv => ReturnedIsAdopted
  BY DEF Inv
<1>2. QED
  BY <1>1, Invariance, PTL

(* Before the adoption every table has its legacy name only; after it one schema
   has them all. *)
Unclaimed ==
  \A i \in Pairs :
    /\ table[<<Legacy, i>>] = Original(Legacy, i)
    /\ \A s \in Schemas : table[<<s, i>>] = Absent
Claimed(s) == \A i \in Pairs : Gone(i) /\ table[<<s, i>>] = Original(Legacy, i)
WholeInv == Unadopted => Unclaimed \/ \E s \in Schemas : Claimed(s)

LEMMA WholeInit == ASSUME Init PROVE WholeInv
<1> USE DataAssumption, ContentAssumption
<1>1. SUFFICES ASSUME Unadopted PROVE Unclaimed
  BY DEF WholeInv
<1>2. PICK there \in Starts :
        table = [n \in Names |-> IF n \in there THEN Original(n[1], n[2]) ELSE Absent]
  BY DEF Init
<1>3. SUFFICES ASSUME NEW i \in Pairs
               PROVE  /\ table[<<Legacy, i>>] = Original(Legacy, i)
                      /\ \A s \in Schemas : table[<<s, i>>] = Absent
  BY DEF Unclaimed
<1>4. <<Legacy, i>> \in Names /\ \A s \in Schemas : <<s, i>> \in Names /\ <<s, i>> \notin {Legacy} \X Pairs
  BY DEF Names
<1>5. \A s \in Schemas \cup {Legacy} : table[<<s, i>>] # Absent <=> s = Legacy
  BY <1>1, <1>4 DEF Init, Unadopted
<1>6. QED
  BY <1>2, <1>4, <1>5 DEF Original

LEMMA WholeStep == ASSUME Inv, WholeInv, Next PROVE WholeInv'
<1> USE DataAssumption, ContentAssumption
<1>1. PICK r \in Replicas : Boot(r) \/ Adopt(r) \/ QueryFails(r) \/ Migrate(r) \/ Stop(r)
  BY DEF Next
<1>2. TypeOK /\ HeldInv /\ PassedInv /\ ReturnedIsAdopted
  BY DEF Inv
<1>3. SUFFICES ASSUME Unadopted PROVE Unclaimed' \/ \E s \in Schemas : Claimed(s)'
  <2>1. initial' = initial
    BY DEF Next, Boot, Adopt, ReadSource, ReadDest, Alter, RereadSource, RereadDest, Commit, Rollback, QueryFails, Migrate, Stop
  <2>2. Unadopted' <=> Unadopted
    BY <2>1 DEF Unadopted
  <2>3. QED
    BY <2>2 DEF WholeInv
<1>4. \A i \in Pairs : Original(Legacy, i) \in Names
  BY DEF Original, Names
<1>5. CASE Commit(r)
  <2>1. SchemaOf[r] \in Schemas
    OBVIOUS
  <2>2. CASE Unclaimed
    <3>1. \A i \in Pairs : i \in own[r]
      <4>1. \A i \in Pairs : Passed(r, i)
        BY <1>5 DEF Commit, Passed
      <4>2. \A i \in Pairs : ~ Gone(i) /\ ~ There(r, i)
        BY <1>4, <2>1, <2>2 DEF Gone, There, Unclaimed
      <4>3. QED
        BY <1>2, <4>1, <4>2 DEF PassedInv
    <3>2. Claimed(SchemaOf[r])'
      BY <1>2, <1>5, <2>2, <3>1, CommitTable DEF Claimed, Gone, Unclaimed, Original
    <3>3. QED
      BY <2>1, <3>2
  <2>3. ASSUME NEW s \in Schemas, Claimed(s) PROVE Claimed(s)'
    <3>1. \A i \in Pairs : i \notin own[r]
      BY <1>2, <2>3 DEF HeldInv, Claimed
    <3>2. ASSUME NEW i \in Pairs
          PROVE  table'[<<Legacy, i>>] = Absent /\ table'[<<s, i>>] = Original(Legacy, i)
      <4>1. table[<<Legacy, i>>] = Absent /\ table[<<s, i>>] = Original(Legacy, i)
        BY <2>3 DEF Claimed, Gone
      <4>2. i \notin own[r]
        BY <3>1
      <4>3. TypeOK /\ Commit(r)
        BY <1>2, <1>5
      <4>4. /\ table'[<<Legacy, i>>] = table[<<Legacy, i>>]
            /\ \A t \in Schemas : table'[<<t, i>>] = table[<<t, i>>]
        BY ONLY CommitTable, <4>2, <4>3, r \in Replicas, i \in Pairs
      <4>5. QED
        BY ONLY <4>1, <4>4, s \in Schemas
    <3>3. \A i : Original(Legacy, i)' = Original(Legacy, i)
      BY DEF Original
    <3>4. QED
      BY <3>2, <3>3 DEF Claimed, Gone
  <2>4. QED
    BY <1>3, <2>2, <2>3 DEF WholeInv
<1>6. CASE Migrate(r)
  <2>1. pc[r] = "returned" /\ pair[r] \in Pairs /\ SchemaOf[r] \in Schemas
    BY <1>2, <1>6 DEF Migrate, TypeOK
  <2>2. Gone(pair[r]) \/ There(r, pair[r])
    BY <1>2, <2>1 DEF ReturnedIsAdopted, Gone, There
  <2>3. ~ Unclaimed
    BY <1>4, <2>1, <2>2 DEF Unclaimed, Gone, There
  <2>4. ASSUME NEW s \in Schemas, Claimed(s) PROVE Claimed(s)'
    BY <1>2, <1>4, <1>6, <2>4, MigrateTable DEF Claimed, Gone, Original
  <2>5. QED
    BY <1>3, <2>3, <2>4 DEF WholeInv
<1>7. CASE table' = table
  BY <1>3, <1>7 DEF WholeInv, Unclaimed, Claimed, Gone
<1>8. QED
  BY <1>1, <1>5, <1>6, <1>7, TableStays

(* For any number of replicas, adapters and tables, and whatever fails: no
   committed state is half-migrated. *)
THEOREM Atomic == Spec => []ClaimedWhole
<1>1. Init => WholeInv
  BY WholeInit
<1>2. Inv /\ WholeInv /\ [Next]_vars => WholeInv'
  <2>1. ASSUME WholeInv, UNCHANGED vars PROVE WholeInv'
    BY <2>1 DEF WholeInv, Unadopted, Unclaimed, Claimed, Gone, vars
  <2>2. QED
    BY <2>1, WholeStep
<1>3. WholeInv => ClaimedWhole
  <2>1. \A i \in Pairs : Original(Legacy, i) # Absent
    BY ContentAssumption DEF Original, Names
  <2>2. QED
    BY <2>1 DEF WholeInv, ClaimedWhole, Unclaimed, Claimed, Gone
<1>4. QED
  BY <1>1, <1>2, <1>3, Invariance, PTL DEF Spec

-----------------------------------------------------------------------------
(* Where the history of legacy table i is, when it existed at the start. *)
HistoryAt(t, i) ==
  \A s \in Schemas \cup {Legacy} : table[<<s, i>>] = Original(Legacy, i) <=> s = t

(* A legacy name has its own table or none; another name has the table it had, a
   legacy table of its pair or a new one, and keeps the table it had. *)
KeptInv ==
  \A i \in Pairs :
    /\ table[<<Legacy, i>>] \in {Absent, initial[<<Legacy, i>>]}
    /\ \A s \in Schemas \cup {Legacy} : initial[<<s, i>>] \in {Absent, Original(s, i)}
    /\ \A s \in Schemas : table[<<s, i>>] \in {Absent, Fresh, Original(s, i), Original(Legacy, i)}
    /\ \A s \in Schemas : initial[<<s, i>>] # Absent => table[<<s, i>>] = Original(s, i)
    /\ initial[<<Legacy, i>>] # Absent => \E t \in Schemas \cup {Legacy} : HistoryAt(t, i)

(* The legacy table that a replica saw existed at the start; a new name that is
   free at the check is taken only when the source goes; without a failing query
   an ALTER throws only because the source is gone. *)
ThrowInv ==
  \A r \in Replicas :
    /\ (pc[r] = "dest" /\ sourceExists[r]) \/ pc[r] \in {"alter", "resource", "redest"}
         => initial[<<Legacy, pair[r]>>] # Absent
    /\ pc[r] = "alter" => Gone(pair[r]) \/ ~ There(r, pair[r])
    /\ pc[r] = "resource" /\ faults = 0 => Gone(pair[r])
    /\ pc[r] \in {"rollback", "thrown"} => faults > 0 \/ \E i \in Pairs : TakenFrom(SchemaOf[r], i)

LEMMA InitialStays == ASSUME Next PROVE initial' = initial
BY DEF Next, Boot, Adopt, ReadSource, ReadDest, Alter, RereadSource, RereadDest, Commit, Rollback,
       QueryFails, Migrate, Stop

LEMMA KeptInit == ASSUME Init PROVE KeptInv
<1> USE DataAssumption, ContentAssumption
<1>1. PICK there \in Starts :
        table = [n \in Names |-> IF n \in there THEN Original(n[1], n[2]) ELSE Absent]
  BY DEF Init
<1>2. SUFFICES ASSUME NEW i \in Pairs
               PROVE  /\ table[<<Legacy, i>>] \in {Absent, initial[<<Legacy, i>>]}
                      /\ \A s \in Schemas \cup {Legacy} : initial[<<s, i>>] \in {Absent, Original(s, i)}
                      /\ \A s \in Schemas :
                           table[<<s, i>>] \in {Absent, Fresh, Original(s, i), Original(Legacy, i)}
                      /\ \A s \in Schemas : initial[<<s, i>>] # Absent => table[<<s, i>>] = Original(s, i)
                      /\ initial[<<Legacy, i>>] # Absent => \E t \in Schemas \cup {Legacy} : HistoryAt(t, i)
  BY DEF KeptInv
<1>3. initial = table
  BY DEF Init
<1>4. \A s \in Schemas \cup {Legacy} : table[<<s, i>>] \in {Absent, Original(s, i)}
  <2>1. \A s \in Schemas \cup {Legacy} : <<s, i>> \in Names /\ <<s, i>>[1] = s /\ <<s, i>>[2] = i
    BY DEF Names
  <2> QED BY <1>1, <2>1
<1>5. \A s \in Schemas \cup {Legacy} : Original(s, i) # Absent /\ (Original(s, i) = Original(Legacy, i) => s = Legacy)
  BY DEF Original, Names
<1>6. initial[<<Legacy, i>>] # Absent => HistoryAt(Legacy, i)
  BY <1>3, <1>4, <1>5 DEF HistoryAt
<1> QED BY <1>3, <1>4, <1>6

(* What is in a name that a rename takes is never overwritten. *)
LEMMA KeptStep == ASSUME Inv, KeptInv, Next PROVE KeptInv'
<1> USE DataAssumption, ContentAssumption
<1>0. TypeOK /\ HeldInv /\ initial' = initial
  BY InitialStays DEF Inv
<1>1. PICK r \in Replicas : Boot(r) \/ Adopt(r) \/ QueryFails(r) \/ Migrate(r) \/ Stop(r)
  BY DEF Next
<1>2. SUFFICES ASSUME NEW i \in Pairs
               PROVE  /\ table'[<<Legacy, i>>] \in {Absent, initial[<<Legacy, i>>]}
                      /\ \A s \in Schemas :
                           table'[<<s, i>>] \in {Absent, Fresh, Original(s, i), Original(Legacy, i)}
                      /\ \A s \in Schemas : initial[<<s, i>>] # Absent => table'[<<s, i>>] = Original(s, i)
                      /\ initial[<<Legacy, i>>] # Absent => \E t \in Schemas \cup {Legacy} : HistoryAt(t, i)'
  BY <1>0 DEF KeptInv, Original
<1>3. /\ table[<<Legacy, i>>] \in {Absent, initial[<<Legacy, i>>]}
      /\ initial[<<Legacy, i>>] \in {Absent, Original(Legacy, i)}
      /\ \A s \in Schemas : table[<<s, i>>] \in {Absent, Fresh, Original(s, i), Original(Legacy, i)}
      /\ \A s \in Schemas : initial[<<s, i>>] # Absent => table[<<s, i>>] = Original(s, i)
      /\ initial[<<Legacy, i>>] # Absent => \E t \in Schemas \cup {Legacy} : HistoryAt(t, i)
      /\ SchemaOf[r] \in Schemas
  BY DEF KeptInv
<1>4. \A s \in Schemas \cup {Legacy} : Original(s, i) \notin {Absent, Fresh}
                                       /\ (Original(s, i) = Original(Legacy, i) => s = Legacy)
  BY DEF Original, Names
<1>5. CASE \A s \in Schemas \cup {Legacy} : table'[<<s, i>>] = table[<<s, i>>]
  BY <1>3, <1>5 DEF HistoryAt, Original
<1>6. CASE Commit(r) /\ i \in own[r]
  <2>1. table[<<Legacy, i>>] = Original(Legacy, i) /\ initial[<<Legacy, i>>] = Original(Legacy, i)
        /\ table[<<SchemaOf[r], i>>] = Absent
    BY <1>0, <1>3, <1>6 DEF HeldInv, Gone, There
  <2>2. /\ table'[<<Legacy, i>>] = Absent /\ table'[<<SchemaOf[r], i>>] = Original(Legacy, i)
        /\ \A s \in Schemas : s # SchemaOf[r] => table'[<<s, i>>] = table[<<s, i>>]
    BY <1>0, <1>6, <2>1, CommitTable
  <2>3. HistoryAt(Legacy, i)
    BY <1>3, <1>4, <2>1 DEF HistoryAt
  <2>4. HistoryAt(SchemaOf[r], i)'
    BY <1>3, <1>4, <2>2, <2>3 DEF HistoryAt, Original
  <2> QED
    BY <1>3, <1>4, <2>1, <2>2, <2>4
<1>7. CASE Commit(r) /\ i \notin own[r]
  <2>1. TypeOK /\ Commit(r) /\ i \notin own[r]
    BY <1>0, <1>7
  <2>2. /\ table'[<<Legacy, i>>] = table[<<Legacy, i>>]
        /\ \A s \in Schemas : table'[<<s, i>>] = table[<<s, i>>]
    BY ONLY CommitTable, <2>1, r \in Replicas, i \in Pairs
  <2> QED BY <1>5, <2>2
<1>8. CASE Migrate(r)
  <2>1. /\ table'[<<Legacy, i>>] = table[<<Legacy, i>>]
        /\ \A s \in Schemas : \/ table'[<<s, i>>] = table[<<s, i>>]
                              \/ table[<<s, i>>] = Absent /\ table'[<<s, i>>] = Fresh
    BY <1>0, <1>8, MigrateTable
  <2>2. \A t \in Schemas \cup {Legacy} : HistoryAt(t, i) => HistoryAt(t, i)'
    BY <1>4, <2>1 DEF HistoryAt, Original
  <2> QED
    BY <1>3, <1>4, <2>1, <2>2
<1>9. CASE table' = table
  BY <1>5, <1>9
<1> QED
  BY <1>1, <1>6, <1>7, <1>8, <1>9, TableStays

(* For any number of replicas, adapters and tables, and whatever fails: the
   history of every table is in one place, its own or, for a legacy table, the
   new name an adapter has given it. *)
THEOREM InOnePlace == Spec => []HistoryInOnePlace
<1>1. Init => KeptInv
  BY KeptInit
<1>2. Inv /\ KeptInv /\ [Next]_vars => KeptInv'
  <2>1. ASSUME KeptInv, UNCHANGED vars PROVE KeptInv'
    BY <2>1 DEF KeptInv, HistoryAt, Original, vars
  <2> QED
    BY <2>1, KeptStep
<1>3. KeptInv => HistoryInOnePlace
  <2> SUFFICES ASSUME KeptInv, NEW s \in Schemas \cup {Legacy}, NEW i \in Pairs, initial[<<s, i>>] # Absent
               PROVE  LET places == {n \in Names : table[n] = Original(s, i)} IN
                      \/ places = {<<s, i>>}
                      \/ s = Legacy /\ \E t \in Schemas : places = {<<t, i>>}
    BY DEF HistoryInOnePlace
  <2> DEFINE places == {n \in Names : table[n] = Original(s, i)}
  <2>0. /\ Absent \notin Names /\ Fresh \notin Names /\ Legacy \notin Schemas
        /\ \A t \in Schemas \cup {Legacy}, j \in Pairs : Original(t, j) \in Names
        /\ \A t, u \in Schemas \cup {Legacy}, j, k \in Pairs :
             Original(t, j) = Original(u, k) => t = u /\ j = k
    BY DataAssumption, ContentAssumption DEF Original, Names
  <2>1. /\ \A j \in Pairs : table[<<Legacy, j>>] \in {Absent, Original(Legacy, j)}
        /\ \A t \in Schemas, j \in Pairs :
             table[<<t, j>>] \in {Absent, Fresh, Original(t, j), Original(Legacy, j)}
    BY DEF KeptInv
  <2>2. \A t \in Schemas \cup {Legacy}, j \in Pairs : table[<<t, j>>] = Original(s, i) => j = i /\ (t = s \/ s = Legacy)
    BY <2>0, <2>1
  <2>3. \A t \in Schemas \cup {Legacy} :
          table[<<t, i>>] = Original(s, i) /\ (\A u \in Schemas \cup {Legacy} : table[<<u, i>>] = Original(s, i) => u = t)
            => places = {<<t, i>>}
    <3> SUFFICES ASSUME NEW t \in Schemas \cup {Legacy}, table[<<t, i>>] = Original(s, i),
                        \A u \in Schemas \cup {Legacy} : table[<<u, i>>] = Original(s, i) => u = t
                 PROVE  places = {<<t, i>>}
      OBVIOUS
    <3>1. \A n \in Names : \E u \in Schemas \cup {Legacy}, j \in Pairs : n = <<u, j>>
      BY DEF Names
    <3>2. \A n \in Names : table[n] = Original(s, i) => n = <<t, i>>
      BY <2>2, <3>1
    <3>3. <<t, i>> \in Names
      BY DEF Names
    <3> QED BY <3>2, <3>3
  <2>4. CASE s \in Schemas
    <3>1. table[<<s, i>>] = Original(s, i)
      BY <2>4 DEF KeptInv
    <3> QED BY <2>0, <2>2, <2>3, <2>4, <3>1
  <2>5. CASE s = Legacy
    <3>1. PICK t \in Schemas \cup {Legacy} : HistoryAt(t, i)
      BY <2>5 DEF KeptInv
    <3>2. places = {<<t, i>>}
      BY <2>3, <2>5, <3>1 DEF HistoryAt
    <3> QED BY <2>5, <3>2
  <2> QED BY <2>4, <2>5
<1> QED
  BY <1>1, <1>2, <1>3, Invariance, PTL DEF Spec

(* A table that an adapter took stays with it. *)
LEMMA TakenStays ==
  ASSUME Inv, Next, NEW i \in Pairs, NEW s \in Schemas, TakenFrom(s, i)
  PROVE  TakenFrom(s, i)'
<1>0. TypeOK /\ HeldInv
  BY DEF Inv
<1>1. PICK t \in Schemas \ {s} : table[<<t, i>>] = Original(Legacy, i)
  BY DEF TakenFrom
<1>2. Original(Legacy, i) \notin {Absent, Fresh}
  BY ContentAssumption DEF Original, Names
<1>3. table'[<<t, i>>] = table[<<t, i>>]
  <2>1. PICK r \in Replicas : Boot(r) \/ Adopt(r) \/ QueryFails(r) \/ Migrate(r) \/ Stop(r)
    BY DEF Next
  <2>2. CASE Commit(r)
    <3>1. i \notin own[r] \/ t # SchemaOf[r]
      BY <1>0, <1>1, <1>2 DEF HeldInv, There
    <3> QED BY <1>0, <2>2, <3>1, CommitTable
  <2>3. CASE Migrate(r)
    BY <1>0, <1>1, <1>2, <2>3, MigrateTable
  <2>4. CASE table' = table
    BY <2>4
  <2> QED BY <2>1, <2>2, <2>3, <2>4, TableStays
<1> QED
  BY <1>1, <1>3 DEF TakenFrom, Original

(* A legacy history that is not under the legacy name any more and not in s was
   taken by another adapter. *)
LEMMA GoneIsTaken ==
  ASSUME KeptInv, NEW i \in Pairs, NEW s \in Schemas, initial[<<Legacy, i>>] # Absent,
         Gone(i), table[<<s, i>>] = Absent
  PROVE  TakenFrom(s, i)
<1>1. PICK t \in Schemas \cup {Legacy} : HistoryAt(t, i)
  BY DEF KeptInv
<1>2. Original(Legacy, i) # Absent
  BY ContentAssumption DEF Original, Names
<1>3. table[<<t, i>>] = Original(Legacy, i) /\ t # s /\ t # Legacy
  BY <1>1, <1>2 DEF HistoryAt, Gone
<1> QED
  BY <1>3 DEF TakenFrom

LEMMA FreshStep == ASSUME Inv, KeptInv, InitialNotRerun, Next PROVE InitialNotRerun'
<1> USE DataAssumption, ContentAssumption
<1>0. TypeOK /\ HeldInv /\ initial' = initial
  BY InitialStays DEF Inv
<1>1. SUFFICES ASSUME NEW s \in Schemas, NEW i \in Pairs, table'[<<s, i>>] = Fresh,
                      initial[<<Legacy, i>>] # Absent
               PROVE  TakenFrom(s, i)'
  BY <1>0 DEF InitialNotRerun
<1>2. CASE table[<<s, i>>] = Fresh
  BY <1>1, <1>2, TakenStays DEF InitialNotRerun
<1>3. CASE table[<<s, i>>] # Fresh
  <2>1. PICK r \in Replicas : Boot(r) \/ Adopt(r) \/ QueryFails(r) \/ Migrate(r) \/ Stop(r)
    BY DEF Next
  <2>2. CASE Commit(r)
    <3>1. table[<<Legacy, i>>] # Fresh
      BY DEF KeptInv, Original, Names
    <3> QED BY <1>0, <1>1, <1>3, <2>2, <3>1, CommitTable
  <2>3. CASE Migrate(r)
    <3>1. s = SchemaOf[r] /\ i = pair[r] /\ table[<<s, i>>] = Absent /\ pc[r] = "returned"
      BY <1>0, <1>1, <1>3, <2>3, MigrateTable DEF Migrate
    <3>2. Gone(i)
      BY <3>1 DEF Inv, ReturnedIsAdopted, Gone
    <3>3. TakenFrom(s, i)
      BY <1>1, <3>1, <3>2, GoneIsTaken
    <3> QED BY <3>3, TakenStays
  <2>4. CASE table' = table
    BY <1>1, <1>3, <2>4
  <2> QED BY <2>1, <2>2, <2>3, <2>4, TableStays
<1> QED BY <1>2, <1>3

(* For any number of replicas, adapters and tables, and whatever fails: goose
   starts a history that existed from scratch only for an adapter that lost the
   legacy table to another one. *)
THEOREM NotRerun == Spec => []InitialNotRerun
<1>1. Init => KeptInv /\ InitialNotRerun
  <2> SUFFICES ASSUME Init PROVE InitialNotRerun
    BY KeptInit
  <2>1. KeptInv /\ initial = table
    BY KeptInit DEF Init
  <2> QED
    BY <2>1, ContentAssumption DEF KeptInv, InitialNotRerun, Original, Names
<1>2. Inv /\ KeptInv /\ InitialNotRerun /\ [Next]_vars => KeptInv' /\ InitialNotRerun'
  <2>1. ASSUME KeptInv, UNCHANGED vars PROVE KeptInv'
    BY <2>1 DEF KeptInv, HistoryAt, Original, vars
  <2>2. ASSUME InitialNotRerun, UNCHANGED vars PROVE InitialNotRerun'
    BY <2>2 DEF InitialNotRerun, TakenFrom, Original, vars
  <2> QED
    BY <2>1, <2>2, KeptStep, FreshStep
<1> QED
  BY <1>1, <1>2, Invariance, PTL DEF Spec

(* For any number of replicas, adapters and tables, and whatever fails: no history
   is lost, and none is run again. *)
THEOREM Kept == Spec => []HistoryKept
BY InOnePlace, NotRerun, PTL DEF HistoryKept

(* Where a replica that is past its reading of the source came from. *)
LEMMA ThrowOwn ==
  ASSUME Inv, KeptInv, ThrowInv, NEW r \in Replicas,
         Boot(r) \/ Adopt(r) \/ QueryFails(r) \/ Migrate(r) \/ Stop(r)
  PROVE  /\ (pc'[r] = "dest" /\ sourceExists'[r]) \/ pc'[r] \in {"alter", "resource", "redest"}
              => initial[<<Legacy, pair'[r]>>] # Absent
         /\ pc'[r] = "alter" => ~ There(r, pair'[r])
         /\ pc'[r] = "resource" /\ faults' = 0 => Gone(pair'[r])
         /\ pc'[r] \in {"rollback", "thrown"} => faults' > 0 \/ \E i \in Pairs : TakenFrom(SchemaOf[r], i)
<1>0. /\ pc \in [Replicas -> States] /\ pair \in [Replicas -> Pairs] /\ own \in [Replicas -> SUBSET Pairs]
      /\ sourceExists \in [Replicas -> BOOLEAN] /\ faults \in Nat
      /\ pair[r] \in Pairs /\ SchemaOf[r] \in Schemas /\ HeldInv
  BY DataAssumption DEF Inv, TypeOK
<1>1. pc[r] \in {"source", "alter", "resource", "redest"} => pair[r] \notin own[r]
  BY <1>0 DEF HeldInv, Passed, Pairs
<1>2. ASSUME NextRename(r) PROVE pc'[r] \in {"source", "commit"}
  BY <1>0, <1>2 DEF NextRename
<1>3. CASE ReadSource(r)
  <2>1. pc'[r] = "dest" /\ pair'[r] = pair[r] /\ pc[r] = "source" /\ sourceExists'[r] = SourceExists(r)
    BY <1>0, <1>3 DEF ReadSource
  <2>2. SourceExists(r) => initial[<<Legacy, pair[r]>>] # Absent
    BY <1>0 DEF SourceExists, KeptInv
  <2> QED BY <2>1, <2>2
<1>4. CASE ReadDest(r)
  <2>1. CASE NextRename(r)
    BY <1>2, <2>1
  <2>2. CASE ~ NextRename(r)
    <3>1. /\ sourceExists[r] /\ ~ DestExists(r) /\ pc[r] = "dest"
          /\ pc'[r] = "alter" /\ pair'[r] = pair[r]
      BY <1>0, <1>4, <2>2 DEF ReadDest
    <3> QED BY <3>1 DEF ThrowInv, DestExists, There
  <2> QED BY <2>1, <2>2
<1>5. CASE Alter(r)
  <2>1. CASE NextRename(r)
    BY <1>2, <2>1
  <2>2. CASE ~ NextRename(r)
    <3>1. /\ ~ (SourceExists(r) /\ ~ DestExists(r)) /\ pc[r] = "alter"
          /\ pc'[r] = "resource" /\ pair'[r] = pair[r]
      BY <1>0, <1>5, <2>2 DEF Alter
    <3>2. Gone(pair[r])
      BY <1>1, <3>1 DEF ThrowInv, SourceExists, DestExists, Gone, There
    <3> QED BY <3>1, <3>2 DEF ThrowInv
  <2> QED BY <2>1, <2>2
<1>6. CASE RereadSource(r)
  <2>1. /\ pc[r] = "resource" /\ pair'[r] = pair[r] /\ faults' = faults
        /\ pc'[r] = IF SourceExists(r) THEN "rollback" ELSE "redest"
    BY <1>0, <1>6 DEF RereadSource
  <2>2. initial[<<Legacy, pair[r]>>] # Absent /\ (faults = 0 => Gone(pair[r]))
    BY <2>1 DEF ThrowInv
  <2>3. SourceExists(r) => faults > 0
    BY <1>0, <2>2 DEF SourceExists, Gone
  <2> QED BY <2>1, <2>2, <2>3
<1>7. CASE RereadDest(r)
  <2>1. CASE NextRename(r)
    BY <1>2, <2>1
  <2>2. CASE ~ NextRename(r)
    <3>1. pc[r] = "redest" /\ pc'[r] = "rollback" /\ ~ DestExists(r)
      BY <1>0, <1>7, <2>2 DEF RereadDest
    <3>2. initial[<<Legacy, pair[r]>>] # Absent /\ Gone(pair[r])
      BY <3>1 DEF ThrowInv, Inv, ReadInv
    <3>3. TakenFrom(SchemaOf[r], pair[r])
      BY <1>0, <3>1, <3>2, GoneIsTaken DEF DestExists
    <3> QED BY <1>0, <3>1, <3>3
  <2> QED BY <2>1, <2>2
<1>8. CASE Commit(r)
  <2>1. pc'[r] = "returned" \/ (pc'[r] = "thrown" /\ faults' = faults + 1)
    BY <1>0, <1>8 DEF Commit
  <2> QED BY <1>0, <2>1
<1>9. CASE Rollback(r)
  <2>1. pc[r] = "rollback" /\ pc'[r] = "thrown" /\ faults' = faults
    BY <1>0, <1>9 DEF Rollback
  <2> QED BY <2>1 DEF ThrowInv
<1>10. CASE QueryFails(r)
  <2>1. /\ faults' > 0 /\ pair'[r] = pair[r]
        /\ pc'[r] = "rollback" \/ (pc'[r] = "resource" /\ pc[r] = "alter")
    BY <1>0, <1>10 DEF QueryFails
  <2> QED BY <2>1 DEF ThrowInv
<1>11. CASE Boot(r) \/ Stop(r)
  <2>1. pc'[r] \in {"source", "down"}
    BY <1>0, <1>11 DEF Boot, Stop
  <2> QED BY <2>1
<1>12. CASE Migrate(r)
  <2>1. pc'[r] \in {"running", "returned"}
    BY <1>0, <1>12 DEF Migrate
  <2> QED BY <2>1
<1> QED
  BY <1>3, <1>4, <1>5, <1>6, <1>7, <1>8, <1>9, <1>10, <1>11, <1>12 DEF Adopt

(* A new name that is free is taken only by a step that leaves the source gone. *)
LEMMA TakenWhenGone ==
  ASSUME Inv, Next, NEW q \in Replicas, NEW i \in Pairs, ~ There(q, i), ~ Gone(i)'
  PROVE  ~ There(q, i)'
<1>0. TypeOK /\ HeldInv /\ SchemaOf[q] \in Schemas
  BY DataAssumption DEF Inv
<1>1. PICK r \in Replicas : Boot(r) \/ Adopt(r) \/ QueryFails(r) \/ Migrate(r) \/ Stop(r)
  BY DEF Next
<1>2. CASE Commit(r)
  BY <1>0, <1>2, CommitTable DEF Gone, There
<1>3. CASE Migrate(r)
  <2>1. Gone(i) \/ There(r, i) \/ i # pair[r]
    BY <1>3 DEF Migrate, Inv, ReturnedIsAdopted, Gone, There
  <2> QED BY <1>0, <1>3, <2>1, MigrateTable DEF Gone, There
<1>4. CASE table' = table
  BY <1>4 DEF There
<1> QED BY <1>1, <1>2, <1>3, <1>4, TableStays

LEMMA ThrowStep == ASSUME Inv, KeptInv, ThrowInv, Next PROVE ThrowInv'
<1>1. PICK r \in Replicas : Boot(r) \/ Adopt(r) \/ QueryFails(r) \/ Migrate(r) \/ Stop(r)
  BY DEF Next
<1>0. /\ TypeOK /\ TypeOK' /\ HeldInv /\ initial' = initial
      /\ faults \in Nat /\ faults' \in Nat /\ faults' >= faults
  <2>1. TypeOK /\ HeldInv /\ TypeOK' /\ initial' = initial
    BY TypeStep, InitialStays DEF Inv
  <2>2. faults' = faults \/ faults' = faults + 1
    BY <1>1 DEF Boot, Adopt, ReadSource, ReadDest, Alter, RereadSource, RereadDest, Commit, Rollback,
                QueryFails, Migrate, Stop
  <2> QED BY <2>1, <2>2 DEF TypeOK
<1>2. SUFFICES ASSUME NEW q \in Replicas
               PROVE  /\ (pc'[q] = "dest" /\ sourceExists'[q]) \/ pc'[q] \in {"alter", "resource", "redest"}
                           => initial[<<Legacy, pair'[q]>>] # Absent
                      /\ pc'[q] = "alter" =>
                           table'[<<Legacy, pair'[q]>>] = Absent \/ ~ (table'[<<SchemaOf[q], pair'[q]>>] # Absent)
                      /\ pc'[q] = "resource" /\ faults' = 0 => table'[<<Legacy, pair'[q]>>] = Absent
                      /\ pc'[q] \in {"rollback", "thrown"}
                           => faults' > 0 \/ \E i \in Pairs : TakenFrom(SchemaOf[q], i)'
  BY <1>0 DEF ThrowInv, Gone, There
<1>3. /\ (pc'[q] = "dest" /\ sourceExists'[q]) \/ pc'[q] \in {"alter", "resource", "redest"}
           => initial[<<Legacy, pair'[q]>>] # Absent
      /\ pc'[q] = "alter" => Gone(pair'[q]) \/ ~ There(q, pair'[q])
      /\ pc'[q] = "resource" /\ faults' = 0 => Gone(pair'[q])
      /\ pc'[q] \in {"rollback", "thrown"} => faults' > 0 \/ \E i \in Pairs : TakenFrom(SchemaOf[q], i)
  <2>1. CASE q = r
    BY <1>1, <2>1, ThrowOwn
  <2>2. CASE q # r
    <3>1. Still(q)
      BY <1>0, <1>1, <2>2, OneMoves
    <3> QED BY <1>0, <3>1 DEF Still, ThrowInv
  <2> QED BY <2>1, <2>2
<1>4. PICK i \in Pairs : i = pair'[q]
  BY <1>0 DEF TypeOK
<1>5. Gone(i) => Gone(i)'
  BY <1>0, Monotone
<1>6. Gone(i) \/ ~ There(q, i) => Gone(i)' \/ ~ There(q, i)'
  BY <1>5, TakenWhenGone
<1>7. \A j \in Pairs : TakenFrom(SchemaOf[q], j) => TakenFrom(SchemaOf[q], j)'
  BY TakenStays, DataAssumption
<1> QED
  BY <1>3, <1>4, <1>5, <1>6, <1>7 DEF Gone, There

(* For any number of replicas, adapters and tables: a boot throws only when a
   query fails or another adapter has taken a legacy table; the races of
   replicas of one adapter never make it throw. *)
THEOREM RaceSafe == Spec => []OnlyFaultsThrow
<1>1. Init => KeptInv /\ ThrowInv
  BY KeptInit DEF Init, ThrowInv
<1>2. Inv /\ KeptInv /\ ThrowInv /\ [Next]_vars => KeptInv' /\ ThrowInv'
  <2>1. ASSUME KeptInv, UNCHANGED vars PROVE KeptInv'
    BY <2>1 DEF KeptInv, HistoryAt, Original, vars
  <2>2. ASSUME ThrowInv, UNCHANGED vars PROVE ThrowInv'
    BY <2>2 DEF ThrowInv, TakenFrom, Original, Gone, There, vars
  <2> QED
    BY <2>1, <2>2, KeptStep, ThrowStep
<1>3. ThrowInv => OnlyFaultsThrow
  BY DEF ThrowInv, OnlyFaultsThrow
<1> QED
  BY <1>1, <1>2, <1>3, Invariance, PTL DEF Spec

(***************************************************************************)
(* Assembly (AdapterBoot).                                                 *)
(***************************************************************************)
(* The steps from the integrations on, and from each of the earlier ones on. *)
Integrating == {"wallet", "pull", "ota", "dtcc", "collateral", "services", "serving"}
PastOmnibus == {"standards"} \cup Integrating
PastProbe == {"omnibus"} \cup PastOmnibus
PastWallets == {"probe"} \cup PastProbe

(* What the steps before the integrations leave behind. *)
RolesInv ==
  /\ chain \in Chains /\ hook \in BOOLEAN
  /\ custody => env.type \in {"fireblocks", "dfns"} /\ IssuerMoved
  /\ custody /\ step \in PastWallets =>
       /\ wallets = [escrow |-> EscrowAccount, gas |-> GasAccount, omnibus |-> OmnibusAccount]
       /\ read = ReadFrom
       /\ activates = (ReadFrom # None /\ chain.hedera /\ GasAccount # None)
  /\ Contract /\ step \in PastProbe => mode # None
  /\ step \in PastOmnibus => OmnibusFunded /\ hook = (Omnibus /\ custody)

Deposits == {"wallet", "pull", "ota"}
After(p) ==
  CASE p = "wallet" -> {"pull", "ota", "dtcc", "collateral", "services", "serving"}
    [] p = "pull" -> {"ota", "dtcc", "collateral", "services", "serving"}
    [] p = "ota" -> {"dtcc", "collateral", "services", "serving"}
    [] p = "dtcc" -> {"collateral", "services", "serving"}
    [] OTHER -> {"services", "serving"}
Owns(p) == IF p \in Deposits THEN Offers(p) ELSE IF p = "dtcc" THEN Dtcc ELSE Collateral

(* The slot is the plugin's whose registrar the start has passed and which had
   a right to it; there is one if some registrar passed had. *)
SlotInv ==
  /\ slot = <<>> \/ \E p \in Deposits \cup {"dtcc", "collateral"} :
       /\ slot = <<[plugin |-> p, hook |-> hook /\ p \in {"pull", "ota"}]>>
       /\ step = "exited" \/ step \in After(p)
       /\ Owns(p)
  /\ \A p \in Deposits \cup {"dtcc", "collateral"} : step \in After(p) /\ Owns(p) => slot # <<>>

ServicesInv ==
  step = "serving" =>
    \/ /\ custody /\ read # None /\ wallets.escrow # None
       /\ \/ Omnibus /\ hook /\ services = [model |-> "omnibus", payments |-> IF slot = <<>> THEN "delegate" ELSE "plugin"]
          \/ ~Omnibus /\ services = [model |-> "segregated", payments |-> "plugin"]
    \/ ~custody /\ Contract /\ ~Omnibus /\ services = [model |-> "contract", payments |-> "plugin"]

(* Outside contract mode every nonce manager is the pool's, kept under its
   account. *)
ManagersInv ==
  ~Contract => \A a \in managers : a = [account |-> a.account, entry |-> [account |-> a.account, form |-> "bare"]]

BootInv == RolesInv /\ SlotInv /\ ServicesInv /\ ManagersInv

(* The invariant holds when the process starts. *)
LEMMA BootBegins == ASSUME BootInit PROVE BootInv
BY DEF BootInit, BootInv, RolesInv, SlotInv, ServicesInv, ManagersInv, PastWallets, PastProbe, PastOmnibus, Integrating, After

(* The pool keeps every manager under its account, however its key is spelt. *)
LEMMA PooledShape ==
  ASSUME NEW vs
  PROVE  \A a \in Pooled(vs) : a = [account |-> a.account, entry |-> [account |-> a.account, form |-> "bare"]]
BY DEF Pooled, PoolKey

(* What a step before the integrations has settled stays settled. *)
LEMMA RolesStep == ASSUME BootInv, [BootNext]_bootVars PROVE RolesInv'
<1> USE DEF BootInv, RolesInv, settings, roles, plugins, PastWallets, PastProbe, PastOmnibus, Integrating
<1>e. ASSUME UNCHANGED env
      PROVE  /\ Contract' = Contract /\ IssuerMoved' = IssuerMoved /\ EscrowAccount' = EscrowAccount
             /\ GasAccount' = GasAccount /\ OmnibusAccount' = OmnibusAccount /\ ReadFrom' = ReadFrom
             /\ Omnibus' = Omnibus
  BY <1>e DEF Contract, IssuerMoved, EscrowAccount, GasAccount, OmnibusAccount, ReadFrom, Omnibus, Given
<1>1. CASE Start \/ AdoptTables \/ ReadConfig \/ RunMigrations
  BY <1>1, <1>e DEF Start, AdoptTables, ReadConfig, RunMigrations
<1>2. CASE ActivateCustody
  BY <1>2, <1>e DEF ActivateCustody, Contract
<1>3. CASE FabricateWallets \/ SkipWallets
  BY <1>3, <1>e DEF FabricateWallets, SkipWallets
<1>4. CASE Probe
  BY <1>4, <1>e, ChainsAssumption DEF Probe, None
<1>5. CASE BuildOmnibus
  BY <1>5, <1>e DEF BuildOmnibus, OmnibusFunded
<1>6. CASE \/ RegisterStandards \/ (\E m \in {"wallet", "pull", "ota"} : RegisterDeposit(m))
           \/ RegisterDtcc \/ RegisterCollateral \/ RegisterCustodyServices \/ RegisterContractServices
  BY <1>6, <1>e DEF RegisterStandards, RegisterDeposit, NextRegistrar, RegisterDtcc, RegisterCollateral,
     RegisterCustodyServices, RegisterContractServices, OmnibusFunded
<1>7. CASE Exit
  BY <1>7, <1>e DEF Exit
<1>8. CASE UNCHANGED bootVars
  BY <1>8, <1>e DEF bootVars, OmnibusFunded
<1> QED BY <1>1, <1>2, <1>3, <1>4, <1>5, <1>6, <1>7, <1>8 DEF BootNext

(* Who has a right to the slot is settled when the registrars begin. *)
LEMMA OwnsStays ==
  ASSUME UNCHANGED <<env, custody, read, wallets>>, NEW p
  PROVE  Owns(p)' = Owns(p)
BY DEF Owns, Offers, ClaimedExternally, Dtcc, Collateral, DepositMethod, Omnibus, Given

(* No two of them have. *)
LEMMA OneOwner ==
  ASSUME NEW p \in Deposits \cup {"dtcc", "collateral"}, NEW q \in Deposits \cup {"dtcc", "collateral"},
         Owns(p), Owns(q), p # q
  PROVE  {p, q} = {"dtcc", "collateral"} /\ Dtcc /\ Collateral
BY DEF Owns, Offers, ClaimedExternally, Deposits

(* A registrar that has a right to the slot finds it empty: nobody whose turn
   has passed had one. *)
LEMMA SlotStep == ASSUME BootInv, [BootNext]_bootVars PROVE SlotInv'
<1> USE DEF BootInv, settings, roles, plugins
<1>1. CASE step \notin Integrating \cup {"exited"}
  <2>1. slot = <<>>
    BY <1>1 DEF SlotInv, After, Integrating
  <2>2. slot' = <<>> /\ step' \notin {"pull", "ota", "dtcc", "collateral", "services", "serving"}
    BY <1>1, <2>1 DEF BootNext, bootVars, Integrating, Start, AdoptTables, ReadConfig, RunMigrations, ActivateCustody,
       FabricateWallets, SkipWallets, Probe, BuildOmnibus, RegisterStandards, RegisterDeposit, RegisterDtcc,
       RegisterCollateral, RegisterCustodyServices, RegisterContractServices, Exit
  <2> QED BY <2>2 DEF SlotInv, After
<1>2. ASSUME UNCHANGED <<env, custody, read, wallets, hook, slot>>, step' = step \/ step' = "exited" PROVE SlotInv'
  <2>1. \A p : Owns(p)' = Owns(p)
    BY <1>2, OwnsStays
  <2> QED BY <1>2, <2>1 DEF SlotInv, After
<1>3. ASSUME NEW p \in Deposits \cup {"dtcc", "collateral"}, step = p, step' \in After(p),
             \A q \in Deposits \cup {"dtcc", "collateral"} : step' \in After(q) <=> step \in After(q) \/ q = p,
             Owns(p) => \A q \in Deposits \cup {"dtcc", "collateral"} : step \in After(q) => ~Owns(q),
             UNCHANGED <<env, custody, read, wallets, hook>>,
             slot' = IF Owns(p) THEN Append(slot, [plugin |-> p, hook |-> hook /\ p \in {"pull", "ota"}]) ELSE slot
      PROVE  SlotInv'
  <2>1. \A q : Owns(q)' = Owns(q)
    BY <1>3, OwnsStays
  <2>0. step # "exited"
    BY <1>3 DEF Deposits
  <2>2. CASE ~Owns(p)
    <3>1. slot' = slot
      BY <1>3, <2>2
    <3>2. CASE slot = <<>>
      <4>1. ASSUME NEW q \in Deposits \cup {"dtcc", "collateral"}, step' \in After(q), Owns(q) PROVE FALSE
        BY <1>3, <2>2, <3>2, <4>1 DEF SlotInv
      <4> QED BY <3>1, <3>2, <2>1, <4>1 DEF SlotInv
    <3>3. CASE slot # <<>>
      <4>1. PICK q \in Deposits \cup {"dtcc", "collateral"} :
              /\ slot = <<[plugin |-> q, hook |-> hook /\ q \in {"pull", "ota"}]>>
              /\ step \in After(q) /\ Owns(q)
        BY <2>0, <3>3 DEF SlotInv
      <4>2. step' \in After(q) /\ hook' = hook
        BY <1>3, <4>1
      <4>3. slot' # <<>>
        BY <3>1, <3>3
      <4> QED BY <2>1, <3>1, <4>1, <4>2, <4>3 DEF SlotInv
    <3> QED BY <3>2, <3>3
  <2>3. CASE Owns(p)
    <3>1. slot = <<>> /\ p # "exited"
      BY <1>3, <2>3 DEF SlotInv, Deposits
    <3>2. slot' = <<[plugin |-> p, hook |-> hook /\ p \in {"pull", "ota"}]>>
      BY <1>3, <2>3, <3>1
    <3>3. hook' = hook /\ step' \in After(p)
      BY <1>3
    <3>4. slot' # <<>>
      BY <3>2
    <3>5. slot' = <<[plugin |-> p, hook |-> hook' /\ p \in {"pull", "ota"}]>> /\ Owns(p)'
      BY <2>1, <2>3, <3>2, <3>3
    <3> QED BY <3>3, <3>4, <3>5 DEF SlotInv
  <2> QED BY <2>2, <2>3
<1>4. ASSUME NEW m \in {"wallet", "pull", "ota"}, RegisterDeposit(m) PROVE SlotInv'
  <2>1. /\ step = m /\ step' = NextRegistrar[m] /\ UNCHANGED <<env, custody, read, wallets, hook>>
        /\ slot' = IF Owns(m) THEN Append(slot, [plugin |-> m, hook |-> hook /\ m \in {"pull", "ota"}]) ELSE slot
    BY <1>4 DEF RegisterDeposit, Owns, Deposits
  <2>2. \A q \in Deposits \cup {"dtcc", "collateral"} : step' \in After(q) <=> step \in After(q) \/ q = m
    BY <2>1 DEF After, NextRegistrar, Deposits
  <2>3. Owns(m) => \A q \in Deposits \cup {"dtcc", "collateral"} : step \in After(q) => ~Owns(q)
    BY <2>1, OneOwner DEF After, Deposits
  <2> QED BY <1>3, <2>1, <2>2, <2>3 DEF Deposits, After
<1>5. CASE RegisterDtcc
  <2>1. /\ step = "dtcc" /\ step' = "collateral" /\ UNCHANGED <<env, custody, read, wallets, hook>>
        /\ slot' = IF Owns("dtcc") THEN Append(slot, [plugin |-> "dtcc", hook |-> hook /\ "dtcc" \in {"pull", "ota"}]) ELSE slot
    BY <1>5 DEF RegisterDtcc, Owns, Deposits
  <2>2. \A q \in Deposits \cup {"dtcc", "collateral"} : step' \in After(q) <=> step \in After(q) \/ q = "dtcc"
    BY <2>1 DEF After, Deposits
  <2>3. Owns("dtcc") => \A q \in Deposits \cup {"dtcc", "collateral"} : step \in After(q) => ~Owns(q)
    BY <2>1, OneOwner DEF After, Deposits
  <2> QED BY <1>3, <2>1, <2>2, <2>3 DEF After
<1>6. CASE RegisterCollateral
  <2>1. /\ step = "collateral" /\ step' = "services" /\ UNCHANGED <<env, custody, read, wallets, hook>>
        /\ Collateral => ~Dtcc
        /\ slot' = IF Owns("collateral") THEN Append(slot, [plugin |-> "collateral", hook |-> hook /\ "collateral" \in {"pull", "ota"}]) ELSE slot
    BY <1>6 DEF RegisterCollateral, CollateralUsable, Owns, Deposits
  <2>2. \A q \in Deposits \cup {"dtcc", "collateral"} : step' \in After(q) <=> step \in After(q) \/ q = "collateral"
    BY <2>1 DEF After, Deposits
  <2>3. Owns("collateral") => \A q \in Deposits \cup {"dtcc", "collateral"} : step \in After(q) => ~Owns(q)
    BY <2>1, OneOwner DEF After, Deposits, Owns
  <2> QED BY <1>3, <2>1, <2>2, <2>3 DEF After
<1>7. CASE RegisterCustodyServices \/ RegisterContractServices
  <2>1. /\ step = "services" /\ step' = "serving" /\ UNCHANGED <<env, custody, read, wallets, hook, slot>>
    BY <1>7 DEF RegisterCustodyServices, RegisterContractServices
  <2>2. \A p : Owns(p)' = Owns(p)
    BY <2>1, OwnsStays
  <2>3. \A p \in Deposits \cup {"dtcc", "collateral"} : step \in After(p) /\ step' \in After(p)
    BY <2>1 DEF After
  <2> QED BY <2>1, <2>2, <2>3 DEF SlotInv
<1>8. CASE Exit \/ UNCHANGED bootVars
  BY <1>2, <1>8 DEF Exit, bootVars
<1>9. CASE step \in Integrating \cup {"exited"}
  <2>1. ~(Start \/ AdoptTables \/ ReadConfig \/ RunMigrations \/ ActivateCustody \/ FabricateWallets \/ SkipWallets
          \/ Probe \/ BuildOmnibus \/ RegisterStandards)
    BY <1>9 DEF Integrating, Start, AdoptTables, ReadConfig, RunMigrations, ActivateCustody,
       FabricateWallets, SkipWallets, Probe, BuildOmnibus, RegisterStandards
  <2> QED BY <2>1, <1>4, <1>5, <1>6, <1>7, <1>8 DEF BootNext
<1> QED BY <1>1, <1>9

(* The services are registered under their guards, as the last step. *)
LEMMA ServicesStep == ASSUME BootInv, [BootNext]_bootVars PROVE ServicesInv'
<1> USE DEF BootInv, ServicesInv, settings, roles, plugins
<1>1. CASE RegisterCustodyServices
  <2>1. UNCHANGED <<env, custody, read, wallets, hook, slot>> /\ custody /\ CustodyServable /\ Omnibus' = Omnibus
    BY <1>1 DEF RegisterCustodyServices, Omnibus
  <2> QED BY <1>1, <2>1 DEF RegisterCustodyServices, CustodyServable
<1>2. CASE RegisterContractServices
  BY <1>2 DEF RegisterContractServices, ContractServable, Omnibus, Contract
<1>3. CASE \/ Start \/ AdoptTables \/ ReadConfig \/ RunMigrations \/ ActivateCustody \/ FabricateWallets \/ SkipWallets
           \/ Probe \/ BuildOmnibus \/ RegisterStandards \/ (\E m \in {"wallet", "pull", "ota"} : RegisterDeposit(m))
           \/ RegisterDtcc \/ RegisterCollateral \/ Exit
  <2>1. step' # "serving"
    BY <1>3 DEF Start, AdoptTables, ReadConfig, RunMigrations, ActivateCustody, FabricateWallets, SkipWallets,
       Probe, BuildOmnibus, RegisterStandards, RegisterDeposit, NextRegistrar, RegisterDtcc, RegisterCollateral, Exit
  <2> QED BY <2>1
<1>4. CASE UNCHANGED bootVars
  BY <1>4 DEF bootVars, Omnibus, Contract
<1> QED BY <1>1, <1>2, <1>3, <1>4 DEF BootNext

(* Outside contract mode managers come from the pool only. *)
LEMMA ManagersStep == ASSUME BootInv, [BootNext]_bootVars PROVE ManagersInv'
<1> USE DEF BootInv, ManagersInv, settings, roles, plugins
<1>1. SUFFICES ASSUME ~Contract' PROVE \A a \in managers' : a \in managers \/ \E vs : a \in Pooled(vs)
  <2>1. env' = env
    BY DEF BootNext, bootVars, Start, AdoptTables, ReadConfig, RunMigrations, ActivateCustody,
       FabricateWallets, SkipWallets, Probe, BuildOmnibus, RegisterStandards, RegisterDeposit, RegisterDtcc,
       RegisterCollateral, RegisterCustodyServices, RegisterContractServices, Exit
  <2> QED BY <2>1, PooledShape DEF Contract
<1>2. CASE ReadConfig
  BY <1>1, <1>2 DEF ReadConfig, Contract
<1>3. CASE RegisterStandards
  BY <1>3 DEF RegisterStandards
<1>4. CASE RegisterDtcc
  BY <1>4 DEF RegisterDtcc
<1>5. CASE RegisterCollateral
  BY <1>5 DEF RegisterCollateral
<1>6. CASE RegisterCustodyServices
  BY <1>6 DEF RegisterCustodyServices
<1>7. CASE managers' = managers
  BY <1>7
<1>8. CASE \/ Start \/ AdoptTables \/ RunMigrations \/ ActivateCustody \/ FabricateWallets \/ SkipWallets
           \/ Probe \/ BuildOmnibus \/ (\E m \in {"wallet", "pull", "ota"} : RegisterDeposit(m))
           \/ RegisterContractServices \/ Exit \/ UNCHANGED bootVars
  BY <1>7, <1>8 DEF bootVars, Start, AdoptTables, RunMigrations, ActivateCustody,
       FabricateWallets, SkipWallets, Probe, BuildOmnibus, RegisterDeposit, RegisterContractServices, Exit
<1> QED BY <1>2, <1>3, <1>4, <1>5, <1>6, <1>8 DEF BootNext

(* The invariant of the assembly. *)
LEMMA BootInvariance == BootSpec => []BootInv
<1>1. BootInit => BootInv
  BY BootBegins
<1>2. BootInv /\ [BootNext]_bootVars => BootInv'
  BY RolesStep, SlotStep, ServicesStep, ManagersStep DEF BootInv
<1> QED BY <1>1, <1>2, PTL DEF BootSpec

(* For every environment and network, the start keeps to its shape. *)
THEOREM BootTypeCorrect == BootSpec => []BootTypeOK
<1>1. BootInit => BootTypeOK
  <2> SUFFICES ASSUME BootInit PROVE BootTypeOK
    OBVIOUS
  <2>1. wallets \in [{"escrow", "gas", "omnibus"} -> Accounts]
    BY DEF BootInit, Accounts
  <2>2. services \in [model : {None, "omnibus", "segregated", "contract"}, payments : {None, "delegate", "plugin"}]
    BY DEF BootInit
  <2> QED BY <2>1, <2>2 DEF BootInit, BootTypeOK
<1>2. BootTypeOK /\ [BootNext]_bootVars => BootTypeOK'
  <2> SUFFICES ASSUME BootTypeOK, [BootNext]_bootVars PROVE BootTypeOK'
    OBVIOUS
  <2> USE DEF BootTypeOK, Accounts, settings, roles, plugins
  <2>0. CASE ActivateCustody
    <3>1. custody' \in BOOLEAN
      BY <2>0 DEF ActivateCustody
    <3> QED BY <2>0, <3>1 DEF ActivateCustody
  <2>1. CASE Start \/ AdoptTables \/ ReadConfig \/ RunMigrations \/ SkipWallets
    BY <2>1 DEF Start, AdoptTables, ReadConfig, RunMigrations, SkipWallets
  <2>2. CASE FabricateWallets
    <3>1. /\ EscrowAccount \in Accounts /\ GasAccount \in Accounts /\ OmnibusAccount \in Accounts
          /\ ReadFrom \in {None, "host", "transport"}
      BY DEF EscrowAccount, GasAccount, OmnibusAccount, ReadFrom
    <3>2. wallets' \in [{"escrow", "gas", "omnibus"} -> Accounts]
      BY <2>2, <3>1 DEF FabricateWallets
    <3>3. activates' \in BOOLEAN
      BY <2>2 DEF FabricateWallets
    <3> QED BY <2>2, <3>1, <3>2, <3>3 DEF FabricateWallets
  <2>3. CASE Probe
    <3>1. mode' \in {None, "mapping", "derivation"}
      BY <2>3, ChainsAssumption DEF Probe
    <3> QED BY <2>3, <3>1 DEF Probe
  <2>4. CASE BuildOmnibus
    <3>1. hook' \in BOOLEAN
      BY <2>4 DEF BuildOmnibus
    <3> QED BY <2>4, <3>1 DEF BuildOmnibus
  <2>5. CASE RegisterStandards \/ (\E m \in {"wallet", "pull", "ota"} : RegisterDeposit(m))
             \/ RegisterDtcc \/ RegisterCollateral
    BY <2>5 DEF RegisterStandards, RegisterDeposit, NextRegistrar, RegisterDtcc, RegisterCollateral
  <2>6. CASE RegisterCustodyServices
    <3>1. services' \in [model : {None, "omnibus", "segregated", "contract"},
                         payments : {None, "delegate", "plugin"}]
      BY <2>6 DEF RegisterCustodyServices
    <3> QED BY <2>6, <3>1 DEF RegisterCustodyServices
  <2>7. CASE RegisterContractServices \/ Exit \/ UNCHANGED bootVars
    BY <2>7 DEF RegisterContractServices, Exit, bootVars
  <2> QED BY <2>0, <2>1, <2>2, <2>3, <2>4, <2>5, <2>6, <2>7 DEF BootNext
<1> QED BY <1>1, <1>2, PTL DEF BootSpec

(* For every environment and network: the payments slot never has two owners,
   and in an adapter that serves it belongs to whom the configuration gives it,
   with the omnibus hook exactly when the adapter keeps the omnibus ledger. *)
THEOREM SlotOwned == BootSpec => []OneSlotOwner
<1>1. BootInv => OneSlotOwner
  <2> SUFFICES ASSUME BootInv PROVE OneSlotOwner
    OBVIOUS
  <2>1. CASE slot = <<>>
    <3>1. Serving /\ ClaimedExternally => slot # <<>>
      BY DEF BootInv, SlotInv, Serving, After, ClaimedExternally, Owns, Deposits
    <3> QED BY <2>1, <3>1 DEF OneSlotOwner
  <2>2. ASSUME NEW p \in Deposits \cup {"dtcc", "collateral"}, Owns(p),
               slot = <<[plugin |-> p, hook |-> hook /\ p \in {"pull", "ota"}]>>
        PROVE  OneSlotOwner
    <3>1. /\ Len(slot) = 1 /\ slot # <<>> /\ slot[1].plugin = p
          /\ slot[1].hook = (hook /\ p \in {"pull", "ota"})
      BY <2>2
    <3>2. ClaimedExternally <=> p \in {"dtcc", "collateral"}
      BY <2>2 DEF Owns, Offers, ClaimedExternally, Deposits
    <3>3. Serving /\ p \in {"pull", "ota"} => hook = (services.model = "omnibus")
      <4> SUFFICES ASSUME Serving, p \in {"pull", "ota"} PROVE hook = (services.model = "omnibus")
        OBVIOUS
      <4>1. custody
        BY <2>2 DEF Owns, Offers, Deposits
      <4>2. hook = (Omnibus /\ custody)
        BY DEF BootInv, RolesInv, Serving, PastOmnibus, Integrating
      <4> QED BY <4>1, <4>2 DEF BootInv, ServicesInv, Serving
    <3>4. 1..Len(slot) = {1} /\ Len(slot) <= 1
      BY <3>1
    <3>5. ASSUME NEW i \in 1..Len(slot), Serving
          PROVE  /\ slot[i].plugin \in {"pull", "ota"} => slot[i].hook = (services.model = "omnibus")
                 /\ ClaimedExternally <=> slot[i].plugin \in {"dtcc", "collateral"}
      <4>1. i = 1
        BY <3>4
      <4> QED BY <3>1, <3>2, <3>3, <3>5, <4>1
    <3> QED BY <3>1, <3>4, <3>5 DEF OneSlotOwner
  <2> QED BY <2>1, <2>2 DEF BootInv, SlotInv
<1> QED BY <1>1, BootInvariance, PTL

(* For every environment and network: an adapter that serves was handed the
   wallets, provider, hook and owner of the payments that its mode cannot do
   without. *)
THEOREM Whole == BootSpec => []ServedIsWhole
<1>1. BootInv => ServedIsWhole
  <2> SUFFICES ASSUME BootInv, Serving PROVE ServedIsWhole
    BY DEF ServedIsWhole
  <2>1. RolesInv /\ ServicesInv /\ step = "serving"
    BY DEF BootInv, Serving
  <2>2. custody => read # None /\ wallets.escrow # None
    BY <2>1 DEF ServicesInv
  <2>3. Omnibus <=> services.model = "omnibus"
    BY <2>1 DEF ServicesInv
  <2>4. Omnibus => hook /\ wallets.omnibus # None /\ (services.payments = "plugin" => slot # <<>>)
    BY <2>1 DEF ServicesInv, RolesInv, OmnibusFunded, PastOmnibus, Integrating
  <2>5. services.model = "segregated" => slot # <<>>
    <3> SUFFICES ASSUME services.model = "segregated" PROVE \E p \in Deposits \cup {"dtcc", "collateral"} : Owns(p)
      BY <2>1 DEF BootInv, SlotInv, After
    <3>1. custody /\ ~Omnibus /\ read # None /\ wallets.escrow # None
      BY <2>1 DEF ServicesInv
    <3>2. CASE ClaimedExternally
      BY <3>2 DEF ClaimedExternally, Owns, Deposits
    <3>3. CASE ~ClaimedExternally
      <4>1. DepositMethod \in Deposits
        BY DEF DepositMethod, Deposits
      <4> QED BY <3>1, <3>3, <4>1 DEF Owns, Offers, Deposits
    <3> QED BY <3>2, <3>3
  <2>6. services.model = "contract" => mode # None
    BY <2>1 DEF ServicesInv, RolesInv, PastProbe, PastOmnibus, Integrating
  <2>7. custody /\ chain.hedera => (activates <=> wallets.gas # None)
    <3> SUFFICES ASSUME custody, chain.hedera PROVE activates <=> wallets.gas # None
      OBVIOUS
    <3>1. wallets.gas = GasAccount /\ read = ReadFrom /\ activates = (ReadFrom # None /\ chain.hedera /\ GasAccount # None)
      BY <2>1 DEF RolesInv, PastWallets, PastProbe, PastOmnibus, Integrating
    <3> QED BY <2>2, <3>1
  <2>8. custody /\ Given("ASSET_ISSUER_CUSTODY_ACCOUNT_ID") => Given("ASSET_ISSUER_PRIVATE_KEY")
    BY <2>1 DEF RolesInv, IssuerMoved
  <2> QED BY <2>2, <2>3, <2>4, <2>5, <2>6, <2>7, <2>8 DEF ServedIsWhole
<1> QED BY <1>1, BootInvariance, PTL

(* For every environment, however it spells its keys: under custody no two nonce
   managers send from one account. *)
THEOREM OneManager == BootSpec => []OneManagerPerKey
<1>1. BootInv => OneManagerPerKey
  BY DEF BootInv, RolesInv, ManagersInv, OneManagerPerKey, Contract
<1> QED BY <1>1, BootInvariance, PTL
=============================================================================
