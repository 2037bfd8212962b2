--------------------------- MODULE LegacyMigration ---------------------------
(***************************************************************************)
(* Adoption of the legacy migration tables at boot, by adapters that boot  *)
(* at the same time, followed by the migrations themselves.                *)
(*                                                                         *)
(* The module follows legacy-migration.ts.  Every query is a step: a       *)
(* replica sees what is committed and what its own transaction has renamed *)
(* (READ COMMITTED), and ALTER TABLE waits for the transaction that has    *)
(* renamed the table before it.                                            *)
(***************************************************************************)
EXTENDS Integers

CONSTANTS
  Replicas,      (* processes that boot                                    *)
  Schemas,       (* ledgerSchema values                                    *)
  SchemaOf,      (* [Replicas -> Schemas]                                  *)
  Legacy,        (* stands for the legacy names                            *)
  N,             (* length of the renames array                            *)
  Absent, Fresh, (* no such table; a table goose has just created          *)
  Starts,        (* the catalogs to start from, as sets of table names     *)
  MaxFaults      (* bound                                                  *)

ASSUME DataAssumption ==
  /\ Legacy \notin Schemas
  /\ SchemaOf \in [Replicas -> Schemas]
  /\ N \in Nat \ {0}
ASSUME BoundAssumption == MaxFaults \in Nat

Pairs == 1..N

(* A table's name is a schema (or Legacy) and a pair; its content is the name
   it had when the system started. *)
Names == (Schemas \cup {Legacy}) \X Pairs
Original(s, i) == <<s, i>>
ASSUME ContentAssumption ==
  /\ Starts \subseteq SUBSET Names
  /\ Absent \notin Names /\ Fresh \notin Names /\ Absent # Fresh

VARIABLES
  table,         (* committed catalog: [Names -> Names \cup {Absent, Fresh}] *)
  initial,       (* history: the catalog at the start                      *)
  pc, pair,      (* where each replica is, and in which rename             *)
  sourceExists,  (* renameLegacyTableInTransaction's local                 *)
  own,           (* renames of the replica's open transaction; it holds
                    the lock on those tables                               *)
  faults

vars == <<table, initial, pc, pair, sourceExists, own, faults>>

(* adoptLegacyMigrationTables is running with a transaction open. *)
Adopting == {"source", "dest", "alter", "resource", "redest", "commit", "rollback"}
States == Adopting \cup {"down", "returned", "running", "thrown"}

(* Operators named Mutant... are plausible slips in the definition they
   precede; no specification uses them. *)

(* tableExists(from) and tableExists(to), as the replica's transaction sees
   the catalog. *)
SourceExists(r) == table[<<Legacy, pair[r]>>] # Absent /\ pair[r] \notin own[r]
DestExists(r) == table[<<SchemaOf[r], pair[r]>>] # Absent \/ pair[r] \in own[r]

(* The catalog once r's renames are committed. *)
Renamed(r) ==
  [n \in Names |->
     IF n[1] = Legacy /\ n[2] \in own[r] THEN Absent
     ELSE IF n[1] = SchemaOf[r] /\ n[2] \in own[r] THEN table[<<Legacy, n[2]>>]
     ELSE table[n]]

Init ==
  /\ \E there \in Starts :
       table = [n \in Names |-> IF n \in there THEN Original(n[1], n[2]) ELSE Absent]
  /\ initial = table
  /\ pc = [r \in Replicas |-> "down"]
  /\ pair = [r \in Replicas |-> 1]
  /\ sourceExists = [r \in Replicas |-> FALSE]
  /\ own = [r \in Replicas |-> {}]
  /\ faults = 0

-----------------------------------------------------------------------------
(* connect and BEGIN. *)
Boot(r) ==
  /\ pc[r] = "down"
  /\ pc' = [pc EXCEPT ![r] = "source"]
  /\ pair' = [pair EXCEPT ![r] = 1]
  /\ sourceExists' = [sourceExists EXCEPT ![r] = FALSE]
  /\ UNCHANGED <<table, initial, own, faults>>

(* The loop goes on to the next rename, or to COMMIT. *)
NextRename(r) ==
  IF pair[r] = N
  THEN /\ pc' = [pc EXCEPT ![r] = "commit"]
       /\ UNCHANGED pair
  ELSE /\ pc' = [pc EXCEPT ![r] = "source"]
       /\ pair' = [pair EXCEPT ![r] = @ + 1]

ReadSource(r) ==
  /\ pc[r] = "source"
  /\ sourceExists' = [sourceExists EXCEPT ![r] = SourceExists(r)]
  /\ pc' = [pc EXCEPT ![r] = "dest"]
  /\ UNCHANGED <<table, initial, pair, own, faults>>

ReadDest(r) ==
  /\ pc[r] = "dest"
  /\ IF ~ sourceExists[r] \/ DestExists(r)
     THEN NextRename(r)
     ELSE /\ pc' = [pc EXCEPT ![r] = "alter"]
          /\ UNCHANGED pair
  /\ UNCHANGED <<table, initial, sourceExists, own, faults>>

(* ALTER TABLE waits while another transaction holds the table. *)
Locked(r) == \E q \in Replicas \ {r} : pair[r] \in own[q]

(* SAVEPOINT, ALTER and RELEASE; an ALTER that finds the catalog changed throws
   and the savepoint is rolled back.  The slip renames outside a transaction. *)
MutantAlter(r) ==
  /\ pc[r] = "alter"
  /\ ~ Locked(r)
  /\ SourceExists(r) /\ ~ DestExists(r)
  /\ table' = [table EXCEPT ![<<Legacy, pair[r]>>] = Absent,
                            ![<<SchemaOf[r], pair[r]>>] = table[<<Legacy, pair[r]>>]]
  /\ NextRename(r)
  /\ UNCHANGED <<initial, sourceExists, own, faults>>
Alter(r) ==
  /\ pc[r] = "alter"
  /\ ~ Locked(r)
  /\ IF SourceExists(r) /\ ~ DestExists(r)
     THEN /\ own' = [own EXCEPT ![r] = @ \cup {pair[r]}]
          /\ NextRename(r)
     ELSE /\ pc' = [pc EXCEPT ![r] = "resource"]
          /\ UNCHANGED <<own, pair>>
  /\ UNCHANGED <<table, initial, sourceExists, faults>>

(* The re-read after the savepoint was rolled back; the slip rethrows without
   looking. *)
MutantRereadSource(r) ==
  /\ pc[r] = "resource"
  /\ pc' = [pc EXCEPT ![r] = "rollback"]
  /\ UNCHANGED <<table, initial, pair, sourceExists, own, faults>>
RereadSource(r) ==
  /\ pc[r] = "resource"
  /\ pc' = [pc EXCEPT ![r] = IF SourceExists(r) THEN "rollback" ELSE "redest"]
  /\ UNCHANGED <<table, initial, pair, sourceExists, own, faults>>

RereadDest(r) ==
  /\ pc[r] = "redest"
  /\ IF DestExists(r)
     THEN NextRename(r)
     ELSE /\ pc' = [pc EXCEPT ![r] = "rollback"]
          /\ UNCHANGED pair
  /\ UNCHANGED <<table, initial, sourceExists, own, faults>>

(* COMMIT; its answer can be lost although it took effect. *)
Commit(r) ==
  /\ pc[r] = "commit"
  /\ table' = Renamed(r)
  /\ own' = [own EXCEPT ![r] = {}]
  /\ pair' = [pair EXCEPT ![r] = 1]
  /\ \/ /\ pc' = [pc EXCEPT ![r] = "returned"]
        /\ UNCHANGED faults
     \/ /\ faults < MaxFaults /\ faults' = faults + 1
        /\ pc' = [pc EXCEPT ![r] = "thrown"]
  /\ UNCHANGED <<initial, sourceExists>>

(* The catch block; the slip leaves the transaction open. *)
MutantRollback(r) ==
  /\ pc[r] = "rollback"
  /\ pc' = [pc EXCEPT ![r] = "thrown"]
  /\ UNCHANGED <<table, initial, pair, sourceExists, own, faults>>
Rollback(r) ==
  /\ pc[r] = "rollback"
  /\ own' = [own EXCEPT ![r] = {}]
  /\ pc' = [pc EXCEPT ![r] = "thrown"]
  /\ UNCHANGED <<table, initial, pair, sourceExists, faults>>

(* A query fails: within the try block of the rename (a lock timeout, say) it
   leads to the re-read, anywhere else to the catch block.  The slip logs the
   failed rename and goes on. *)
MutantQueryFails(r) ==
  /\ pc[r] = "alter"
  /\ faults < MaxFaults /\ faults' = faults + 1
  /\ NextRename(r)
  /\ UNCHANGED <<table, initial, sourceExists, own>>
QueryFails(r) ==
  /\ pc[r] \in Adopting \ {"rollback"}
  /\ faults < MaxFaults /\ faults' = faults + 1
  /\ \E next \in IF pc[r] = "alter" THEN {"resource", "rollback"} ELSE {"rollback"} :
       pc' = [pc EXCEPT ![r] = next]
  /\ UNCHANGED <<table, initial, pair, sourceExists, own>>

(* createApp runs goose for one table after the other: it creates a version
   table that is missing and applies the migrations from the first on.  The
   slip does not look for the table. *)
MutantMigrate(r) ==
  /\ pc[r] = "returned"
  /\ table' = [table EXCEPT ![<<SchemaOf[r], pair[r]>>] = Fresh]
  /\ pc' = [pc EXCEPT ![r] = "running"]
  /\ UNCHANGED <<initial, pair, sourceExists, own, faults>>
Migrate(r) ==
  /\ pc[r] = "returned"
  /\ table' = [table EXCEPT ![<<SchemaOf[r], pair[r]>>] = IF @ = Absent THEN Fresh ELSE @]
  /\ IF pair[r] = N
     THEN /\ pc' = [pc EXCEPT ![r] = "running"]
          /\ UNCHANGED pair
     ELSE /\ pair' = [pair EXCEPT ![r] = @ + 1]
          /\ UNCHANGED pc
  /\ UNCHANGED <<initial, sourceExists, own, faults>>

(* The process is gone, at any time; the server rolls its transaction back. *)
Stop(r) ==
  /\ pc[r] # "down"
  /\ pc' = [pc EXCEPT ![r] = "down"]
  /\ own' = [own EXCEPT ![r] = {}]
  /\ UNCHANGED <<table, initial, pair, sourceExists, faults>>

Adopt(r) ==
  \/ ReadSource(r) \/ ReadDest(r) \/ Alter(r) \/ RereadSource(r) \/ RereadDest(r)
  \/ Commit(r) \/ Rollback(r)

Next == \E r \in Replicas : Boot(r) \/ Adopt(r) \/ QueryFails(r) \/ Migrate(r) \/ Stop(r)

Spec == Init /\ [][Next]_vars

(* The server answers each query, and its lock queues are first come, first
   served: a waiting ALTER is not passed over for ever. *)
FairSpec == Spec /\ \A r \in Replicas : SF_vars(Adopt(r))

-----------------------------------------------------------------------------
(***************************************************************************)
(* Properties                                                              *)
(***************************************************************************)

(* Every variable keeps its type, and only an open transaction has renames. *)
TypeOK ==
  /\ table \in [Names -> Names \cup {Absent, Fresh}]
  /\ initial \in [Names -> Names \cup {Absent}]
  /\ pc \in [Replicas -> States]
  /\ pair \in [Replicas -> Pairs]
  /\ sourceExists \in [Replicas -> BOOLEAN]
  /\ own \in [Replicas -> SUBSET Pairs]
  /\ \A r \in Replicas : pc[r] \notin Adopting => own[r] = {}
  /\ faults \in Nat

(* When adoptLegacyMigrationTables returns, and from then on, no legacy table is
   left whose new name is free: goose finds the history it should go on from.
   This holds whatever the other replicas do (legacy-migration.ts:9-10). *)
ReturnedIsAdopted ==
  \A r \in Replicas, i \in Pairs :
    pc[r] \in {"returned", "running"} =>
      table[<<Legacy, i>>] = Absent \/ table[<<SchemaOf[r], i>>] # Absent

(* The database was last used by the release before the renames. *)
Unadopted == \A n \in Names : initial[n] # Absent <=> n[1] = Legacy

(* legacy-migration.ts:15-16, "Atomic": however many replicas race, fail or are
   killed, no committed state is half-migrated.  From a database with only the
   legacy tables, either all are still there or all have gone to one schema. *)
ClaimedWhole ==
  Unadopted =>
    \/ \A i \in Pairs : table[<<Legacy, i>>] # Absent
    \/ \E s \in Schemas : \A i \in Pairs :
         table[<<Legacy, i>>] = Absent /\ table[<<s, i>>] = Original(Legacy, i)

(* Has an adapter of another schema claimed the legacy table of pair i? *)
TakenFrom(s, i) == \E t \in Schemas \ {s} : table[<<t, i>>] = Original(Legacy, i)

(* legacy-migration.ts:16-19, "Race-safe across concurrent boots": replicas of one
   adapter that boot together never make each other's boot throw; only a failing
   query does, or another adapter that takes the table meanwhile. *)
OnlyFaultsThrow ==
  \A r \in Replicas :
    pc[r] = "thrown" => faults > 0 \/ \E i \in Pairs : TakenFrom(SchemaOf[r], i)

(* The contents of a table that exists at the start are neither lost nor
   duplicated nor mixed up with those of another pair; at most the legacy table
   has moved to its new name (renameLegacyTableInTransaction). *)
HistoryInOnePlace ==
  \A s \in Schemas \cup {Legacy}, i \in Pairs :
    initial[<<s, i>>] # Absent =>
      LET places == {n \in Names : table[n] = Original(s, i)} IN
      \/ places = {<<s, i>>}
      \/ s = Legacy /\ \E t \in Schemas : places = {<<t, i>>}

(* Goose starts a history that existed from scratch only for an adapter that lost
   the legacy tables to a co-deployed one. *)
InitialNotRerun ==
  \A s \in Schemas, i \in Pairs :
    table[<<s, i>>] = Fresh => initial[<<Legacy, i>>] = Absent \/ TakenFrom(s, i)

(* legacy-migration.ts:9-10: the tables are adopted "so migration history isn't
   lost and goose doesn't re-run the schema-creating initial migration". *)
HistoryKept == HistoryInOnePlace /\ InitialNotRerun

(* Replicas that wait for each other's locks do not wait for ever: every
   adoption returns, throws or dies.  All replicas rename in the same order. *)
BootEnds == \A r \in Replicas : pc[r] \in Adopting ~> pc[r] \notin Adopting
=============================================================================
