--------------------------- MODULE DataLoadProofs ---------------------------
(***************************************************************************)
(* What the data pipeline guarantees for any tables, in any order, of any  *)
(* sizes, and for any number of commands; and that the scripts together    *)
(* guarantee what each kind of them does.                                  *)
(***************************************************************************)
EXTENDS Scripts, EngineEstateProofs

-----------------------------------------------------------------------------
(* Loops over the tables.                                                  *)

\* The loop over the tables takes the first and leaves the others.
LEMMA NextTable ==
  ASSUME tables \in Seq(Table), tables # <<>>, tables' = Tail(tables)
  PROVE  ThisTable \in Table /\ tables' \in Seq(Table) /\ TablesLeft \subseteq {ThisTable} \cup TablesLeft'
<1>1. ThisTable \in Table /\ ThisTable = tables[1] /\ Tail(tables) \in Seq(Table)
  BY HeadTailProperties DEF ThisTable
<1>2. ASSUME NEW i \in 1..Len(tables), i # 1
      PROVE  i - 1 \in 1..Len(Tail(tables)) /\ Tail(tables)[i - 1] = tables[i]
  BY <1>2, HeadTailProperties
<1>3. ASSUME NEW i \in 1..Len(tables) PROVE tables[i] \in {ThisTable} \cup TablesLeft'
  BY <1>1, <1>2, <1>3 DEF TablesLeft
<1>4. QED
  BY <1>1, <1>3 DEF TablesLeft

\* The current table is one of those that are left.
LEMMA MeIsLeft ==
  ASSUME tables \in Seq(Table), tables # <<>>
  PROVE  ThisTable \in Table /\ ThisTable \in TablesLeft
  BY HeadTailProperties DEF ThisTable, TablesLeft

\* A job writes one copy of one table.
LEMMA PutOne ==
  ASSUME data \in [Copy -> [Table -> Content]], ThisTable \in Table,
         NEW k \in Copy, NEW c \in Content, Put(k, c)
  PROVE  /\ data' \in [Copy -> [Table -> Content]]
         /\ data'[k][ThisTable] = c
         /\ \A t \in Table \ {ThisTable} : data'[k][t] = data[k][t]
         /\ \A j \in Copy \ {k} : data'[j] = data[j]
  BY DEF Put

\* Both orders name every table, and an empty loop leaves none.
LEMMA LoopsCover ==
  /\ Rewrite \in Seq(Table) /\ LoadOrder \in Seq(Table)
  /\ tables' \in {Rewrite, LoadOrder} => TablesLeft' = Table
  /\ tables = <<>> => TablesLeft = {}
  /\ tables' = <<>> => TablesLeft' = {}
<1>1. tables' = Rewrite => TablesLeft' = Table
  BY OrderAssumption DEF TablesLeft
<1>2. tables' = LoadOrder => TablesLeft' = Table
  BY OrderAssumption DEF TablesLeft
<1>3. tables = <<>> => TablesLeft = {}
  BY DEF TablesLeft
<1>4. tables' = <<>> => TablesLeft' = {}
  BY DEF TablesLeft
<1>5. QED
  BY <1>1, <1>2, <1>3, <1>4, OrderAssumption

\* The tables are original and nothing is backed up.
LEMMA InitLoadInv == LoadInit => LoadInv
<1> SUFFICES ASSUME LoadInit PROVE LoadInv
  OBVIOUS
<1> USE DEF LoadInit
<1>1. LoadTypeOK
  BY CommandsAssumption DEF LoadTypeOK, Copy, Content, Jobs
<1>2. BackupIsOriginal /\ ReplacedIsBackedUp
  BY DEF BackupIsOriginal, ReplacedIsBackedUp, Copy
<1>3. JobFits /\ DoneSoFar
  BY DEF JobFits, DoneSoFar
<1>4. QED
  BY <1>1, <1>2, <1>3 DEF LoadInv

-----------------------------------------------------------------------------
(* A command starts and ends. No table changes.                            *)

\* A command begins with nothing done.
LEMMA Starts ==
  ASSUME LoadInv, StartBackup \/ StartApply \/ StartDryRun \/ StartRollback
  PROVE  LoadInv'
<1> USE DEF LoadInv, StartBackup, StartApply, StartDryRun, StartRollback, BeginCommand
<1>1. LoadTypeOK'
  BY LoopsCover, CommandsAssumption DEF LoadTypeOK, Jobs
<1>2. BackupIsOriginal' /\ ReplacedIsBackedUp'
  BY DEF BackupIsOriginal, ReplacedIsBackedUp
<1>3. JobFits'
  BY DEF JobFits
<1>4. TablesLeft' = Table /\ job' # "idle"
  BY LoopsCover
<1>5. DoneSoFar'
  BY <1>4 DEF DoneSoFar, EndedWell
<1>6. QED
  BY <1>1, <1>2, <1>3, <1>5

\* What a command has to have achieved to end in this way.
Achieved(how) ==
    /\ how = "well" /\ command \in {"backup", "apply"} => wrong = {}
    /\ \A t \in Table :
          /\ how = "well" /\ command = "backup" => data["backup"][t] = "original"
          /\ how = "well" /\ command = "apply" => data["live"][t] = "generated"
          /\ how = "well" /\ command = "rollback" =>
                 data["live"][t] = "original" \/ t \in blind
          /\ how \in {"well", "raised"} /\ command = "dryrun" =>
                 data["staging"][t] = "missing"

\* A command that ends has nothing left of its loop.
LEMMA Ends ==
  ASSUME LoadInv, NEW how \in {"well", "raised", "refused", "killed"},
         End(how), Achieved(how)
  PROVE  LoadInv'
<1> USE DEF LoadInv, End
<1>1. LoadTypeOK'
  BY DEF LoadTypeOK
<1>2. BackupIsOriginal' /\ ReplacedIsBackedUp'
  BY DEF BackupIsOriginal, ReplacedIsBackedUp
<1>3. JobFits'
  BY DEF JobFits
<1>4. DoneSoFar'
  BY DEF DoneSoFar, EndedWell, Achieved
<1>5. QED
  BY <1>1, <1>2, <1>3, <1>4

\* Each loop that runs to its end has achieved what its command is for.
LEMMA LoopsEnd ==
  ASSUME LoadInv, BackupEnds \/ ApplyEnds \/ DryRunEnds \/ RollbackEnds
  PROVE  LoadInv'
<1>1. CASE BackupEnds
  <2>1. Achieved(IF wrong = {} THEN "well" ELSE "raised")
    BY <1>1, LoopsCover DEF LoadInv, DoneSoFar, JobFits, BackupEnds, Achieved
  <2>2. QED
    BY <1>1, <2>1, Ends DEF BackupEnds
<1>2. CASE ApplyEnds
  <2>1. Achieved(IF wrong = {} THEN "well" ELSE "raised")
    BY <1>2, LoopsCover DEF LoadInv, DoneSoFar, ApplyEnds, Achieved
  <2>2. QED
    BY <1>2, <2>1, Ends DEF ApplyEnds
<1>3. CASE DryRunEnds
  <2>1. Achieved(ending)
    BY <1>3, LoopsCover DEF LoadInv, DoneSoFar, JobFits, DryRunEnds, Achieved
  <2>2. QED
    BY <1>3, <2>1, Ends DEF DryRunEnds, LoadInv, LoadTypeOK
<1>4. CASE RollbackEnds
  <2>1. Achieved("well")
    BY <1>4, LoopsCover DEF LoadInv, DoneSoFar, RollbackEnds, Achieved
  <2>2. QED
    BY <1>4, <2>1, Ends DEF RollbackEnds
<1>5. QED
  BY <1>1, <1>2, <1>3, <1>4

\* The sweep has all staging tables before it.
LEMMA Sweeps ==
  ASSUME LoadInv, command = "dryrun", NEW how \in {"well", "raised"}, StartSweep(how)
  PROVE  LoadInv'
<1> USE DEF LoadInv, StartSweep, Sweep
<1>1. LoadTypeOK'
  BY LoopsCover DEF LoadTypeOK, Jobs
<1>2. BackupIsOriginal' /\ ReplacedIsBackedUp'
  BY DEF BackupIsOriginal, ReplacedIsBackedUp
<1>3. JobFits'
  BY DEF JobFits
<1>4. TablesLeft' = Table
  BY LoopsCover
<1>5. DoneSoFar'
  BY <1>4 DEF DoneSoFar, EndedWell
<1>6. QED
  BY <1>1, <1>2, <1>3, <1>5

\* An exception, the end of the process, and a command that refuses.
LEMMA Fails ==
  ASSUME LoadInv, Raise \/ Kill \/ Refuse
  PROVE  LoadInv'
<1>1. CASE Raise /\ command = "dryrun"
  BY <1>1, Sweeps DEF Raise
<1>2. CASE Raise /\ command # "dryrun"
  <2>1. Achieved("raised")
    BY <1>2 DEF Achieved
  <2>2. QED
    BY <1>2, <2>1, Ends DEF Raise
<1>3. CASE Kill
  <2>1. Achieved("killed")
    BY DEF Achieved
  <2>2. QED
    BY <1>3, <2>1, Ends DEF Kill
<1>4. CASE Refuse
  <2>1. Achieved("refused")
    BY DEF Achieved
  <2>2. QED
    BY <1>4, <2>1, Ends DEF Refuse
<1>5. QED
  BY <1>1, <1>2, <1>3, <1>4

-----------------------------------------------------------------------------
(* The jobs.                                                               *)

\* A backup that is taken, or found, with the profile's row count is the original.
LEMMA BackupTableKeeps == ASSUME LoadInv, BackupTable PROVE LoadInv'
<1> USE DEF LoadInv, BackupTable, GoOn
<1>1. /\ ThisTable \in Table /\ tables' \in Seq(Table) /\ TablesLeft \subseteq {ThisTable} \cup TablesLeft'
  BY NextTable DEF LoadTypeOK
<1>2. BackupOf(ThisTable) \in {"original", "empty"} /\ (BackupOf(ThisTable) = "empty" => ThisTable \in blind)
  BY <1>1 DEF BackupOf, LoadTypeOK, BackupIsOriginal, ReplacedIsBackedUp, Content, Copy
<1>3. /\ data' \in [Copy -> [Table -> Content]]
      /\ data'["backup"][ThisTable] = BackupOf(ThisTable)
      /\ \A t \in Table \ {ThisTable} : data'["backup"][t] = data["backup"][t]
      /\ data'["live"] = data["live"]
  BY <1>1, <1>2, PutOne DEF LoadTypeOK, Copy, Content
<1>4. data["backup"][ThisTable] = "original" => BackupOf(ThisTable) = "original"
  BY DEF BackupOf
<1>5. LoadTypeOK'
  BY <1>1, <1>3 DEF LoadTypeOK, Jobs
<1>6. BackupIsOriginal'
  BY <1>2, <1>3 DEF BackupIsOriginal
<1>7. JobFits'
  BY DEF JobFits
<1>8. ReplacedIsBackedUp'
  BY <1>3, <1>4 DEF ReplacedIsBackedUp
<1>9. DoneSoFar'
  <2>1. ThisTable \in wrong' \/ BackupOf(ThisTable) = "original"
    BY <1>1, <1>2, RowsAssumption DEF Rows
  <2>2. ASSUME NEW t \in Table \ TablesLeft' PROVE data'["backup"][t] = "original" \/ t \in wrong'
    BY <2>1, <2>2, <1>1, <1>3 DEF DoneSoFar, JobFits
  <2>3. QED
    BY <2>2 DEF DoneSoFar, JobFits, EndedWell
<1>10. QED
  BY <1>5, <1>6, <1>7, <1>8, <1>9

\* _require_backups counts rows; what has as many rows as the original is the original.
LEMMA RequireKeeps == ASSUME LoadInv, Require PROVE LoadInv'
<1> USE DEF LoadInv, Require, GoOn
<1>1. LoadTypeOK'
  BY LoopsCover DEF LoadTypeOK, Jobs
<1>2. BackupIsOriginal' /\ ReplacedIsBackedUp'
  BY DEF BackupIsOriginal, ReplacedIsBackedUp
<1>3. ASSUME command = "apply", NEW t \in Table PROVE data["backup"][t] = "original"
  BY <1>3, RowsAssumption DEF BackedUp, BackupIsOriginal, Rows
<1>4. JobFits'
  BY <1>3, OrderAssumption DEF JobFits
<1>5. DoneSoFar'
  BY LoopsCover DEF DoneSoFar, EndedWell
<1>6. QED
  BY <1>1, <1>2, <1>4, <1>5

\* A table is loaded, live or into staging.
LEMMA LoadTableKeeps == ASSUME LoadInv, LoadTable PROVE LoadInv'
<1> USE DEF LoadInv, LoadTable, GoOn
<1>1. ThisTable \in Table /\ ThisTable \in TablesLeft /\ TablesLeft' = TablesLeft
  BY MeIsLeft DEF LoadTypeOK, TablesLeft
<1>2. PICK c \in {"generated", "botched"} : Put(Target, c)
  OBVIOUS
<1>3. Target \in {"live", "staging"} /\ (Target = "live" <=> command = "apply")
  BY DEF Target, JobFits
<1>4. /\ data' \in [Copy -> [Table -> Content]]
      /\ data'[Target][ThisTable] = c
      /\ \A t \in Table \ {ThisTable} : data'[Target][t] = data[Target][t]
      /\ \A k \in Copy \ {Target} : data'[k] = data[k]
  BY <1>1, <1>2, <1>3, PutOne DEF LoadTypeOK, Copy, Content
<1>5. data'["backup"] = data["backup"] /\ (command # "apply" => data'["live"] = data["live"])
  BY <1>3, <1>4 DEF Copy
<1>6. LoadTypeOK'
  BY <1>3, <1>4, <1>5 DEF LoadTypeOK, Jobs
<1>7. BackupIsOriginal'
  BY <1>5 DEF BackupIsOriginal
<1>8. JobFits'
  BY <1>5 DEF JobFits
<1>9. ReplacedIsBackedUp'
  BY <1>5 DEF ReplacedIsBackedUp, JobFits
<1>10. DoneSoFar'
  BY <1>1, <1>3, <1>4, <1>5 DEF DoneSoFar, EndedWell, JobFits
<1>11. QED
  BY <1>6, <1>7, <1>8, <1>9, <1>10

\* A table that was loaded is checked.
LEMMA VerifyKeeps == ASSUME LoadInv, Verify PROVE LoadInv'
<1> USE DEF LoadInv, Verify, GoOn
<1>1. ThisTable \in Table /\ tables' \in Seq(Table) /\ TablesLeft \subseteq {ThisTable} \cup TablesLeft'
  BY NextTable DEF LoadTypeOK, JobFits
<1>2. LoadTypeOK'
  BY <1>1 DEF LoadTypeOK, Jobs
<1>3. BackupIsOriginal' /\ ReplacedIsBackedUp' /\ JobFits'
  BY DEF BackupIsOriginal, ReplacedIsBackedUp, JobFits
<1>4. DoneSoFar'
  <2>1. command = "apply" => data["live"][ThisTable] = "generated" \/ ThisTable \in wrong'
    BY DEF Passes, Target
  <2>2. QED
    BY <1>1, <2>1 DEF DoneSoFar, EndedWell, JobFits
<1>5. QED
  BY <1>2, <1>3, <1>4

\* The loop of loads is done: what failed is swept, or the command goes on.
LEMMA LoadedKeeps == ASSUME LoadInv, Loaded PROVE LoadInv'
<1>1. CASE wrong # {}
  BY <1>1, Sweeps DEF Loaded
<1>2. CASE wrong = {}
  <2> USE DEF LoadInv, Loaded, GoOn
  <2>1. Head(LoadOrder) \in Table
    BY OrderAssumption, HeadTailProperties
  <2>2. LoadTypeOK'
    <3>1. tables' = <<Head(LoadOrder)>> /\ job' = "truncate"
      BY <1>2
    <3>2. tables' \in Seq(Table)
      BY <2>1, <3>1
    <3>3. QED
      BY <1>2, <3>1, <3>2 DEF LoadTypeOK, Jobs
  <2>3. BackupIsOriginal' /\ ReplacedIsBackedUp' /\ JobFits' /\ DoneSoFar'
    BY <1>2 DEF BackupIsOriginal, ReplacedIsBackedUp, JobFits, DoneSoFar, EndedWell
  <2>4. QED
    BY <2>2, <2>3
<1>3. QED
  BY <1>1, <1>2

\* A staging table is dropped.
LEMMA DropTableKeeps == ASSUME LoadInv, DropTable PROVE LoadInv'
<1> USE DEF LoadInv, DropTable, GoOn
<1>1. ThisTable \in Table /\ tables' \in Seq(Table) /\ TablesLeft \subseteq {ThisTable} \cup TablesLeft'
  BY NextTable DEF LoadTypeOK
<1>2. /\ data' \in [Copy -> [Table -> Content]]
      /\ data'["staging"][ThisTable] = "missing"
      /\ \A t \in Table \ {ThisTable} : data'["staging"][t] = data["staging"][t]
      /\ data'["live"] = data["live"] /\ data'["backup"] = data["backup"]
  BY <1>1, PutOne DEF LoadTypeOK, Copy, Content
<1>3. LoadTypeOK'
  BY <1>1, <1>2 DEF LoadTypeOK, Jobs
<1>4. BackupIsOriginal' /\ ReplacedIsBackedUp' /\ JobFits'
  BY <1>2 DEF BackupIsOriginal, ReplacedIsBackedUp, JobFits
<1>5. DoneSoFar'
  BY <1>1, <1>2 DEF DoneSoFar, EndedWell, JobFits
<1>6. QED
  BY <1>3, <1>4, <1>5

\* A restore truncates the table that it is to fill.
LEMMA TruncateTableKeeps == ASSUME LoadInv, TruncateTable PROVE LoadInv'
<1> USE DEF LoadInv, TruncateTable, GoOn
<1>1. ThisTable \in Table /\ ThisTable \in TablesLeft /\ TablesLeft' = TablesLeft
  BY MeIsLeft DEF LoadTypeOK, TablesLeft
<1>2. Target \in {"live", "staging"} /\ (Target = "live" <=> command = "rollback")
  BY DEF Target, JobFits
<1>3. /\ data' \in [Copy -> [Table -> Content]]
      /\ data'[Target][ThisTable] = "empty"
      /\ \A t \in Table \ {ThisTable} : data'[Target][t] = data[Target][t]
      /\ \A k \in Copy \ {Target} : data'[k] = data[k]
  BY <1>1, <1>2, PutOne DEF LoadTypeOK, Copy, Content
<1>4. data'["backup"] = data["backup"] /\ (command # "rollback" => data'["live"] = data["live"])
  BY <1>2, <1>3 DEF Copy
<1>5. LoadTypeOK'
  BY <1>1, <1>2, <1>3, <1>4 DEF LoadTypeOK, Jobs
<1>6. BackupIsOriginal'
  BY <1>4 DEF BackupIsOriginal
<1>7. JobFits'
  BY <1>4 DEF JobFits
<1>8. ReplacedIsBackedUp'
  BY <1>2, <1>3, <1>4 DEF ReplacedIsBackedUp
<1>9. DoneSoFar'
  BY <1>1, <1>2, <1>3, <1>4 DEF DoneSoFar, EndedWell, JobFits
<1>10. QED
  BY <1>5, <1>6, <1>7, <1>8, <1>9

\* What a rollback restores is the original, or what a blind rollback left.
LEMMA InsertRowsKeeps == ASSUME LoadInv, InsertRows PROVE LoadInv'
<1> USE DEF LoadInv, InsertRows, GoOn
<1> DEFINE c == data["backup"][ThisTable]
<1>1. /\ ThisTable \in Table /\ tables' \in Seq(Table) /\ TablesLeft \subseteq {ThisTable} \cup TablesLeft'
  BY NextTable DEF LoadTypeOK, JobFits
<1>2. Target \in {"live", "staging"} /\ (Target = "live" <=> command = "rollback")
  BY DEF Target, JobFits
<1>3. c = "original" \/ (c = "empty" /\ ThisTable \in blind)
  BY <1>1 DEF BackupIsOriginal
<1>4. /\ data' \in [Copy -> [Table -> Content]]
      /\ data'[Target][ThisTable] = c
      /\ \A t \in Table \ {ThisTable} : data'[Target][t] = data[Target][t]
      /\ \A k \in Copy \ {Target} : data'[k] = data[k]
  <2>1. c \in Content /\ Target \in Copy
    BY <1>2, <1>3 DEF Content, Copy
  <2>2. QED
    BY <1>1, <2>1, PutOne DEF LoadTypeOK
<1>5. data'["backup"] = data["backup"] /\ (command # "rollback" => data'["live"] = data["live"])
  BY <1>2, <1>4 DEF Copy
<1>6. LoadTypeOK'
  BY <1>1, <1>2, <1>3, <1>4, <1>5 DEF LoadTypeOK, Jobs
<1>7. BackupIsOriginal'
  BY <1>5 DEF BackupIsOriginal
<1>8. JobFits'
  BY <1>5 DEF JobFits
<1>9. ReplacedIsBackedUp'
  BY <1>2, <1>3, <1>4, <1>5 DEF ReplacedIsBackedUp
<1>10. DoneSoFar'
  BY <1>1, <1>2, <1>3, <1>4, <1>5 DEF DoneSoFar, EndedWell, JobFits
<1>11. QED
  BY <1>6, <1>7, <1>8, <1>9, <1>10

-----------------------------------------------------------------------------
(* The theorems.                                                           *)

\* All jobs and exits.
LEMMA NextKeeps == LoadInv /\ [LoadNext]_loadVars => LoadInv'
<1> SUFFICES ASSUME LoadInv, [LoadNext]_loadVars PROVE LoadInv'
  OBVIOUS
<1>1. CASE StartBackup \/ StartApply \/ StartDryRun \/ StartRollback
  BY <1>1, Starts
<1>2. CASE BackupEnds \/ ApplyEnds \/ DryRunEnds \/ RollbackEnds
  BY <1>2, LoopsEnd
<1>3. CASE BackupTable
  BY <1>3, BackupTableKeeps
<1>4. CASE Require
  BY <1>4, RequireKeeps
<1>5. CASE LoadTable
  BY <1>5, LoadTableKeeps
<1>6. CASE Verify
  BY <1>6, VerifyKeeps
<1>7. CASE Loaded
  BY <1>7, LoadedKeeps
<1>8. CASE DropTable
  BY <1>8, DropTableKeeps
<1>9. CASE TruncateTable
  BY <1>9, TruncateTableKeeps
<1>10. CASE InsertRows
  BY <1>10, InsertRowsKeeps
<1>11. CASE RollbackProved
  BY <1>11, Sweeps DEF RollbackProved
<1>12. CASE Raise \/ Kill \/ Refuse
  BY <1>12, Fails
<1>13. CASE UNCHANGED loadVars
  BY <1>13 DEF loadVars, LoadInv, LoadTypeOK, BackupIsOriginal, JobFits, ReplacedIsBackedUp,
               DoneSoFar, EndedWell, TablesLeft
<1>14. QED
  BY <1>1, <1>2, <1>3, <1>4, <1>5, <1>6, <1>7, <1>8, <1>9, <1>10, <1>11, <1>12, <1>13
     DEF LoadNext

\* The inductive invariant holds of every history of commands and failures.
THEOREM LoadInvariance == LoadSpec => []LoadInv
  BY InitLoadInv, NextKeeps, PTL DEF LoadSpec

\* The state has its type; in particular every live table is there at all times.
THEOREM LoadTypeCorrect == LoadSpec => []LoadTypeOK
<1>1. LoadInv => LoadTypeOK
  BY DEF LoadInv
<1>2. QED
  BY LoadInvariance, <1>1, PTL

\* Only original rows ever get into a backup, however many tables are regenerated
\* with the row count that they had.
THEOREM BackupsAreOriginal == LoadSpec => []BackupIsOriginal
<1>1. LoadInv => BackupIsOriginal
  BY DEF LoadInv
<1>2. QED
  BY LoadInvariance, <1>1, PTL

\* The originals survive every order of commands, interruptions and failures,
\* but for tables that a rollback empties without a backup.
THEOREM OriginalsSurvive == LoadSpec => []OriginalSurvives
<1>1. LoadInv => OriginalSurvives
  <2> SUFFICES ASSUME LoadInv, NEW t \in Table
               PROVE  data["live"][t] = "original" \/ data["backup"][t] = "original" \/ t \in blind
    BY DEF OriginalSurvives
  <2>1. data["live"][t] \in {"empty", "original", "generated", "botched"}
    BY DEF LoadInv, LoadTypeOK, Copy, Content
  <2>2. QED
    BY <2>1 DEF LoadInv, ReplacedIsBackedUp
<1>2. QED
  BY LoadInvariance, <1>1, PTL

\* A command that ends without an error has done its work on every table.
THEOREM CleanEndsHold == LoadSpec => []CleanEndHolds
<1>1. LoadInv => CleanEndHolds
  <2> SUFFICES ASSUME LoadInv, job = "idle", ending = "well" PROVE CleanEndHolds
    BY DEF CleanEndHolds
  <2>1. TablesLeft = {}
    BY LoopsCover DEF LoadInv, JobFits
  <2>2. QED
    BY <2>1 DEF LoadInv, DoneSoFar, EndedWell, CleanEndHolds
<1>2. QED
  BY LoadInvariance, <1>1, PTL

\* A dry run that is not killed leaves no staging table behind.
THEOREM StagingAlwaysSwept == LoadSpec => []StagingIsSwept
<1>1. LoadInv => StagingIsSwept
  <2> SUFFICES ASSUME LoadInv, job = "idle" PROVE StagingIsSwept
    BY DEF StagingIsSwept
  <2>1. TablesLeft = {}
    BY LoopsCover DEF LoadInv, JobFits
  <2>2. QED
    BY <2>1 DEF LoadInv, DoneSoFar, StagingIsSwept
<1>2. QED
  BY LoadInvariance, <1>1, PTL

\* No live table is replaced before every original is backed up, but by a rollback.
THEOREM LiveStaysGuarded == LoadSpec => LiveIsGuarded
<1> DEFINE Guarded == data["live"]' # data["live"] =>
                        \/ command = "rollback"
                        \/ command = "apply" /\ \A t \in Table : data["backup"][t] = "original"
<1>1. LoadInv /\ [LoadNext]_loadVars => [Guarded]_loadVars
  <2> SUFFICES ASSUME LoadInv, LoadNext, data["live"]' # data["live"]
               PROVE  \/ command = "rollback"
                      \/ command = "apply" /\ \A t \in Table : data["backup"][t] = "original"
    BY DEF loadVars
  <2> USE DEF LoadInv, JobFits
  <2>1. CASE LoadTable
    <3>1. command # "dryrun"
      <4> SUFFICES ASSUME command = "dryrun" PROVE FALSE
        OBVIOUS
      <4>1. PICK c \in Content : Put("staging", c)
        BY <2>1 DEF LoadTable, Target, Content
      <4>2. QED
        BY <4>1 DEF Put, LoadTypeOK, Copy
    <3>2. QED
      BY <2>1, <3>1 DEF LoadTable
  <2>2. CASE TruncateTable \/ InsertRows
    <3>1. command # "dryrun"
      <4> SUFFICES ASSUME command = "dryrun" PROVE FALSE
        OBVIOUS
      <4>1. PICK c : Put("staging", c)
        BY <2>2 DEF TruncateTable, InsertRows, Target
      <4>2. QED
        BY <4>1 DEF Put, LoadTypeOK, Copy
    <3>2. QED
      BY <2>2, <3>1 DEF TruncateTable, InsertRows
  <2>3. CASE BackupTable
    BY <2>3 DEF BackupTable, Put, LoadTypeOK, Copy
  <2>4. CASE DropTable
    BY <2>4 DEF DropTable, Put, LoadTypeOK, Copy
  <2>5. CASE \/ StartBackup \/ StartApply \/ StartDryRun \/ StartRollback
             \/ Require \/ Verify \/ Loaded \/ RollbackProved
    BY <2>5 DEF StartBackup, StartApply, StartDryRun, StartRollback, BeginCommand,
                Require, Verify, Loaded, RollbackProved, StartSweep
  <2>6. CASE \/ BackupEnds \/ ApplyEnds \/ DryRunEnds \/ RollbackEnds
             \/ Raise \/ Kill \/ Refuse
    BY <2>6 DEF BackupEnds, ApplyEnds, DryRunEnds, RollbackEnds, Raise, Kill, Refuse,
                End, StartSweep
  <2>7. QED
    BY <2>1, <2>2, <2>3, <2>4, <2>5, <2>6 DEF LoadNext
<1>2. QED
  BY LoadInvariance, <1>1, PTL DEF LoadSpec, LiveIsGuarded

-----------------------------------------------------------------------------
(* The scripts together.                                                   *)

\* Looking at one kind of script at a time is looking at behaviours of both: what is
\* proved of EstateSpec and of LoadSpec holds of the composition.
THEOREM ScriptsAreBoth == ScriptsSpec => EstateSpec /\ LoadSpec
<1>1. ScriptsInit => EstateInit /\ LoadInit
  BY DEF ScriptsInit
<1>2. [ScriptsNext]_scriptsVars => [EstateNext]_estateVars /\ [LoadNext]_loadVars
  BY DEF ScriptsNext, scriptsVars
<1>3. QED
  BY <1>1, <1>2, PTL DEF ScriptsSpec, EstateSpec, LoadSpec
=============================================================================
