------------------------------ MODULE DataLoad ------------------------------
(***************************************************************************)
(* The tables that the data pipeline rewrites, and the four commands that  *)
(* change them: backup.py, run_all.py --apply, run_all.py --dry-run and    *)
(* load.py --rollback. Each goes through the tables one BigQuery job at a  *)
(* time; a job may fail, and a command may be interrupted or killed        *)
(* between two of them. One command runs at a time.                        *)
(***************************************************************************)
EXTENDS Naturals, Sequences

CONSTANTS Table,      \* the tables that are rewritten
          Rewrite,    \* REWRITE_TABLES: the order in which they are backed up
          LoadOrder,  \* LOAD_ORDER: the order of everything else
          NumRows,    \* num_rows of the profile
          GenRows,    \* rows that the generators make
          MaxCommands  \* bound: commands given

ASSUME OrderAssumption ==
    /\ Rewrite \in Seq(Table) /\ {Rewrite[i] : i \in 1..Len(Rewrite)} = Table
    /\ LoadOrder \in Seq(Table) /\ {LoadOrder[i] : i \in 1..Len(LoadOrder)} = Table
    /\ LoadOrder # <<>>
ASSUME RowsAssumption == NumRows \in [Table -> Nat \ {0}] /\ GenRows \in [Table -> Nat]
ASSUME CommandsAssumption == MaxCommands \in Nat

VARIABLES data,     \* what the live table, its backup and its staging copy hold
          command,  \* the command that runs, or ran last
          job,      \* the job it is about to run
          tables,   \* the tables of its loop still to do, the current one first
          checked,  \* checks: the tables it has verified
          wrong,    \* those that failed; for backup.py, the ERROR results
          ending,   \* how it ends, as far as it got
          commands, \* commands given so far
          blind     \* live tables truncated for a restore without an original (history)

loadVars == <<data, command, job, tables, checked, wrong, ending, commands, blind>>

Copy == {"live", "backup", "staging"}
\* "botched": rows that fail a check on count, schema, partitions or arrays.
Content == {"missing", "empty", "original", "generated", "botched"}

Jobs == {"copy", "require", "load", "verify", "truncate", "insert", "drop"}

\* The tables and the running command have the shape the code gives them; a live
\* table is there at all times, for property graphs are bound to it.
LoadTypeOK ==
    /\ data \in [Copy -> [Table -> Content]]
    /\ \A t \in Table : data["live"][t] # "missing"
    /\ command \in {"none", "backup", "apply", "dryrun", "rollback"}
    /\ job \in Jobs \cup {"idle"}
    /\ tables \in Seq(Table)
    /\ checked \subseteq Table /\ wrong \subseteq Table
    /\ ending \in {"well", "raised", "refused", "killed"}
    /\ commands \in 0..MaxCommands /\ blind \subseteq Table

LoadInit ==
    /\ data = [k \in Copy |-> [t \in Table |-> IF k = "live" THEN "original" ELSE "missing"]]
    /\ command = "none" /\ job = "idle" /\ tables = <<>>
    /\ checked = {} /\ wrong = {} /\ ending = "well"
    /\ commands = 0 /\ blind = {}

Rows(t, c) == CASE c = "original" -> NumRows[t]
                [] c \in {"generated", "botched"} -> GenRows[t]
                [] OTHER -> 0

ThisTable == Head(tables)
Put(k, c) == data' = [data EXCEPT ![k][ThisTable] = c]

-----------------------------------------------------------------------------
(* A command starts and ends.                                              *)

BeginCommand(name, first, work) ==
    /\ job = "idle" /\ commands < MaxCommands
    /\ command' = name /\ job' = first /\ tables' = work /\ commands' = commands + 1
    /\ checked' = {} /\ wrong' = {} /\ ending' = "well"
    /\ UNCHANGED <<data, blind>>

StartBackup == BeginCommand("backup", "copy", Rewrite)
StartApply == BeginCommand("apply", "require", LoadOrder)
StartDryRun == BeginCommand("dryrun", "require", LoadOrder)
StartRollback == BeginCommand("rollback", "truncate", LoadOrder)

\* The current job leads to another, on the tables in work.
GoOn(to, work) ==
    /\ job' = to /\ tables' = work
    /\ UNCHANGED <<command, ending, commands>>

End(how) ==
    /\ job' = "idle" /\ tables' = <<>> /\ ending' = how
    /\ UNCHANGED <<data, command, checked, wrong, commands, blind>>

SweepChecked == SelectSeq(LoadOrder, LAMBDA t : t \in checked)   \* a bug: what the checks name

\* The finally block of dry_run drops every staging table, loaded or not.
Sweep == LoadOrder

StartSweep(how) ==
    /\ job' = "drop" /\ tables' = Sweep /\ ending' = how
    /\ UNCHANGED <<data, command, checked, wrong, commands, blind>>

\* A job fails, or Ctrl-C: nothing but dry_run catches it.
Raise ==
    /\ job \in Jobs \ {"require", "drop"}
    /\ IF command = "dryrun" THEN StartSweep("raised") ELSE End("raised")

\* The process is killed, or an exception is raised in the finally block. What the
\* job has begun in BigQuery is over before another command is given.
Kill == job \in Jobs \ {"require"} /\ End("killed")

-----------------------------------------------------------------------------
(* backup.py.                                                              *)

BackupAnew(t) == data["live"][t]   \* a bug: CREATE OR REPLACE

\* An existing backup is left alone, whatever it holds. CTAS copies the rows.
BackupOf(t) == IF data["backup"][t] = "missing" THEN data["live"][t] ELSE data["backup"][t]

BackupTable ==
    /\ job = "copy" /\ tables # <<>>
    /\ Put("backup", BackupOf(ThisTable))
    /\ wrong' = IF Rows(ThisTable, BackupOf(ThisTable)) = NumRows[ThisTable] THEN wrong
                ELSE wrong \cup {ThisTable}
    /\ GoOn("copy", Tail(tables)) /\ UNCHANGED <<checked, blind>>

BackupEnds ==
    /\ job = "copy" /\ tables = <<>>
    /\ End(IF wrong = {} THEN "well" ELSE "raised")

-----------------------------------------------------------------------------
(* run_all.py: regenerate, then apply or dry_run.                          *)

BackedUpUnchecked == TRUE   \* a bug: _require_backups is not called
BackedUpByName == \A t \in Table : data["backup"][t] # "missing"   \* a bug: does not count

\* _require_backups, and the digests of the backups.
BackedUp == \A t \in Table : /\ data["backup"][t] # "missing"
                             /\ Rows(t, data["backup"][t]) = NumRows[t]

\* live_fingerprints reads every backup, and raises when there is none.
Fingerprinted == \A t \in Table : data["backup"][t] # "missing"

Require ==
    /\ job = "require"
    /\ IF command = "apply" THEN BackedUp ELSE Fingerprinted
    /\ GoOn("load", LoadOrder) /\ UNCHANGED <<data, checked, wrong, blind>>

\* One of them is wanting, or a generator fails before that is looked at.
Refuse == job = "require" /\ End("refused")

\* The copy that load_and_verify and restore_table are given.
Target == IF command = "dryrun" THEN "staging" ELSE "live"

\* bq load --replace swaps the contents as a whole.
LoadTable ==
    /\ job = "load" /\ tables # <<>>
    /\ \E c \in {"generated", "botched"} : Put(Target, c)
    /\ GoOn("verify", tables) /\ UNCHANGED <<checked, wrong, blind>>

PassesByRows(t) == Rows(t, data[Target][t]) = GenRows[t]   \* a bug: counts rows only

\* TableCheck.ok.
Passes(t) == data[Target][t] = "generated"

Verify ==
    /\ job = "verify"
    /\ checked' = checked \cup {ThisTable}
    /\ wrong' = IF Passes(ThisTable) THEN wrong ELSE wrong \cup {ThisTable}
    /\ GoOn("load", Tail(tables)) /\ UNCHANGED <<data, blind>>

ApplyEnds ==
    /\ command = "apply" /\ job = "load" /\ tables = <<>>
    /\ End(IF wrong = {} THEN "well" ELSE "raised")

\* dry_run goes on to prove_rollback, whose own TRUNCATE only does what that of
\* restore_table does after it.
Loaded ==
    /\ command = "dryrun" /\ job = "load" /\ tables = <<>>
    /\ IF wrong = {}
       THEN /\ GoOn("truncate", <<Head(LoadOrder)>>)
            /\ UNCHANGED <<data, checked, wrong, blind>>
       ELSE StartSweep("raised")

DropTable ==
    /\ job = "drop" /\ tables # <<>>
    /\ Put("staging", "missing")
    /\ GoOn("drop", Tail(tables)) /\ UNCHANGED <<checked, wrong, blind>>

DryRunEnds == job = "drop" /\ tables = <<>> /\ End(ending)

-----------------------------------------------------------------------------
(* restore_table: a script of two statements.                              *)

TruncateTable ==
    /\ job = "truncate" /\ tables # <<>>
    /\ Put(Target, "empty")
    /\ blind' = IF Target = "live" /\ data["backup"][ThisTable] # "original"
                THEN blind \cup {ThisTable} ELSE blind
    /\ GoOn("insert", tables) /\ UNCHANGED <<checked, wrong>>

\* Without a backup to select from, this statement fails after the other has run.
InsertRows ==
    /\ job = "insert" /\ data["backup"][ThisTable] # "missing"
    /\ Put(Target, data["backup"][ThisTable])
    /\ GoOn("truncate", Tail(tables)) /\ UNCHANGED <<checked, wrong, blind>>

RollbackEnds ==
    /\ command = "rollback" /\ job = "truncate" /\ tables = <<>>
    /\ End("well")

RollbackProved ==
    /\ command = "dryrun" /\ job = "truncate" /\ tables = <<>>
    /\ StartSweep("well")

LoadNext ==
    \/ StartBackup \/ StartApply \/ StartDryRun \/ StartRollback
    \/ BackupTable \/ BackupEnds
    \/ Require \/ Refuse \/ LoadTable \/ Verify \/ ApplyEnds \/ Loaded
    \/ DropTable \/ DryRunEnds
    \/ TruncateTable \/ InsertRows \/ RollbackEnds \/ RollbackProved
    \/ Raise \/ Kill

LoadSpec == LoadInit /\ [][LoadNext]_loadVars

-----------------------------------------------------------------------------
(* Properties.                                                             *)

\* A backup is trusted by its row count alone, and a regenerated table may have
\* as many rows as the original. No order of commands and failures puts anything
\* but original rows in a backup, unless the table had been emptied by a rollback
\* that had no backup to restore from.
BackupIsOriginal ==
    \A t \in Table :
        \/ data["backup"][t] \in {"missing", "original"}
        \/ data["backup"][t] = "empty" /\ t \in blind

\* The original rows of a table are always somewhere, but for the same case.
OriginalSurvives ==
    \A t \in Table :
        data["live"][t] = "original" \/ data["backup"][t] = "original" \/ t \in blind

\* The same of every command that is over, without the exception, which drop_table's
\* docstring says of every code path of load.py.
NoPathLosesOriginal ==
    job = "idle" =>
        \A t \in Table : data["live"][t] = "original" \/ data["backup"][t] = "original"

\* A command that ends without an error has done its work on every table, after
\* whatever half-done work it found.
CleanEndHolds ==
    job = "idle" /\ ending = "well" =>
        \A t \in Table :
            /\ command = "backup" => data["backup"][t] = "original"
            /\ command = "apply" => data["live"][t] = "generated"
            /\ command = "rollback" => data["live"][t] = "original" \/ t \in blind

\* A dry run that was not killed leaves no staging table, one that a load made
\* before a check raised included, nor one of an earlier dry run that was killed.
StagingIsSwept ==
    job = "idle" /\ command = "dryrun" /\ ending \in {"well", "raised"} =>
        \A t \in Table : data["staging"][t] = "missing"

\* The live tables change only by a rollback, or by an apply while the original
\* of every table, not only of the one that it replaces, is backed up.
LiveIsGuarded ==
    [][data["live"]' # data["live"] =>
           \/ command = "rollback"
           \/ command = "apply" /\ \A t \in Table : data["backup"][t] = "original"]_loadVars

-----------------------------------------------------------------------------
(* Why they hold: what is true of the tables a command is done with, and   *)
(* what is true of each table in between.                                  *)

TablesLeft == {tables[i] : i \in 1..Len(tables)}
EndedWell == job = "idle" /\ ending = "well"

\* Each command runs its own jobs, and apply only with every original backed up.
JobFits ==
    /\ job = "copy" => command = "backup"
    /\ job \in {"require", "load", "verify"} => command \in {"apply", "dryrun"}
    /\ job \in {"truncate", "insert"} => command \in {"rollback", "dryrun"}
    /\ job = "drop" => command = "dryrun"
    /\ job \in {"verify", "insert"} => tables # <<>>
    /\ job = "idle" => tables = <<>>
    /\ command = "apply" /\ job \in {"load", "verify"} =>
           \A t \in Table : data["backup"][t] = "original"

\* A live table is regenerated, or emptied, only where the original is backed up.
ReplacedIsBackedUp ==
    \A t \in Table :
        /\ data["live"][t] \in {"generated", "botched"} => data["backup"][t] = "original"
        /\ data["live"][t] = "empty" => data["backup"][t] = "original" \/ t \in blind

\* What a command has achieved for the tables that its loop is done with.
DoneSoFar ==
    /\ EndedWell /\ command \in {"backup", "apply"} => wrong = {}
    /\ \A t \in Table \ TablesLeft :
          /\ command = "backup" /\ (job = "copy" \/ EndedWell) =>
                 data["backup"][t] = "original" \/ t \in wrong
          /\ command = "apply" /\ (job \in {"load", "verify"} \/ EndedWell) =>
                 data["live"][t] = "generated" \/ t \in wrong
          /\ command = "rollback" /\ (job \in {"truncate", "insert"} \/ EndedWell) =>
                 data["live"][t] = "original" \/ t \in blind
          /\ (job = "drop" \/ (command = "dryrun" /\ job = "idle" /\ ending \in {"well", "raised"})) =>
                 data["staging"][t] = "missing"

LoadInv == LoadTypeOK /\ BackupIsOriginal /\ JobFits /\ ReplacedIsBackedUp /\ DoneSoFar
=============================================================================
