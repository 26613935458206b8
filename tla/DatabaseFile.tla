---------------------------- MODULE DatabaseFile ----------------------------
(***************************************************************************)
(* src/database.c: one database, its file and its write timer, across      *)
(* crashes.  The owner reads the file once at start and keeps the data in  *)
(* memory; database_write, called by the timer, by commands and by the     *)
(* owner's fini, writes a temporary file, removes the old file and renames *)
(* the temporary one.  The process may die between any two of these.       *)
(* A file that is missing or does not parse leaves the owner without data. *)
(*                                                                         *)
(* Data is counted in changes: n stands for the data after n changes.      *)
(***************************************************************************)
EXTENDS Integers

CONSTANTS
    MaxChange,    \* bound on changes
    MaxCrash      \* bound on crashes

ASSUME ConstantsAssumption ==
    /\ MaxChange \in Nat
    /\ MaxCrash \in Nat

None == -1   \* no such file
Part == -2   \* a file that ends early

VARIABLES
    pc,       \* "down", "idle", or the step database_write has reached
    mem,      \* the data in memory
    file,     \* the database file
    tmp,      \* the temporary file
    timer,    \* is the timer db_write_<name> armed
    saved,    \* the data of the last write that was logged as successful
    crashes,  \* how often the process has died
    mishaps   \* "gap": it died between remove and rename; "full": the disk cut a
              \* temporary file short; history only

vars == <<pc, mem, file, tmp, timer, saved, crashes, mishaps>>

Init ==
    /\ pc = "down"
    /\ mem = 0
    /\ file = None
    /\ tmp = None
    /\ timer = FALSE
    /\ saved = 0
    /\ crashes = 0
    /\ mishaps = {}

----------------------------------------------------------------------------
(* The owner: account_init, group_init and the modules' init.              *)

\* database_read calls read_func only if the whole file parsed.
database_read(f) == IF f \in {None, Part} THEN 0 ELSE f

\* database_create, database_read and database_set_write_interval.
Start ==
    /\ pc = "down"
    /\ pc' = "idle"
    /\ mem' = database_read(file)
    /\ timer' = TRUE
    /\ UNCHANGED <<file, tmp, saved, crashes, mishaps>>

Change ==
    /\ pc = "idle"
    /\ mem < MaxChange
    /\ mem' = mem + 1
    /\ UNCHANGED <<pc, file, tmp, timer, saved, crashes, mishaps>>

Crash ==
    /\ pc # "down"
    /\ crashes < MaxCrash
    /\ mishaps' = mishaps \cup (IF pc = "removed" THEN {"gap"} ELSE {})
    /\ pc' = "down"
    /\ timer' = FALSE
    /\ crashes' = crashes + 1
    /\ UNCHANGED <<mem, file, tmp, saved>>

----------------------------------------------------------------------------
(* database_write.                                                         *)

\* Mutant: the timer that fired is not set again before the write.
rearm_later(t) == FALSE

\* database_set_write_interval comes first, so a write that fails is tried again.
rearm(t) == TRUE

\* Mutant: the old file is removed before the new one is written.
open_removes(p) == p = "open"

removes(p) == p = "written"

\* Mutant: the database file itself is opened for writing.
open_in_place ==
    /\ file' = Part
    /\ UNCHANGED tmp

open_tmp ==
    /\ tmp' = Part
    /\ file' = IF removes("open") THEN None ELSE file

\* The timer or a caller; opening the temporary file may fail.
database_write ==
    /\ pc = "idle"
    /\ timer' = rearm(timer)
    /\ \/ open_tmp /\ pc' = "open"
       \/ UNCHANGED <<pc, file, tmp>>
    /\ UNCHANGED <<mem, saved, crashes, mishaps>>

database_timed_write == timer /\ database_write

\* write_func and fclose; errors of the disk are not looked at.
write_func ==
    /\ pc = "open"
    /\ \/ tmp' = mem /\ UNCHANGED mishaps
       \/ tmp' = Part /\ mishaps' = mishaps \cup {"full"}
    /\ pc' = "written"
    /\ UNCHANGED <<mem, file, timer, saved, crashes>>

\* write_func returned an error or left an object open: the temporary file is removed.
write_func_fails ==
    /\ pc = "open"
    /\ tmp' = None
    /\ pc' = "idle"
    /\ UNCHANGED <<mem, file, timer, saved, crashes, mishaps>>

remove_old ==
    /\ pc = "written"
    /\ file' = IF removes("written") THEN None ELSE file
    /\ pc' = "removed"
    /\ UNCHANGED <<mem, tmp, timer, saved, crashes, mishaps>>

\* rename, and "Database %s successfully written".
rename_tmp ==
    /\ pc = "removed"
    /\ file' = tmp
    /\ tmp' = None
    /\ saved' = mem
    /\ pc' = "idle"
    /\ UNCHANGED <<mem, timer, crashes, mishaps>>

----------------------------------------------------------------------------

Step == database_timed_write \/ write_func \/ remove_old \/ rename_tmp

Next == Start \/ Change \/ Crash \/ database_write \/ Step \/ write_func_fails

Spec == Init /\ [][Next]_vars

\* Timers fire and writes go on; a file that is opened and written again and again is opened and
\* written in the end.
Fairness ==
    /\ WF_vars(Start) /\ WF_vars(remove_old) /\ WF_vars(rename_tmp)
    /\ WF_vars(database_timed_write)
    /\ SF_vars(database_timed_write /\ pc' = "open")
    /\ SF_vars(write_func)

FairSpec == Spec /\ Fairness

----------------------------------------------------------------------------

\* Types of the step database_write is at, of both files and of the data in memory.
TypeOK ==
    /\ pc \in {"down", "idle", "open", "written", "removed"}
    /\ mem \in 0..MaxChange
    /\ file \in {None, Part} \cup 0..MaxChange
    /\ tmp \in {None, Part} \cup 0..MaxChange
    /\ timer \in BOOLEAN
    /\ saved \in 0..MaxChange
    /\ crashes \in 0..MaxCrash
    /\ mishaps \subseteq {"gap", "full"}

\* Whenever the process dies, the database file is absent or whole: a start never finds half of
\* one (which it would treat as no data and later write over), unless the disk was full.
FileIsWhole == "full" \notin mishaps => file # Part

\* A start after a crash brings back at least what the last successful write held.  After a crash
\* between remove and rename the file is missing and the data is lost to the program.
Durable == mishaps = {} /\ pc # "down" => mem >= saved

\* Changes in memory are written, or the process dies first, although writes may fail.
EveryChangeWritten == \A n \in 1..MaxChange : (mem = n /\ pc = "idle") ~> (saved >= n \/ pc = "down")
=============================================================================
