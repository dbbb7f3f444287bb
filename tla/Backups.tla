-------------------------------- MODULE Backups --------------------------------
(***************************************************************************)
(* The two scripts that back the system up, ops/backup_database.py and     *)
(* backup_site.py: each makes its file in a local folder, seals it, moves  *)
(* it to the folder of the backups, writes its checksum there and applies  *)
(* a retention by days, weeks and months.  A run fails at any step or is   *)
(* killed.  They share nothing, and a behaviour follows one of them.       *)
(*                                                                         *)
(* A backup is the time it was begun at, counted in runs that could have   *)
(* been made.  Its contents are left out: a site backup some of whose      *)
(* exports failed is moved and counts like any other.                      *)
(***************************************************************************)
EXTENDS Naturals, FiniteSets

CONSTANTS
  Recent,       \* how long every backup is kept: 7 days
  WeekLength,
  MonthLength,  \* no multiple of a week
  Weekly,       \* 4: weeks of which one backup is kept
  Monthly,      \* 6: months
  MaxTime       \* bound of the clock

VARIABLES
  script,       \* which of the two: "database" or "site"
  now,          \* the clock
  step,         \* of the run under way
  backup,       \* the one it makes
  folder,       \* the backups in the folder
  summed,       \* those with a checksum
  made          \* every backup that was ever moved there

vars == <<script, now, step, backup, folder, summed, made>>
shelf == <<folder, summed, made>>

-----------------------------------------------------------------------------

Time == 0..MaxTime

Init ==
  /\ script \in {"database", "site"}
  /\ now = 0 /\ step = "idle" /\ backup = 0
  /\ folder = {} /\ summed = {} /\ made = {}

TypeOK ==
  /\ script \in {"database", "site"}
  /\ now \in Time /\ backup \in Time
  /\ step \in {"idle", "make", "seal", "move", "sum", "retain"}
  /\ summed \subseteq folder /\ folder \subseteq made /\ made \subseteq Time

-----------------------------------------------------------------------------

Tick == now < MaxTime /\ now' = now + 1 /\ UNCHANGED <<script, step, backup, shelf>>

Goes(from, to) == step = from /\ step' = to /\ UNCHANGED <<script, now>>

\* The name of the file has the second in it.
Begin == Goes("idle", "make") /\ now \notin made /\ backup' = now /\ UNCHANGED shelf

\* create_dump and verify_catalog
Dump == script = "database" /\ Goes("make", "seal") /\ UNCHANGED <<backup, shelf>>

\* get_all and download: what fails is noted in the manifest.
Export == script = "site" /\ Goes("make", "seal") /\ UNCHANGED <<backup, shelf>>

\* encrypt, encrypt_zip: with a password, or where none is called for.
Seal == Goes("seal", "move") /\ UNCHANGED <<backup, shelf>>

Move ==
  /\ Goes("move", "sum")
  /\ folder' = folder \cup {backup} /\ made' = made \cup {backup}
  /\ UNCHANGED <<backup, summed>>

WriteChecksum ==
  /\ Goes("sum", "retain")
  /\ summed' = summed \cup {backup}
  /\ UNCHANGED <<backup, folder, made>>

Week == [t \in Time |-> t \div WeekLength]
Month == [t \in Time |-> t \div MonthLength]

\* Faulty variant: the candidates are taken from the oldest on.
FirstOldest(S, n, period) ==
  {b \in S : /\ \A c \in S : c < b => period[c] # period[b]
             /\ Cardinality({period[c] : c \in {x \in S : period[x] < period[b]}}) < n}

\* From the newest on, the first of each of n periods.
FirstOfEach(S, n, period) ==
  {b \in S : /\ \A c \in S : c > b => period[c] # period[b]
             /\ Cardinality({period[c] : c \in {x \in S : period[x] > period[b]}}) < n}

Keep(S) ==
  {b \in S : b + Recent >= now} \cup FirstOfEach(S, Weekly, Week) \cup FirstOfEach(S, Monthly, Month)

\* apply_gfs_retention, apply_retention: a file that cannot be removed ends it,
\* from the newest on.
Retain ==
  /\ Goes("retain", "idle")
  /\ \E t \in {0} \cup {b + 1 : b \in folder \ Keep(folder)} :
       LET gone == {b \in folder \ Keep(folder) : b >= t}
       IN  folder' = folder \ gone /\ summed' = summed \ gone
  /\ UNCHANGED <<backup, made>>

\* --no-retention
SkipRetention == script = "database" /\ Goes("retain", "idle") /\ UNCHANGED <<backup, shelf>>

\* A step fails, or the process is killed: what was moved stays.
Stop ==
  /\ step # "idle" /\ step' = "idle"
  /\ UNCHANGED <<script, now, backup, shelf>>

Next ==
  \/ Tick \/ Begin \/ Dump \/ Export \/ Seal \/ Move \/ WriteChecksum
  \/ Retain \/ SkipRetention \/ Stop

Spec == Init /\ [][Next]_vars

-----------------------------------------------------------------------------

\* Whatever runs failed on the way, every backup of the last days is there, and
\* the last one of each of the newest weeks and months in which one was made:
\* what an earlier retention removed is never the one that a later one needs.
PeriodsKeepTheirLast ==
  \A b \in made :
    LET later == {c \in made : c > b}
        LastOf(n, period) ==
          /\ period[b] \notin {period[c] : c \in later}
          /\ Cardinality({period[c] : c \in later}) < n
    IN  b + Recent >= now \/ LastOf(Weekly, Week) \/ LastOf(Monthly, Month) => b \in folder

=============================================================================
