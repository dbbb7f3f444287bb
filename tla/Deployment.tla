------------------------------ MODULE Deployment -------------------------------
(***************************************************************************)
(* A deploy: containers that run startup.py take an advisory lock, run     *)
(* `alembic upgrade head' in a process of its own, and are killed, time    *)
(* out or lose their connection meanwhile.  The revisions modelled are     *)
(* those of Revisions, the data of which the servers of the last release   *)
(* still write.                                                            *)
(* A statement goes on in PostgreSQL after the process that sent it died.  *)
(***************************************************************************)
EXTENDS Revisions, FiniteSets

CONSTANTS
  Starter,     \* containers that can be starting at once
  Script,      \* the revisions of this deploy, in order
  Nobody,      \* no Starter
  MaxFaults    \* bound: kills, lost connections and bad rows, together

VARIABLES
  starter,     \* "off", "waiting" for the lock, "upgrading" or "done", each container
  lock,        \* the container whose connection holds the advisory lock
  run,         \* the alembic process of each container
  index,       \* each index: what it is, who is building it, whose snapshots it waits for
  ghost,       \* indexes with a CREATE that waits, of a process that died
  rule,        \* each check or foreign key: "none", "added" (NOT VALID) or "valid"
  version,     \* how many revisions of Script alembic_version stands for
  dirt,        \* the rules that some rows break
  raced,       \* indexes that two upgrades at once may have spoiled
  faults

vars == <<starter, lock, run, index, ghost, rule, version, dirt, raced, faults>>
data == <<index, ghost, rule, version, dirt, raced>>

-----------------------------------------------------------------------------

Newest == Len(Script)

Idle == [at |-> 0]
Running(s) == run[s] # Idle
Reads(s) == Running(s) /\ run[s].rev <= Newest /\ run[s].at <= Len(Script[run[s].rev])
Does(s, what) == Reads(s) /\ Script[run[s].rev][run[s].at].do = what
On(s) == Script[run[s].rev][run[s].at].on

Missing == [is |-> "none", by |-> Nobody, behind |-> {}]
Left(is) == [is |-> is, by |-> Nobody, behind |-> {}]
Built(i) == index[i].is \in {"building", "checking"}

\* What the upgrade is about, among the revisions of Script.
Touched == UNION {{Script[v][k].on : k \in {n \in DOMAIN Script[v] :
                                           Script[v][n].do \in {"create", "add", "validate", "enforce"}}}
                  : v \in 1..Newest}
Breakable == Touched \cap (Rule \cup Unique)

Init ==
  /\ starter = [s \in Starter |-> "off"] /\ lock = Nobody
  /\ run = [s \in Starter |-> Idle]
  /\ index = [i \in Touched \cap Index |-> Missing] /\ ghost = {}
  /\ rule = [c \in Touched \cap Rule |-> "none"]
  /\ version = 0 /\ raced = {} /\ faults = 0
  /\ dirt \in {{}} \cup {{d} : d \in Breakable}

TypeOK ==
  /\ starter \in [Starter -> {"off", "waiting", "upgrading", "done"}]
  /\ lock \in Starter \cup {Nobody}
  /\ \A s \in Starter : Running(s) =>
       run[s] \in [rev : 1..Newest + 1, at : Nat \ {0}, saw : {"unseen", "none", "invalid", "fine"},
                   held : SUBSET Rule, stamps : 0..Newest]
  /\ \A i \in DOMAIN index :
       index[i] \in [is : {"none", "building", "checking", "invalid", "valid"},
                     by : Starter \cup {Nobody}, behind : SUBSET Starter]
  /\ ghost \subseteq Index /\ raced \subseteq Index /\ dirt \subseteq Breakable
  /\ \A c \in DOMAIN rule : rule[c] \in {"none", "added", "valid"}
  /\ version \in 0..Newest /\ faults \in 0..MaxFaults

-----------------------------------------------------------------------------
(* startup.py: prepare_database *)

Waiting == {s \in Starter : starter[s] = "waiting"}

\* A connection in AUTOCOMMIT keeps no snapshot once its statement is over, and
\* SELECT pg_advisory_lock is over when the lock is taken.
\* Faulty variant: the connection is left idle in a transaction.
SnapshotsOfAll == {s \in Starter : starter[s] \in {"waiting", "upgrading"}}

Snapshots == Waiting

Start(s) ==
  /\ starter[s] = "off"
  /\ starter' = [starter EXCEPT ![s] = "waiting"]
  /\ UNCHANGED <<lock, run, data, faults>>

\* The statement of s that waited is over: who waits for its snapshot is freed.
Frees(s) == index' = [i \in DOMAIN index |-> [index[i] EXCEPT !.behind = @ \ {s}]]

\* The lock, and `alembic upgrade head', which reads where it is.
Acquire(s) ==
  /\ starter[s] = "waiting" /\ lock = Nobody
  /\ lock' = s /\ starter' = [starter EXCEPT ![s] = "upgrading"]
  /\ run' = [run EXCEPT ![s] = [rev |-> version + 1, at |-> 1, saw |-> "unseen", held |-> {},
                                stamps |-> 0]]
  /\ Frees(s)
  /\ UNCHANGED <<ghost, rule, version, dirt, raced, faults>>

\* STARTUP_DB_LOCK_TIMEOUT_SECONDS without the lock.
GiveUp(s) ==
  /\ starter[s] = "waiting" /\ lock # Nobody
  /\ starter' = [starter EXCEPT ![s] = "off"]
  /\ Frees(s)
  /\ UNCHANGED <<lock, run, ghost, rule, version, dirt, raced, faults>>

\* A container that has not got the lock yet is stopped.
Stop(s) ==
  /\ starter[s] = "waiting" /\ faults < MaxFaults
  /\ starter' = [starter EXCEPT ![s] = "off"] /\ faults' = faults + 1
  /\ Frees(s)
  /\ UNCHANGED <<lock, run, ghost, rule, version, dirt, raced>>

\* The process ends, its transaction is rolled back and the lock is let go.
Leaves(s, as) ==
  /\ starter' = [starter EXCEPT ![s] = as]
  /\ run' = [run EXCEPT ![s] = Idle]
  /\ lock' = IF lock = s THEN Nobody ELSE lock

\* Alembic commits. The unlock that follows fails if the connection was lost,
\* and with it the container.
Finish(s) ==
  /\ Running(s) /\ run[s].rev = Newest + 1
  /\ version' = version + run[s].stamps
  /\ rule' = [c \in DOMAIN rule |-> IF c \in run[s].held THEN "valid" ELSE rule[c]]
  /\ Leaves(s, IF lock = s THEN "done" ELSE "off")
  /\ UNCHANGED <<index, ghost, dirt, raced, faults>>

\* STARTUP_MIGRATION_TIMEOUT_SECONDS, or the container is killed. What its
\* statement was doing goes on.
Kill(s) ==
  /\ Running(s) /\ faults < MaxFaults
  /\ faults' = faults + 1
  /\ Leaves(s, "off")
  /\ index' = [i \in DOMAIN index |-> IF index[i].by = s THEN [index[i] EXCEPT !.by = Nobody] ELSE index[i]]
  /\ ghost' = ghost \cup {i \in DOMAIN index : Does(s, "create") /\ i = On(s) /\ index[i].by # s}
  /\ UNCHANGED <<rule, version, dirt, raced>>

\* The connection of the lock is lost, and alembic goes on.
LoseLock ==
  /\ lock # Nobody /\ faults < MaxFaults
  /\ lock' = Nobody /\ faults' = faults + 1
  /\ UNCHANGED <<starter, run, data>>

-----------------------------------------------------------------------------
(* alembic: one statement of the script after the other *)

Advance(s) == run' = [run EXCEPT ![s].at = @ + 1, ![s].saw = "unseen"]

\* The upgrade raises: check=True makes the container end as well.
Fails(s) ==
  /\ Leaves(s, "off")
  /\ UNCHANGED <<data, faults>>

RequireReady(s) ==
  /\ Does(s, "require")
  /\ IF dirt \cap On(s) = {}
     THEN Advance(s) /\ UNCHANGED <<starter, lock, data, faults>>
     ELSE Fails(s)

\* UPDATE alembic_version, from the revision before to this one.  Another upgrade
\* that changed it, and has not committed, is waited for.
Version(s) ==
  /\ Running(s) /\ run[s].rev <= Newest /\ ~Reads(s)
  /\ \A t \in Starter \ {s} : Running(t) => run[t].stamps = 0
  /\ IF version + run[s].stamps + 1 = run[s].rev
     THEN /\ run' = [run EXCEPT ![s].rev = @ + 1, ![s].at = 1, ![s].stamps = @ + 1]
          /\ UNCHANGED <<starter, lock, data, faults>>
     ELSE Fails(s)

CommitBefore(s) ==
  /\ Does(s, "commit")
  /\ version' = version + run[s].stamps
  /\ rule' = [c \in DOMAIN rule |-> IF c \in run[s].held THEN "valid" ELSE rule[c]]
  /\ run' = [run EXCEPT ![s].at = @ + 1, ![s].stamps = 0, ![s].held = {}]
  /\ UNCHANGED <<starter, lock, index, ghost, dirt, raced, faults>>

AddRule(s) ==
  /\ Does(s, "add")
  /\ rule' = IF rule[On(s)] = "none" THEN [rule EXCEPT ![On(s)] = "added"] ELSE rule
  /\ Advance(s)
  /\ UNCHANGED <<starter, lock, index, ghost, version, dirt, raced, faults>>

ValidateRule(s) ==
  /\ Does(s, "validate")
  /\ IF On(s) \in dirt THEN Fails(s)
     ELSE /\ rule' = [rule EXCEPT ![On(s)] = "valid"]
          /\ Advance(s)
          /\ UNCHANGED <<starter, lock, index, ghost, version, dirt, raced, faults>>

\* ALTER TABLE keeps the table from other upgrades, and from writers, until the
\* transaction ends.
EnforceRule(s) ==
  /\ Does(s, "enforce")
  /\ \A t \in Starter \ {s} : Running(t) => On(s) \notin run[t].held
  /\ IF On(s) \in dirt THEN Fails(s)
     ELSE /\ run' = [run EXCEPT ![s].at = @ + 1, ![s].held = @ \cup {On(s)}]
          /\ UNCHANGED <<starter, lock, data, faults>>

\* pg_index.indisvalid
Look(s) ==
  /\ Does(s, "look") /\ run[s].saw = "unseen"
  /\ LET is == index[On(s)].is
         saw == IF is = "none" THEN "none" ELSE IF is = "valid" THEN "fine" ELSE "invalid"
     IN  run' = [run EXCEPT ![s].saw = saw, ![s].at = IF saw = "invalid" THEN @ ELSE @ + 1]
  /\ UNCHANGED <<starter, lock, data, faults>>

\* Faulty variant: IF NOT EXISTS is trusted to see to it.
KeepInvalid(s) ==
  /\ Does(s, "look") /\ run[s].saw = "invalid"
  /\ run' = [run EXCEPT ![s].at = @ + 1]
  /\ UNCHANGED <<starter, lock, data, faults>>

\* DROP INDEX CONCURRENTLY IF EXISTS waits for whoever builds the index, which
\* may be a good one by then.
DropInvalid(s) ==
  /\ Does(s, "look") /\ run[s].saw = "invalid" /\ ~Built(On(s))
  /\ index' = [index EXCEPT ![On(s)] = Missing]
  /\ raced' = IF index[On(s)].is = "valid" THEN raced \cup {On(s)} ELSE raced
  /\ run' = [run EXCEPT ![s].at = @ + 1, ![s].saw = "none"]
  /\ UNCHANGED <<starter, lock, ghost, rule, version, dirt, faults>>

\* CREATE INDEX CONCURRENTLY IF NOT EXISTS
BeginIndex(s) ==
  /\ Does(s, "create") /\ ~Built(On(s)) /\ index[On(s)].is = "none"
  /\ index' = [index EXCEPT ![On(s)] = [is |-> "building", by |-> s, behind |-> {}]]
  /\ UNCHANGED <<starter, lock, run, ghost, rule, version, dirt, raced, faults>>

\* One that came about since Look is taken as it is.
SkipIndex(s) ==
  /\ Does(s, "create") /\ index[On(s)].is \in {"valid", "invalid"}
  /\ raced' = IF index[On(s)].is = "invalid" /\ run[s].saw # "invalid"
              THEN raced \cup {On(s)} ELSE raced
  /\ Advance(s)
  /\ UNCHANGED <<starter, lock, index, ghost, rule, version, dirt, faults>>

\* The statement of a dead process has its turn.
BeginGhost(i) ==
  /\ i \in ghost /\ ~Built(i)
  /\ ghost' = ghost \ {i}
  /\ index' = IF index[i].is = "none"
              THEN [index EXCEPT ![i] = [is |-> "building", by |-> Nobody, behind |-> {}]]
              ELSE index
  /\ UNCHANGED <<starter, lock, run, rule, version, dirt, raced, faults>>

\* The index is built; whoever has an older snapshot is to end first.
CheckIndex(i) ==
  /\ index[i].is = "building"
  /\ index' = [index EXCEPT ![i].is = "checking", ![i].behind = Snapshots]
  /\ UNCHANGED <<starter, lock, run, ghost, rule, version, dirt, raced, faults>>

Outcome(i) == IF i \in Unique \cap dirt THEN "invalid" ELSE "valid"

EndIndex(s) ==
  /\ Does(s, "create") /\ index[On(s)].by = s
  /\ index[On(s)].is = "checking" /\ index[On(s)].behind = {}
  /\ index' = [index EXCEPT ![On(s)] = Left(Outcome(On(s)))]
  /\ IF Outcome(On(s)) = "valid" THEN Advance(s) /\ UNCHANGED <<starter, lock>> ELSE Leaves(s, "off")
  /\ UNCHANGED <<ghost, rule, version, dirt, raced, faults>>

\* PostgreSQL may also have noticed that nobody waits for the answer.
EndGhost(i) ==
  /\ Built(i) /\ index[i].by = Nobody
  /\ \/ index[i].is = "checking" /\ index[i].behind = {} /\ index' = [index EXCEPT ![i] = Left(Outcome(i))]
     \/ index' = [index EXCEPT ![i] = Left("invalid")]
  /\ UNCHANGED <<starter, lock, run, ghost, rule, version, dirt, raced, faults>>

-----------------------------------------------------------------------------
(* The rows, which the servers of the last release write and an operator puts right *)

Guarded(d) ==
  \/ d \in Unique /\ index[d].is = "valid"
  \/ d \in Rule /\ (rule[d] # "none" \/ \E s \in Starter : Running(s) /\ d \in run[s].held)

BadRow(d) ==
  /\ d \in Breakable \ dirt /\ ~Guarded(d) /\ faults < MaxFaults
  /\ dirt' = dirt \cup {d} /\ faults' = faults + 1
  /\ UNCHANGED <<starter, lock, run, index, ghost, rule, version, raced>>

Correct(d) ==
  /\ dirt' = dirt \ {d} /\ d \in dirt
  /\ UNCHANGED <<starter, lock, run, index, ghost, rule, version, raced, faults>>

-----------------------------------------------------------------------------

Upgrade(s) ==
  \/ RequireReady(s) \/ Version(s) \/ CommitBefore(s)
  \/ AddRule(s) \/ ValidateRule(s) \/ EnforceRule(s)
  \/ Look(s) \/ DropInvalid(s) \/ BeginIndex(s) \/ SkipIndex(s) \/ EndIndex(s)
  \/ Finish(s)

Server(i) == BeginGhost(i) \/ CheckIndex(i) \/ EndGhost(i)

Next ==
  \/ \E s \in Starter : Start(s) \/ Acquire(s) \/ GiveUp(s) \/ Stop(s) \/ Kill(s) \/ Upgrade(s)
  \/ LoseLock
  \/ \E i \in DOMAIN index : Server(i)
  \/ \E d \in Breakable : BadRow(d) \/ Correct(d)

Spec == Init /\ [][Next]_vars

\* The platform starts another container when none is at it, statements go on,
\* and the operator, whom the upgrade told what is wrong, corrects the rows.
Restart == (\A t \in Starter : starter[t] \in {"off", "done"}) /\ \E s \in Starter : Start(s)

Fairness ==
  /\ WF_vars(Restart)
  /\ \A s \in Starter : WF_vars(Acquire(s)) /\ WF_vars(Upgrade(s))
  /\ \A i \in Touched \cap Index : WF_vars(Server(i))
  /\ \A d \in Breakable : WF_vars(Correct(d))

FairSpec == Spec /\ Fairness

-----------------------------------------------------------------------------

\* What alembic_version says was done is done, after any deploys that failed
\* half-way: the rules are valid and no row breaks them, the indexes are there
\* and valid. Only an upgrade that met another one at work on an index, which
\* takes a lost lock or the statement of a killed one, may have left it.
VersionTellsTheTruth ==
  \A v \in 1..version : \A k \in DOMAIN Script[v] :
    LET step == Script[v][k]
    IN  /\ step.do \in {"validate", "enforce"} => rule[step.on] = "valid" /\ step.on \notin dirt
        /\ step.do = "create" =>
             step.on \in raced \/ (index[step.on].is = "valid" /\ step.on \notin dirt)

\* The database reaches the head, whatever failed before, once no container waits
\* for the lock while another one upgrades: CREATE INDEX CONCURRENTLY waits for
\* the snapshot of one that does.
UpgradeHappens ==
  <>[](Waiting = {} \/ \A s \in Starter : ~Running(s)) => <>(version = Newest)

=============================================================================
