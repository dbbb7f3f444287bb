------------------------------- MODULE Operations -------------------------------
(***************************************************************************)
(* What keeps the service running beside the API: deploys, the monitor,    *)
(* the script that replaces photos, and the backups.  They share nothing   *)
(* that is modelled: a behaviour moves one of them, `part', and the others *)
(* stay as they are at first.                                              *)
(***************************************************************************)
EXTENDS Naturals, Sequences, FiniteSets

CONSTANTS
  Starter, Script, Nobody, MaxFaults,                         \* of Deployment
  Market, MaxDeaths, MaxHidden,                               \* of SyntheticMonitor
  Product, Shared, Orphan, BatchSize,                         \* of PhotoSwap
  Recent, WeekLength, MonthLength, Weekly, Monthly, MaxTime   \* of Backups

VARIABLES
  part,
  starter, lock, run, index, ghost, rule, version, dirt, raced, faults,
  site, job, alerts, page, deaths,
  step, queue, call, token, log, taken, orphans, listed, confirm, count, trash, exit,
  script, now, stage, backup, folder, summed, made

ofDeploy == <<starter, lock, run, index, ghost, rule, version, dirt, raced, faults>>
ofMonitor == <<site, job, alerts, page, deaths>>
ofSwap ==
  <<step, queue, call, token, log, taken, orphans, listed, confirm, count, trash, exit>>
ofBackup == <<script, now, stage, backup, folder, summed, made>>
all == <<part, ofDeploy, ofMonitor, ofSwap, ofBackup>>

notDeploy == <<part, ofMonitor, ofSwap, ofBackup>>
notMonitor == <<part, ofDeploy, ofSwap, ofBackup>>
notSwap == <<part, ofDeploy, ofMonitor, ofBackup>>
notBackup == <<part, ofDeploy, ofMonitor, ofSwap>>

Deploy == INSTANCE Deployment

\* A revision is a sequence of statements, a deploy one of revisions.
ASSUME ScriptAssumption == Script \in Seq(Seq(Deploy!Statement))

\* A site has so many products, a bucket so many keys.
ASSUME SwapAssumption == IsFiniteSet(Product) /\ IsFiniteSet(Orphan)

ASSUME BackupAssumption ==
  /\ WeekLength \in Nat \ {0} /\ MonthLength \in Nat \ {0}
  /\ Recent \in Nat /\ Weekly \in Nat /\ Monthly \in Nat /\ MaxTime \in Nat

Monitor == INSTANCE SyntheticMonitor
Swap == INSTANCE PhotoSwap
Backup == INSTANCE Backups WITH step <- stage

\* The parts that wait have one initial state each.
InitAll ==
  /\ part \in {"deploy", "monitor", "swap", "backup"}
  /\ Deploy!Init /\ Monitor!Init /\ Swap!Init /\ Backup!Init
  /\ part # "deploy" => dirt = {}
  /\ part # "monitor" => site = [down |-> FALSE, enabled |-> FALSE, lacking |-> {}, broken |-> {}]
  /\ part # "swap" => orphans = <<>> /\ token.renewable
  /\ part # "backup" => script = "database"

OnDeploy(s) ==
  \/ part = "deploy" /\ Deploy!Start(s) /\ UNCHANGED notDeploy
  \/ part = "deploy" /\ Deploy!Acquire(s) /\ UNCHANGED notDeploy
  \/ part = "deploy" /\ Deploy!GiveUp(s) /\ UNCHANGED notDeploy
  \/ part = "deploy" /\ Deploy!Stop(s) /\ UNCHANGED notDeploy
  \/ part = "deploy" /\ Deploy!Kill(s) /\ UNCHANGED notDeploy
  \/ part = "deploy" /\ Deploy!RequireReady(s) /\ UNCHANGED notDeploy
  \/ part = "deploy" /\ Deploy!Version(s) /\ UNCHANGED notDeploy
  \/ part = "deploy" /\ Deploy!CommitBefore(s) /\ UNCHANGED notDeploy
  \/ part = "deploy" /\ Deploy!AddRule(s) /\ UNCHANGED notDeploy
  \/ part = "deploy" /\ Deploy!ValidateRule(s) /\ UNCHANGED notDeploy
  \/ part = "deploy" /\ Deploy!EnforceRule(s) /\ UNCHANGED notDeploy
  \/ part = "deploy" /\ Deploy!Look(s) /\ UNCHANGED notDeploy
  \/ part = "deploy" /\ Deploy!DropInvalid(s) /\ UNCHANGED notDeploy
  \/ part = "deploy" /\ Deploy!BeginIndex(s) /\ UNCHANGED notDeploy
  \/ part = "deploy" /\ Deploy!SkipIndex(s) /\ UNCHANGED notDeploy
  \/ part = "deploy" /\ Deploy!EndIndex(s) /\ UNCHANGED notDeploy
  \/ part = "deploy" /\ Deploy!Finish(s) /\ UNCHANGED notDeploy

OnServer(i) ==
  \/ part = "deploy" /\ Deploy!BeginGhost(i) /\ UNCHANGED notDeploy
  \/ part = "deploy" /\ Deploy!CheckIndex(i) /\ UNCHANGED notDeploy
  \/ part = "deploy" /\ Deploy!EndGhost(i) /\ UNCHANGED notDeploy

OnRows ==
  \/ part = "deploy" /\ Deploy!LoseLock /\ UNCHANGED notDeploy
  \/ \E d \in Deploy!Breakable : part = "deploy" /\ Deploy!BadRow(d) /\ UNCHANGED notDeploy
  \/ \E d \in Deploy!Breakable : part = "deploy" /\ Deploy!Correct(d) /\ UNCHANGED notDeploy

OnMonitor ==
  \/ part = "monitor" /\ Monitor!Schedule /\ UNCHANGED notMonitor
  \/ part = "monitor" /\ Monitor!Curl /\ UNCHANGED notMonitor
  \/ part = "monitor" /\ Monitor!CheckHealth /\ UNCHANGED notMonitor
  \/ \E m \in Market : part = "monitor" /\ Monitor!Probe(m) /\ UNCHANGED notMonitor
  \/ part = "monitor" /\ Monitor!Judge /\ UNCHANGED notMonitor
  \/ part = "monitor" /\ Monitor!Raise /\ UNCHANGED notMonitor
  \/ part = "monitor" /\ Monitor!Stumble /\ UNCHANGED notMonitor
  \/ part = "monitor" /\ Monitor!Recover /\ UNCHANGED notMonitor
  \/ part = "monitor" /\ Monitor!Close /\ UNCHANGED notMonitor
  \/ part = "monitor" /\ Monitor!EndRun /\ UNCHANGED notMonitor
  \/ part = "monitor" /\ Monitor!Die /\ UNCHANGED notMonitor
  \/ \E s \in Monitor!Site : part = "monitor" /\ Monitor!Turn(s) /\ UNCHANGED notMonitor
  \/ \E n \in 0..Len(alerts) : part = "monitor" /\ Monitor!Crowd(n) /\ UNCHANGED notMonitor

OnSwap ==
  \/ part = "swap" /\ Swap!Plan /\ UNCHANGED notSwap
  \/ part = "swap" /\ Swap!NotConnected /\ UNCHANGED notSwap
  \/ part = "swap" /\ Swap!Send /\ UNCHANGED notSwap
  \/ part = "swap" /\ Swap!Answered /\ UNCHANGED notSwap
  \/ part = "swap" /\ Swap!LoseAnswer /\ UNCHANGED notSwap
  \/ part = "swap" /\ Swap!Busy /\ UNCHANGED notSwap
  \/ part = "swap" /\ Swap!Refused /\ UNCHANGED notSwap
  \/ part = "swap" /\ Swap!Unauthorized /\ UNCHANGED notSwap
  \/ part = "swap" /\ Swap!Expire /\ UNCHANGED notSwap
  \/ part = "swap" /\ Swap!EndSwap /\ UNCHANGED notSwap
  \/ part = "swap" /\ Swap!Inventory /\ UNCHANGED notSwap
  \/ part = "swap" /\ Swap!Batch /\ UNCHANGED notSwap
  \/ part = "swap" /\ Swap!StopBatches /\ UNCHANGED notSwap
  \/ part = "swap" /\ Swap!Renew /\ UNCHANGED notSwap
  \/ part = "swap" /\ Swap!EndPurge /\ UNCHANGED notSwap
  \/ \E k \in Orphan : part = "swap" /\ Swap!Change(k) /\ UNCHANGED notSwap

OnBackup ==
  \/ part = "backup" /\ Backup!Tick /\ UNCHANGED notBackup
  \/ part = "backup" /\ Backup!Begin /\ UNCHANGED notBackup
  \/ part = "backup" /\ Backup!Dump /\ UNCHANGED notBackup
  \/ part = "backup" /\ Backup!Export /\ UNCHANGED notBackup
  \/ part = "backup" /\ Backup!Seal /\ UNCHANGED notBackup
  \/ part = "backup" /\ Backup!Move /\ UNCHANGED notBackup
  \/ part = "backup" /\ Backup!WriteChecksum /\ UNCHANGED notBackup
  \/ part = "backup" /\ Backup!Retain /\ UNCHANGED notBackup
  \/ part = "backup" /\ Backup!SkipRetention /\ UNCHANGED notBackup
  \/ part = "backup" /\ Backup!Stop /\ UNCHANGED notBackup

NextAny ==
  \/ \E s \in Starter : OnDeploy(s)
  \/ \E i \in DOMAIN index : OnServer(i)
  \/ OnRows \/ OnMonitor \/ OnSwap \/ OnBackup

Deploying(A) == part = "deploy" /\ A /\ UNCHANGED notDeploy
Monitoring(A) == part = "monitor" /\ A /\ UNCHANGED notMonitor

\* Fairness of Deployment and of SyntheticMonitor, where it is them that move.
SpecAll ==
  /\ InitAll /\ [][NextAny]_all
  /\ WF_all(Deploying(Deploy!Restart))
  /\ \A s \in Starter : WF_all(Deploying(Deploy!Acquire(s))) /\ WF_all(Deploying(Deploy!Upgrade(s)))
  /\ \A i \in Deploy!Touched \cap Deploy!Index : WF_all(Deploying(Deploy!Server(i)))
  /\ \A d \in Deploy!Breakable : WF_all(Deploying(Deploy!Correct(d)))
  /\ WF_all(Monitoring(Monitor!Schedule)) /\ WF_all(Monitoring(Monitor!Work))

\* Of Deployment, where it moves: the database reaches the head after any deploys
\* that failed, once no container waits for the lock while another one upgrades.
DeploysUpgrade == part = "deploy" => Deploy!UpgradeHappens

\* Of SyntheticMonitor: once the service stays healthy and the alerts on the first
\* page of open issues, every alert is closed, unless a run died between its
\* second comment and the closing.
AlertsClose == part = "monitor" => Monitor!AlertsClose

\* Of Deployment: what the recorded revision says was done is done.
VersionTellsTheTruth == Deploy!VersionTellsTheTruth

\* Of PhotoSwap: no photo is uploaded twice, and the log tells what was done.
LogTellsTheSite == Swap!LogTellsTheSite

\* Of PhotoSwap: a run that ends well moved every orphan it had listed.
ListedOrphansAreMoved == Swap!ListedOrphansAreMoved

\* Of Backups: the retention keeps the last backup of the newest weeks and months.
PeriodsKeepTheirLast == Backup!PeriodsKeepTheirLast

=============================================================================
