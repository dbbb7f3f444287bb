---------------------------- MODULE SyntheticMonitor ----------------------------
(***************************************************************************)
(* The monitor of production: a workflow that runs on a schedule, one run  *)
(* at a time, asks for the health of the service and, where it is enabled, *)
(* for what a canary account sees of each market.  A run that failed opens *)
(* an issue, or comments on it; two healthy runs close it.  The memory of  *)
(* the monitor is the comments of the issue.  What it finds of its issues  *)
(* is one page of the 100 newest open issues and pull requests.            *)
(***************************************************************************)
EXTENDS Naturals, Sequences, FiniteSets

LOCAL INSTANCE SequencesExt

CONSTANTS
  Market,     \* the markets of the canary
  MaxDeaths,  \* bound: runs that die, or fail for a reason of their own
  MaxHidden   \* bound: open alerts that are not on the page

VARIABLES
  site,       \* what the monitor looks at, and its own configuration
  job,        \* the run of the workflow
  alerts,     \* the open alerts, newest first: title and last marker
  page,       \* how many of them are on the page
  deaths

vars == <<site, job, alerts, page, deaths>>

-----------------------------------------------------------------------------

Title == {"outage", "config"}

\* down: /health fails; enabled: SYNTHETIC_COMMERCIAL_ENABLED; lacking: markets
\* without credentials; broken: markets where a request of the canary fails.
Site == [down : BOOLEAN, enabled : BOOLEAN, lacking : SUBSET Market, broken : SUBSET Market]
Good(s) == ~s.down /\ (s.enabled => s.lacking = {} /\ s.broken = {})

\* FAILURE_MARKER, RECOVERY_MARKER_1 and RECOVERY_MARKER_2
Marker == {"failure", "one", "two"}

Idle == [at |-> "idle"]
At(step) == job.at = step

Init ==
  /\ site \in {s \in Site : Good(s)}
  /\ job = Idle /\ alerts = <<>> /\ page = 0 /\ deaths = 0

TypeOK ==
  /\ site \in Site
  /\ job \in {Idle} \cup [at : {"curl", "health"}]
       \cup [at : {"probe", "alert"}, left : SUBSET Market, results : SUBSET {"config_error", "failed"}]
       \cup [at : {"recover", "close"}, next : Nat \ {0}, last : 0..Len(alerts)]
  /\ alerts \in Seq([title : Title, last : Marker])
  /\ page \in 0..Len(alerts) /\ deaths \in 0..MaxDeaths

-----------------------------------------------------------------------------
(* The workflow, up to the exit status of mode check *)

Schedule ==
  /\ At("idle")
  /\ job' = [at |-> "curl"]
  /\ UNCHANGED <<site, alerts, page, deaths>>

\* /health/live and /health/ready, with retries.
Curl ==
  /\ At("curl")
  /\ job' = IF site.down THEN [at |-> "alert", left |-> {}, results |-> {"failed"}]
                         ELSE [at |-> "health"]
  /\ UNCHANGED <<site, alerts, page, deaths>>

\* check_health
CheckHealth ==
  /\ At("health")
  /\ job' = [at |-> "probe", left |-> Market, results |-> IF site.down THEN {"failed"} ELSE {}]
  /\ UNCHANGED <<site, alerts, page, deaths>>

\* run_commercial_canary_probe: login, me, products, orders; the first that
\* fails is the result. Markets that are skipped are no failure.
Result(m) ==
  IF ~site.enabled THEN {}
  ELSE IF m \in site.lacking THEN {"config_error"}
  ELSE IF m \in site.broken THEN {"failed"} ELSE {}

Probe(m) ==
  /\ At("probe") /\ m \in job.left
  /\ job' = [job EXCEPT !.left = @ \ {m}, !.results = @ \cup Result(m)]
  /\ UNCHANGED <<site, alerts, page, deaths>>

\* The exit status of main, and the list of open issues if it was 0.
Judge ==
  /\ At("probe") /\ job.left = {}
  /\ job' = IF job.results = {} THEN [at |-> "recover", next |-> 1, last |-> page]
                                ELSE [job EXCEPT !.at = "alert"]
  /\ UNCHANGED <<site, alerts, page, deaths>>

\* A step that has nothing to do with the site fails: the checkout, Python, the
\* network of the runner. There is no result to read.
Stumble ==
  /\ job.at \in {"curl", "health", "probe"} /\ deaths < MaxDeaths
  /\ job' = [at |-> "alert", left |-> {}, results |-> {"failed"}]
  /\ deaths' = deaths + 1
  /\ UNCHANGED <<site, alerts, page>>

-----------------------------------------------------------------------------
(* if: failure() *)

\* One alert per run: an invalid configuration hides a failure. It is a comment
\* on the newest alert of that title, if the page has one.
Raise ==
  /\ At("alert")
  /\ LET t == IF "config_error" \in job.results THEN "config" ELSE "outage"
         found == {k \in 1..page : alerts[k].title = t}
     IN  \/ /\ found = {}
            /\ alerts' = <<[title |-> t, last |-> "failure"]>> \o alerts
            /\ page' = page + 1
         \/ /\ \E k \in found : /\ \A l \in found : k <= l
                                /\ alerts' = [alerts EXCEPT ![k].last = "failure"]
            /\ UNCHANGED page
  /\ job' = Idle
  /\ UNCHANGED <<site, deaths>>

-----------------------------------------------------------------------------
(* if: success() *)

\* Faulty variant: the first recovery is noted again and again.
NotedOnce(marker) == "one"

\* evaluate_recovery_transition
Noted(marker) == IF marker = "failure" THEN "one" ELSE "two"

\* The comment comes first; an alert with both recoveries is left alone.
Recover ==
  /\ At("recover") /\ job.next <= job.last
  /\ LET was == alerts[job.next].last IN
     /\ alerts' = [alerts EXCEPT ![job.next].last = Noted(was)]
     /\ job' = IF was # "two" /\ Noted(was) = "two" THEN [job EXCEPT !.at = "close"]
                                                  ELSE [job EXCEPT !.next = @ + 1]
  /\ UNCHANGED <<site, page, deaths>>

Close ==
  /\ At("close")
  /\ alerts' = RemoveAt(alerts, job.next)
  /\ page' = IF job.next <= page THEN page - 1 ELSE page
  /\ job' = [at |-> "recover", next |-> job.next, last |-> job.last - 1]
  /\ UNCHANGED <<site, deaths>>

EndRun ==
  /\ At("recover") /\ job.next > job.last
  /\ job' = Idle
  /\ UNCHANGED <<site, alerts, page, deaths>>

-----------------------------------------------------------------------------

\* timeout-minutes, a runner that is lost, or a call to GitHub that fails.
Die ==
  /\ job # Idle /\ deaths < MaxDeaths
  /\ job' = Idle /\ deaths' = deaths + 1
  /\ UNCHANGED <<site, alerts, page>>

Turn(s) ==
  /\ site' = s /\ s # site
  /\ UNCHANGED <<job, alerts, page, deaths>>

\* Other issues and pull requests are opened and closed.
Crowd(n) ==
  /\ page' = n /\ n # page /\ Len(alerts) - n <= MaxHidden
  /\ UNCHANGED <<site, job, alerts, deaths>>

Work ==
  \/ Curl \/ CheckHealth \/ (\E m \in Market : Probe(m)) \/ Judge \/ Raise
  \/ Recover \/ Close \/ EndRun

Next ==
  \/ Schedule \/ Work \/ Stumble \/ Die
  \/ \E s \in Site : Turn(s)
  \/ \E n \in 0..Len(alerts) : Crowd(n)

Spec == Init /\ [][Next]_vars

\* The schedule goes on, and a run comes to its end.
FairSpec == Spec /\ WF_vars(Schedule) /\ WF_vars(Work)

-----------------------------------------------------------------------------

\* Once the service stays healthy, and the alerts on the first page, every alert
\* is closed, unless a run died between the comment of the second recovery and
\* the closing: no later run closes that one.
AlertsClose ==
  <>[](Good(site) /\ page = Len(alerts)) => <>[](\A k \in DOMAIN alerts : alerts[k].last = "two")

=============================================================================
