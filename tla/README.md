# A TLA+ model of Ilya

Ilya is an order-management system for a furniture maker that sells in two markets, Brazil
(BR) and Europe (EU): a FastAPI application over PostgreSQL (`src/backend`), a React front
end (`src/frontend`), workers that talk to an e-mail provider (Resend), to an integration
webhook and to the invoicing API of Moloni, and scripts that deploy, watch and back up the
service (`src/ops`, `src/backup_site.py`). This directory models the parts in which several
actors share state or in which a failure in the middle matters. `PROJECT.json` says, for
every definition, which lines of the source it stands for, and lists the hazards the
properties are for; this file says what the models mean, what is checked and what is proved.

Paths below are relative to `src/backend/app` where they start with `api/`, `core/`,
`models/`, `workers/` or `services/`, and to `src/` otherwise.

## 1. The system

Requests and workers are READ COMMITTED transactions over one database. Nothing is shared in
memory; what protects shared state are row locks (`FOR UPDATE`, with `SKIP LOCKED` in the
queues), unique and foreign keys, leases (a timestamp in the row), and a few advisory locks.
Whatever happens between two statements of one transaction, or between two transactions of
one request, interleaves with everything else: another handler's commit, a rendering, an HTTP
call, object storage. Many handlers lock nothing, load a row through SQLAlchemy, and write
back the columns they found different.

| Component | State | Operations | What is hard | What makes it correct |
|---|---|---|---|---|
| Order lifecycle (`api/routers/orders.py`) | orders with status, stage, contents, versions, the order superseded; number counters | create, copy, revise, edit, finalize, cancel, stage, delete | reads before locks; two counters and a client locked in turn; rival revisions | numbers never come back, revisions form chains, closed orders stay closed, stale copies can be told, no deadlock |
| Order e-mail queue (`workers/order_email_sender.py`, `services/order_email_*.py`, `api/routers/order_emails.py`, `resend_webhooks.py`) | document, delivery and event rows | queue, render, send, resend, test send, apply events | lost answers, keys that expire, events before the id they name, leases | accepted means a message exists; sent where allowed, with the stored PDF; the first terminal result stands; everything settles |
| Integration outbox (`services/integration_events.py`, `workers/webhook_sender.py`) | `integration_outbox` | enqueue, claim a batch, post, retry, dead-letter | a batch commits after its last post | at least once, nothing lost in silence |
| Order item attachments (`api/routers/order_item_attachments.py`) | rows; objects of a private bucket | upload, claim by a save, drop, clean up | row and object never change together | rows have objects, leftovers have a cause, saved files stay |
| Moloni export (`workers/moloni_sender.py`, `services/moloni_*.py`) | jobs, links to what exists at Moloni | enqueue, claim, deliver, retry | creation there is not idempotent, links commit late | a second document only where something was lost; jobs settle |
| Accounts and invitations (`api/routers/users.py`, `api/routers/auth.py`, `core/client_invites.py`, `core/platform.py`) | users, permissions, one-time links | invite, accept, stop, reactivate, delete | two administrators at once; acceptance beside a stop | an administrator remains; who was stopped stays out |
| Sessions (`api/routers/auth.py`, `models/refresh_token.py`, `api/deps.py`) | families of refresh tokens, `auth_version` | log in, rotate, replay, log out, switch market, change password, suspend | revocation beside renewal | one live token per family; what is revoked ends |
| Login protection (`core/login_protection.py`) | counters of wrong passwords | check, fail, clear, clean up | logins that overlap | guesses are rationed |
| Legal holds and retention (`core/legal_hold.py`, `api/routers/privacy.py`, `clients.py`, `reps.py`) | holds, reviews, personal columns | hold, release, review, approve, anonymise, delete, edit, import | check and act without a common lock | what is held is kept, anonymised is blank, approvals are informed |
| Terms of an order (`orders.py`, `reps.py`, `clients.py`, `api/catalog_access.py`) | list, lines, discounts, client, representative, catalogs | create, copy, revise, edit; ceilings, catalogs and relationships change | an edit keeps what today would be refused; catalogs change under an order | every discount was granted; what stayed where it was is the representative's to sell |
| VAT of European products (`api/routers/markets.py`, `orders.py`) | rows of `product_markets` | create, import, decide, approve a group, activate the market, invoice | columns merged over rows that changed meanwhile | an invoiced rate was approved |
| Fiscal catalogue (`api/routers/products.py`, `product_types.py`, `product_groups.py`, `import_csv.py`, `markets.py`) | groups, types, products, fiscal events, `source_version` | create, edit, import, remove; photos | every request works on what it loaded; events carry the start of a transaction | the trail explains the IPI billed; what the forms change raises the version |
| Optionals (`optionals.py`, `optional_categories.py`, `products.py`) | categories, optionals, slots | create, move, rename, delete, declare, finalize | a category is looked at, then changed | slots offer what is of their category |
| Product media (`core/media_orphans.py`, `core/uploads.py`) | photos of products and snapshots, buckets | upload, replace, remove, inventory, quarantine, restore, purge | lists and references read at different moments | a photo in use is there |
| Operations (`backend/startup.py`, `alembic`, `ops/synthetic_monitor.py`, `.github/workflows/production-health-monitor.yml`, `ops/trocar_fotos_eu.py`, `backup_site.py`) | revision and indexes; alerts; photos replaced; backups | start, migrate; probe, alert; swap; back up, retain | deploys that are killed, answers that are lost | the recorded revision is in force and the head is reached; alerts close; the log is true; each period keeps its last backup |

Sessions ask accounts whether an account is open; saves of an order claim attachments, and
finalizing one queues an e-mail document, a Moloni job and outbox events in its own
transaction; the queues then run alone. Dashboard, notifications, request guards, PDF
rendering and the front end are not modelled (section 7).

## 2. The modules

| Module | What it is |
|---|---|
| `OrderEmailQueue` | one action per transaction of the queue, the workers and the webhook; the provider is external |
| `OrderLifecycle` | orders, counters, what finalizing queues, and a consumer that copies orders by `source_version`; transactions take row locks one by one |
| `MoloniQueue` | jobs, leases, links inside the open transaction, and what Moloni was made to create |
| `WebhookOutbox`, `AtLeastOnce` | the outbox and its workers; what it promises its receiver, which it implements (`ImplementsAtLeastOnce`) |
| `OrderAttachments` | files as a row and an object, changed by requests step by step |
| `SideEffects` | what a request leaves outside its transaction: `WebhookOutbox` and `OrderAttachments` |
| `Accounts`, `RefreshSessions`, `LoginProtection` | accounts and invitations; the sessions of one account; the counters of wrong passwords |
| `Access` | the three of them |
| `Retention` | records and their personal columns, holds, reviews |
| `OrderTerms` | lines, discounts, list, client and representative of one order and of the copies made of it |
| `EuropeanVat`, `VatOfOrders` | the VAT of European products, and the same under names that can stand beside `OrderTerms` |
| `FiscalCatalogue`, `OptionalSlots`, `Catalogue` | groups, types, products and their trail; optionals and slots; the two of them |
| `ProductPhotos`, `PhotoBuckets` | photos, buckets, snapshots, and the collection of orphans; the same under names that can stand beside `SideEffects` |
| `Revisions`, `Deployment` | the revisions that other processes may meet half-way, as sequences of statements; the deploys that run them |
| `SyntheticMonitor`, `PhotoSwap`, `Backups` | the scripts that watch, replace photos and back up |
| `Operations` | deploys and the three of them |
| `MC*` | the instances for TLC |
| `*_proofs` | theorems and their proofs (section 5) |

**Compositions.** `SideEffects`, `Access`, `Catalogue` and `Operations` put components
together that share no modelled state. Their variable `part` is chosen at the start and says
which of them moves; the others keep their initial state. The states of such a run are the
sum of those of the components, not the product, and each property is that of its
component. Components that do share state are one module: the lifecycle holds the rows it
queues, `Retention` holds both kinds of records.

**Conventions.** Variables carry the table or column they stand for. An action is named for
the function it models and covers all of it up to and including its commit; where other
requests can come between, there is an action `Begin...` for what a request reads and one
`Commit...` for what it writes. `txn`, `req`, `work`, `run` or `job` hold what an actor has
read. Time is kept as the wait that lies ahead, counted down by `Tick` (`LoginProtection` and
`Backups` have a clock). Some variables only record what
happened so that a property can ask for it (`signature`, `stopped`, `wrong`, `saved` and the like);
no guard reads them but to keep a bound. The words `beside`, `overtaken`,
`outrun`, `raced`, `disputed` mark what another request changed between the reading and the
writing of one: properties that speak of them claim exactly that nothing *else* goes wrong.

A definition whose comment starts with *Faulty* takes no part in any specification: it is a
plausible bug, and replacing the real definition by it must break the property it is listed
with, which shows that the property can tell.

How code maps to state and actions, where it is not obvious:

* **OrderEmailQueue.** `doc`, `del` are `order_email_documents` and
  `order_email_deliveries`; `job` is what a worker holds between its claim and its second
  transaction, `req` what a resend holds between its check and its insert; `sent` and
  `keyLeft` belong to the provider. `ReceiveWebhook` and `CommitOrphan` are the webhook's two
  ways to store an event, `ApplyPendingEvents` the sweep that opens every round.
* **OrderLifecycle.** `txn[r]` is a request: the rows it holds, those still to lock, what it
  read before. SQLAlchemy's identity map matters: a locked re-read does not refresh an object
  the session has loaded, so a revision decides on what it *first* read (`seen`). The
  constraints of the tables are not guards: that no handler runs into them is what the
  invariants say.
* **MoloniQueue.** `run[w]` is one delivery: things still to go through, links added but not
  written (`fresh`), written but not committed (`flushed`). SQLAlchemy writes added links at
  the session's next query, the last of them only with the commit, after the document was
  issued. A link whose key another run has committed fails that write. In the delivery or in
  the commit after it this ends the run (`Clash`) and the job returns with its lease; in the
  first commit of `_record_failure` it is caught, the links are rolled back, and the failure
  is recorded all the same (`RecordFailureUnlinked`). `lost` counts what can make a second
  document come about: a document whose answer, run or recording commit is lost, and a lease
  that ends under a run; `faults` only bounds the run.
* **WebhookOutbox.** `txn[w].mine` are the rows a batch holds with its uncommitted changes.
  `DeliverOne` covers every class of answer, including none; `Abort` takes the batch back
  though the receiver keeps what it got.
* **OrderAttachments.** `at` says which order a row belongs to, `saved` what a save promised,
  `sent` the uploads already made, `leaked` the objects whose loss the code logs.
* **RefreshSessions.** One account with its rights; `token[t].issued` are the access tokens a
  refresh token gave out, each with the `auth_version` it carries; `BeginRotation` holds the
  row lock, `CommitRotation` spends the token and makes its successor; a change of password or
  rights reads tokens and version first (`Flush`) and commits later.
* **LoginProtection.** Counters of pairs of address and identifier; `Ladder` is the ladder of
  waits of `config.py`; `wrong` is the history of wrong passwords.
* **EuropeanVat.** A decision loads a row, and writes only the columns whose value it
  changed (`Written`, `Merged`): over a row that changed meanwhile this gives a mixture, and the
  check constraint refuses one that is half approved (`Allowed`). An order reads the product,
  its VAT and the rates of its group in three statements.
* **FiscalCatalogue, OptionalSlots.** The same merging, for products and types and for
  optionals. `Open` begins a transaction, whose time its event carries: `trail` is what the
  newest events by that time say, so one that began earlier and commits later (`elders`, `told`)
  does not change it, and its row is `crossed`. `Show` and `ImportEurope` stand for the handlers
  that write a product without a look at its version.
* **Deployment.** Containers (`Starter`) take an advisory lock and run revisions; `run[s]` is
  where an alembic process is (revision and statement), what it saw of an index, and what its
  transaction holds that is not committed: rules added, revisions recorded. A statement of one
  that was killed goes on at the server (`BeginGhost` ... `EndGhost`). `Script`, the revisions
  of a deploy, is a constant: the theorems hold for any, the run has three of `Revisions`. A
  container gives the lock up only while another has it (`GiveUp`), or is stopped (`Stop`, a
  fault). `UpgradeHappens` lets processes be killed or fail and start again; what it asks for is
  that from some time on nobody waits beside a running upgrade (finding 17).
* **SyntheticMonitor.** The workflow, step by step, from `Curl` over the script's own checks to
  `Raise`, or to `Recover`, `Close` and the next alert. `alerts` are the open ones, newest
  first, each with the last marker in its comments; `page` is how many of them the workflow's
  one page of 100 open issues and pull requests still has, which others change (`Crowd`).
  `Raise` looks there for the alert to comment on, the recovery for those to close.

## 3. What the runs check

| Run | Question | Instance and bounds |
|---|---|---|
| `email_safety` | Is what the queue says true, and is nothing sent elsewhere or shown otherwise? | one order, two deliveries and addresses (one not allowed), two workers, one resend, two events, one crash, test mode |
| `email_liveness` | Does every queued delivery leave the queue, every stored event reach its delivery? | two deliveries, one worker, one crash, live mode |
| `orders` | Numbers, revisions, documents, copies, deadlocks, closed orders | two orders of one user in one market (all contend for the same counters and client), two requests, one copy, `MaxVersion` 3 |
| `moloni` | Are documents accounted for? Do jobs settle? | two runs, two orders of one client with one article, one fault, one deletion |
| `side_effects` | Posts, contract, files | two events, two workers, three attempts, two aborted batches; two files, two orders, two requests |
| `access` | Administrators, stopped accounts, families, revocation, guesses | two requests; two people, three invitations; four tokens and changes together (`MaxWork`); five guesses |
| `retention` | Holds, reviews, anonymisation | one client, one representative, one order, two requests, one hold, a list limit of one (`MaxSnapshot`), so that the lists of three categories are cut, two personal columns |
| `pricing` | Discounts; what is on an order and who may sell it | two lines, two products, one representative, both markets, a discount or none, two catalogs that change once in Brazil (`MaxChanges`); changes of representative among several are proved |
| `vat` | Invoiced rates | two products of one group, two rates, two approvers, one request beside group approvals, imports and the catalogue |
| `catalogue` | Trail, version, slots | two requests, three (`MaxCommits`) and two (`MaxEdits`) changes; a product and a group, or none of them, at the start |
| `photos` | Photos in use | one row of each market, three photos (one Brazilian, two European), two requests |
| `operations` | Revisions, alerts, log, backups | two containers and two faults; one market, one death and one open alert off the page (`MaxHidden`), beside which a second is opened; two products and three orphans; seven days |

The properties, each a sentence at its definition:

* *E-mail*: `AcceptedHasMessage`, `SentOnlyWhereAllowed`, `SentPdfIsStoredPdf`,
  `FirstTerminalWins` (action), `QueuedDeliverySettles`, `StoredEventIsApplied` (liveness).
* *Orders*: `NumbersAreNeverReused`, `RevisionsFormChains`, `EmailedDocumentIsTheOrder`,
  `NoWaitCycle`, `StaleCopiesAreDetectable`, `ClosedOrdersStayClosed` (action).
* *Moloni*: `DocumentsAreAccountedFor`, `JobsSettle` (liveness).
* *Side effects*: `PostsAreCounted`, `ImplementsAtLeastOnce` (refinement with liveness),
  `FilesAreAccountedFor`, `SavedFilesStay` (action).
* *Access*: `AdminRemains`, `DeactivationHolds`, `FamiliesDoNotFork`, `OutlivesOnlyByRace`,
  `GuessesAreRationed`.
* *Retention*: `HoldsProtect`, `ApprovedReviewsAreWhole`, `AnonymisedIsBlank`.
* *Terms and taxes*: `DiscountsWereGranted`, `RepSellsTheOrder`, `InvoicedRatesWereSigned`.
* *Catalogue*: `TrailTellsTheIpi`, `OptionalsFitTheirSlots`, `ChangesRaiseTheVersion` (action).
* *Photos*: `PhotosInUseAreThere`, `BrazilKeepsItsPhotos` (action).
* *Operations*: `VersionTellsTheTruth`, `LogTellsTheSite`, `ListedOrphansAreMoved`,
  `PeriodsKeepTheirLast`, `DeploysUpgrade`, `AlertsClose` (liveness).

Each module has one `TypeOK`.

### Bounds, and why they are enough

* Two of everything that competes (workers, runs, requests): the protections are pairwise (a
  row lock, a key, a lease, a check before a commit). `vat` has one request that takes time,
  since imports, group approvals and changes of the catalogue come between its statements
  anyway; two decisions at a time are beyond the time of a run and are covered by the theorem.
* Leases, windows and waits are scaled to one or two ticks, and a timer saturates where the
  code stops telling values apart. In `moloni` the lease is one tick: any tick during a
  delivery is a lease that ends under a run.
* Crashes, aborted batches, lost answers, faults: one or two, enough to reach every state
  after a failure from every state before it. Attempts are bounded by the code, scaled to 2 or
  3 so that the last one is reached.
* What only grows is bounded and its growth stops there: `MaxVersion` (versions of an order),
  `MaxMessages`, `MaxCrashes` (e-mail), `MaxAttempts`, `MaxAborts`, `MaxDeleted`, `MaxFaults`
  (queues), `MaxInvitations`, `MaxWork` (tokens and changes, or holds' work), `MaxGuesses`,
  `MaxClock`, `MaxHolds`, `MaxSnapshot`, `MaxChanges` (catalogs), `MaxCommits`, `MaxEdits`,
  `MaxFaults`, `MaxDeaths`, `MaxHidden`,
  `MaxTime`. No theorem depends on their values.
* Not exercised by these bounds: an outbox batch cut off by `BATCH_SIZE`, the ten jobs one
  Moloni run may process in a session, a wait of two Moloni runs for each other's links, a
  chain of three revisions (proved, section 5), and products of two groups with different
  rates (likewise).

Symmetry is used only in runs without liveness. Deadlock checking is off where the system may
stop for good: all handled, all settled, or every bound used up. A circle of waits between
requests is a property of its own (`NoWaitCycle`).

### Fairness

Weak fairness on each worker's own steps and on `Tick` (time passes), never on requests,
crashes or what an outside service answers. The e-mail queue asks more of two steps: strong
fairness on `Tick`, which an attempt in progress may hold up, and on the sweep of stored events
(`ApplyPendingEvents`), which opens each round of the loop; and a webhook that has begun commits
(`CommitOrphan`). It is justified by `_run_loop` of the e-mail
sender and `run_forever` of the webhook sender, which go on after any error, and by restart
through the supervisor; a Moloni run is `run_once`, started over and over from outside; the
monitor is started by a schedule (`Schedule`), and a run goes on to its end unless it dies; a deploy that was killed is started again (`Restart`), the
server ends what it was told to do (`Server`), and rows a new constraint refuses are corrected
(`Correct`), which is what the refusal asks of the operator. `BoundedAttempts` (an attempt ends
within its lease) holds in normal operation: the call of the provider times out after 15 s and
rendering has a time-out of its own, against a lease of ten minutes. In `moloni` there is no
such assumption: an overrun is one of the faults.

## 4. Findings

What the code does and somebody might not expect. None of these is a checked violation; the
models have the behaviours, and the properties are stated beside them.

*Orders and queues*

1. `workers/order_email_sender.py:272`: an attempt that outlives its lease writes its result
   over a delivery confirmed meanwhile, although `services/order_email_events.py:38` wants
   final results kept. `FirstTerminalWins` is proved for attempts within their lease.
2. `api/routers/order_emails.py:223`: two resends at once both pass the check and queue two
   deliveries, against the 409 at line 236.
3. `orders.py:2547`: a cancelled revision still names its source as revised, and neither can
   be revised again, although the message at line 1255 sends the user to the latest version.
4. `workers/moloni_sender.py:85`: the commit after an issued document can fail on a link's key,
   and the retry issues a second one, against the docstring at line 24 (`Clash`; a loss in
   `DocumentsAreAccountedFor`).
5. `orders.py:2616`: `delete_order` asks no legal hold, although
   `docs/lgpd/OPERACAO-RETENCAO.md:14` says that a hold suspends deletion.
6. `api/routers/order_item_attachments.py:174`: dropping a file read as pending can take it
   from an order saved in between (the exception of `SavedFilesStay`).
7. `frontend` `OrcamentoPage.tsx:1572-1585` offers a higher discount than the server accepts;
   `privacy.py:465` leaves clients and desks with a representative whose relationship it ends,
   and `clients.py:163` accepts one that has ended.

*Taxes and catalogue*

8. `markets.py:58`: a decision that overlaps an import leaves a rate approved that nobody
   signed, although line 534 says a new rate never inherits an approval.
9. `models/product_group_audit_event.py:40`: fiscal events carry the start of their transaction, and
   nothing else orders them. Of two edits of a row that overlap, the one that began first may commit
   last, and the newest event is then not about the rate that is billed (the exception of
   `TrailTellsTheIpi`). An import of a deactivated product sets
   `is_available` while it is inactive; the nested sets of `products.py:270` are not checked;
   Moloni is sent `product.price_lojista` while orders are billed from `product_prices`.
10. Optionals: deleting or updating one may empty a category that an `allow_all` slot uses; a
    second overlapping rename leaves optionals with a code nobody registered; an application
    whose category was edited still counts as chosen when an order is finalized.

*Access*

11. `auth.py:604`: `auth_version` is raised without a lock. Two changes at once leave one
    increment, the version can even go back, and a switch of market under way then issues an
    access token that a change of password should have ended (the exception of
    `OutlivesOnlyByRace`).
12. A login or renewal that is under way survives a revocation that does not see it; in the front
    end (`AuthContext`), a refresh that answers after a logout opens the session again.
13. Counters of wrong passwords are per typed identifier: e-mail and user name of one account
    count apart; the total directed at an account is only logged.

*Privacy*

14. An edit or import that overlaps an anonymisation puts personal columns back; columns that
    were blank when it read them and filled meanwhile survive; an anonymised record may be
    edited again.

*Operations*

15. `ops/synthetic_monitor.py:609`: a run that dies between the second comment and the closing
    leaves the alert open; a configuration error neither resets the count of recoveries nor
    lets an outage of the same run be seen. `production-health-monitor.yml:110-115, 146-151` read
    one page of 100 open issues and pull requests: an alert pushed off it is neither commented
    on, so that a second one is opened, nor closed. Any step that fails, the checkout included,
    raises "API indisponível". `AlertsClose` is about alerts on the page, and excepts the first.
16. `ops/trocar_fotos_eu.py`: the quarantine loop counts a key that keeps failing again and may stop
    early, and a lost answer is reported as "nada foi trocado depois deste ponto".
17. `backend/startup.py:81-85`: a second container that waits for the advisory lock holds a
    snapshot, so CREATE INDEX CONCURRENTLY waits for it until its time-out, although lines 3-5
    say that it does not get in the way; a killed container's statement goes on.
    `DeploysUpgrade` excepts containers that wait, over and over, beside an upgrade.
18. `backup_site.py:294`: partial backups of the site count as the one of their period; a crash
    between the move and the checksum leaves a backup without it.

*Lists and their limits*

19. `privacy.py:907-910`: a dry run finds out whether its lists are cut from counts of other moments,
    and the lists share one limit. Of 5 001 clients that are due, one under a hold, it counts 5 000; when
    the hold is released before the list is read, the list is cut at 5 000 and the review passes for
    whole, although `approve_retention_review` refuses a truncated one (the exception of
    `ApprovedReviewsAreWhole`).

*Catalogs under an order*

20. `reps.py:408-410`, `clients.py:663-664`, `products.py:996-1000`, `import_csv.py:1078`: a change of
    catalogs looks at no order. What is ordered stays, whoever may sell or buy it now, and can be
    finalized; only new lines, a copy, a revision or a new representative are held against the
    catalogs of the day. And the new representative of an order of one catalog is held against the
    catalog stored with it (`orders.py:694-695`), so that a product that has moved since to a catalog
    nobody checked passes (the exceptions of `RepSellsTheOrder`).

*Copies of the catalogue*

21. `products.py:1238` and `1287`, `markets.py:328` and `556-562`, `optional_categories.py:130-138` and
    `184-188` change the photo, the European prices and availability, or the finishes declared of a
    product and leave its `source_version`, which `models/product.py:56` keeps for whoever reads the
    table from outside. An overlap of two edits leaves one increment. (`ChangesRaiseTheVersion` is
    about what is left: type, state, and the price in Brazil.)

## 5. What is proved

Eight modules hold theorems; all are proved for every value of the constants, from the
assumptions named below and nothing else. `PROJECT.json` lists them. Every safety property of
the runs is proved.

**`OrderEmailQueue_proofs`** — any numbers of orders, deliveries, workers, requests and
events, in both modes. *Without* assuming that attempts end within their lease: `TypeCorrect`,
`AcceptedMeansMessage`, `SentWhereAllowed`, all from `MessageInvariant`. Neither property is
inductive alone. A worker sends from what it claimed earlier, so `JobsOnRows`: what a worker
holds is a row in use with an address, and an accepted attempt holds the id of an existing
message; what it claimed was queued by a request, so `RequestsPrepared` and `RowsInUse`; an
accepted row takes its id from the attempt or from a stored event, so `IdsOfMessages`: ids
never run ahead of the messages made. *With* `BoundedAttempts`, as a hypothesis of the
theorems: `SentPdfAlwaysStored` and `FirstTerminalStands`, from `LeaseInv`: an attempt in hand
has a lease that runs (`LeasesHeld`), so one worker holds a row (`OneHolder`), a message id ends the
claim (`IdsLeaveTheQueue`), and what was sent was stored before (`SentWhenReady`).

**`OrderLifecycle_proofs`** — `NumbersNeverReused`, `RevisionChains`, `DocumentsAreOrders`,
`JobsAreOrders` (Moloni has a job for exactly the finalized European orders where
`MoloniBlocked`, the switch `MOLONI_BLOCKED`, is off, and for none where it is on),
`CopiesAreDetectable`, `NoDeadlock`, `ClosedForGood`, `OrdersTypeCorrect`, from
`OrdersInvariant`. What the handlers rely on is that a decision taken under the lock of an
order still holds at commit (`DecisionsStand`). That needs `LocksFollowPlans` (a transaction
holds exactly the first locks of its handler) and `LocksAreExclusive`; the proof of each
commit shows that it touches nothing another request has decided about. `OrdersOfRequests`
says that a source read before its lock as finalized still is, if it exists: why the stale
read of `create_order_revision` does no harm. `NumbersAreBelowCounters` makes a new number
differ from all earlier ones; `CopiesAreNotAhead` makes each change visible to a consumer.
`NoDeadlock` ranks the rows (order, number, quote, client): every request locks upwards, so in a
circle of waits the ranks would grow for ever.

**`MoloniQueue_proofs`** — `MoloniTypes`, `DocumentsAlwaysAccountedFor`. A potential argument:
of each order, the documents issued, the runs that may still issue one or have yet to record
that they failed, and the job if it can be claimed together (`Budget`) never exceed one plus
what was lost. A run that dies or fails before its document gives its share of the budget back to
the job, and so counts for nothing; the set of runs is finite (`FinitenessAssumption`).

**`SideEffects_proofs`** — `PostsAreAlwaysCounted` from `OutboxInv`: rows belong to one
batch (`HoldsItsOwn`), and the copy in hand differs from the committed row by the post made
(`RowsInHand`). `OutboxKeepsItsContract`: every step of the outbox is one of `AtLeastOnce` or a
stutter (`Contract!Safety`), also a commit that settles a whole batch. `FilesAreAlwaysAccountedFor` from
`FilesInv`: what a request decided about its files stands (`StepsStand`), and no two requests
have a claim on one file (`StepsAreApart`). `SavedFilesAlwaysStay`.
`PhotosInUseAlwaysThere` from `PhotosInv`, which says what each of the three parties that share
nothing but rows and buckets may rely on: a photo that is stored and not yet cited is known
to its request alone and is not old enough to be listed (`NewOnesAreOwn`); what a
request found when it asked who cites the photo it replaced is still so when it deletes
(`ChecksStand`), since nothing but a new photo comes to be cited by a row and only an order that had
read the photo before prints it, one of the two races the property names; and for
the same reason what was once reported as an orphan is cited by no row again, and, when the
quarantine comes back for it, by no order it does not know of (`OrphansStand`).
`BrazilAlwaysKeepsItsPhotos`, `PhotoTypes`; `PhotoBucketsAreProductPhotos`: the specification
under the other names is the same, in both directions.

**`Upkeep_proofs`** — of `Retention`: `RetentionTypes`, `HoldsProtectAlways` (`HoldInv`: an erasure under
way has passed every hold committed before it read them), `ApprovedReviewsAreAlwaysWhole`
(`ReviewInv`: while nothing becomes due and no hold comes or goes, the running total of a dry run is at
least the number of records it lists or would still have to list, `Owed`; when the lists are as long as the
total, they are all of it), `AnonymisedIsAlwaysBlank`.
Of `Operations`, for any script of revisions: `VersionAlwaysTellsTheTruth` and
`DeployTypesAlways` from `DeployInv`. The property speaks of what is recorded; what makes it
hold is what each process has left behind it: every statement before the one it is at is
through, for a transaction that holds some rules (`BehindIsThrough`); one process at a time
has moved the version, and by what it went through (`StampsFollow`), since another one waits
for the row of `alembic_version`; an index that was seen invalid is about to be dropped
(`SeenIsDropped`); and no row breaks a rule that is valid or about to be (`DirtBreaksNothing`).
No step of another process, of the server or of the rows takes from what is through
(`StillThrough`): a valid index goes only where two upgrades met, and a row that would break
a rule is refused. `LogAlwaysTellsTheSite` (`QueueStands`: each product is in the queue once,
and untouched but for the one whose answer is waited for);
`ListedOrphansAreAlwaysMoved` (`OrphansStand`: what was counted is what was moved, and what is
confirmed is listed and not yet moved; equal counts of a finite set and a subset then mean
equal sets); `PeriodsAlwaysKeepTheirLast`, which is inductive as it stands: the last
backup of a period among all that were made is the first that a retention finds in it
(`LastIsFirst`), and a new one makes no earlier one the last (`LastWasLast`).

**`Access_proofs`** — `AdminAlwaysRemains` (`AdminInv`: one removal at a time is past the search
for another administrator, and that one is still there), `DeactivationAlwaysHolds`
(`StoppedInv`: a deactivation knows the invitations of its account unless somebody committed
beside it, and a stopped account has none open), `FamiliesNeverFork` (`FamilyInv`: one
transaction at a token, and a replay reaches every live token of its family that no renewal
made beside it), `SessionsOutliveOnlyByRace` (`RaceInv`: a revocation under way has seen every
live token in its reach that is not marked, and an access token with the present version was not
revoked), `GuessesAlwaysRationed` (`LoginInv`, of one pair: the wrong passwords since the last
wait and those under way are fewer than the requests; the row never forgets within the
window). `AccountTypes`, `SessionTypes`, `LoginTypes`. A failed proof of
`OutlivesOnlyByRace` showed that the model was too narrow: with three requests a login may
commit between the two steps of a change and be missed by a second one; `Missed` now covers such
tokens, where two requests could not show it.

**`Catalogue_proofs`** — `TrailAlwaysTells` (`TrailFollows`: the newest event of each row
is its state, and None for one that is gone, unless the row is crossed),
`ChangesAlwaysRaise` (a request writes the version after the one it read), `OptionalsAlwaysFit` (`FinishInv`: what a request decided agrees with what
it saw), `CatalogueTypes`, `FinishTypes`.

**`OrderTerms_proofs`** — `DiscountsAlwaysGranted`, `RepAlwaysSells`, `TermsTypes` from
`TermsInv`: a discount rests on a grant for its product in the order's list, and a grant
carries one line (`Granted`); what nobody moved or withdrew is in the catalogs of client and
representative (`Fits`), which an edit of the representative alone keeps up because the catalog
stored with the order is that of every line whose product stayed (`Stored`); names for new grants never run out, which is a pigeonhole on the
finite set of lines (`FreeNames`). `RatesAlwaysSigned`, `VatTypes` from `VatInv`: an approved
row that no race left in dispute has the rate that was signed for it (`RowsAreSigned`), and
what a request found approved was signed (`WorkIsSigned`); a merged row is a row
(`MergedRow`), and the one rate of a group was signed for each of its approved products
(`GroupIsSigned`). `VatRefines` takes both from `EuropeanVat` to the specification that is run.

**Assumptions.** They are stated in the modules and evaluated by TLC on every run that extends them:
kinds of identifiers are disjoint and what stands for "none" is none of them
(`RowsAssumption`, `AddressAssumption`, `PdfAssumption`, `RowAssumption`, `NoOrderAssumption`,
`KindAssumption`, `PendingAssumption`, `RightAssumption`, `NoneAssumption`,
`UntaxedAssumption`, `PictureAssumption`); fixed relations are functions (`OwnerAssumption`, `MarketAssumption`,
`OrderAssumption`); bounds and times are natural numbers (`BoundAssumption`, `TimeAssumption`,
`SizeAssumption`, `DelayAssumption`, `VersionAssumption`, `CommitsAssumption`,
`EditsAssumption`); the sets counted over are finite (`FinitenessAssumption`,
`TermsAssumption`, `LoginAssumption`, `SwapAssumption`); a script is a sequence of sequences of
statements (`ScriptAssumption`); weeks and months have a length (`BackupAssumption`). Four say more. `RetryWait \subseteq 0 .. Lease` scales the waits of the
e-mail queue. `BlockedAssumption`: the switch of the Moloni export is on or off. `LadderAssumption` is the ladder of `config.py`: waits rise, none comes with the
first failure, none is longer than the window. `LoginAssumption`: counters are kept longer than the
window, as the clean-up does. `PersonAssumption`: there is a founder, an active administrator at
the start.

**Only model-checked.** Liveness (`QueuedDeliverySettles`, `StoredEventIsApplied`,
`JobsSettle`, `DeploysUpgrade`, `AlertsClose`, and the part `NothingStaysOpen` of
`ImplementsAtLeastOnce`): fairness is stated with `ENABLED`, which is beyond the prover.

## 6. Plan

Every safety property of the runs is proved. Of what nothing rests on yet, worth proving are
the types of `SyntheticMonitor`, and that an alert is closed only after the recoveries the
monitor asks for, which so far is only how its actions are written.
Models worth adding after that: prices by list (`product_prices`), grants of markets to users.

## 7. Not modelled, and simplifications

* Message contents, PDF layout, signatures, error texts, logging; decimal arithmetic.
* Dashboard, notifications, address look-ups, request guards and metrics: read-only or
  stateless. Rendering is a choice of bytes or a failure (`OrderEmailQueue`). The front end is
  forms over the API. The load generator and the benchmarks drive the API from outside.
* Query filters of the lists (market isolation is modelled as what a token reaches); privacy
  incidents; OAuth of Moloni, tax mappings, categories (a delivery that cannot go on because of
  them is refused, `Refuse`; `MOLONI_BLOCKED` is off in `MoloniQueue`, either in
  `OrderLifecycle`, and no switch of a running system); grants of a market to a user; names and
  roles; revisions of the schema other than those that make indexes and constraints.
* `OrderLifecycle`: foreign-key share locks (deleting a client locks it and then its orders),
  finalized orders from before stages existed, and history rows. A finalization whose e-mail
  queueing fails in its savepoint is shown: an order without a document. A failed commit has
  changed nothing.
* `OrderTerms`: one client and one order followed through its copies; the copy on a screen is
  folded into `Copy`; desk representatives only narrow the choice; prices, quantities, special
  lines and availability are left out. `all_catalogs` is the set of all catalogs. A handler is one
  step: a catalog that changes between what it reads and its commit is not followed.
* `Retention`: the link of a client with its representative; orders under a hold (finding 5).
* `ProductPhotos`: thumbnails made on demand, the local disk, the days of the quarantine.
* `Accounts`, `RefreshSessions` and `LoginProtection` know nothing of each other beyond what
  section 2 says: that a stopped account cannot log in is a guard of `RefreshSessions`.
