# SaveUp in TLA+

SaveUp lets parents keep savings accounts for their children: deposits and
withdrawals are recorded, interest is added daily, and children ask for
withdrawals which parents approve.  This directory models the program, checks
the models with TLC and proves theorems about them with TLAPS.  `PROJECT.json`
lists the runs, the theorems, the lines each definition stands for, and the
hazards the properties are aimed at.  Paths below are relative to the
repository; `G` is `api/graphql/src`.

## The system

| Component | State it keeps | Operations | What is hard | Correct when |
|---|---|---|---|---|
| Money ledger (`G/actions/transactions`, `G/actions/accounts`) | tables `transactions`, `accounts` | deposit, withdraw, changeAccountInterest, the displayed balance | several SQL statements per request, no transaction; interest by the day; failures after a commit | balances continue from row to row and never go below zero, a day earns interest once at the rate of that day, answers agree with rows |
| Families and users (`G/actions/users`, `invitations`, `sign_ups`) | `clients`, `users`, `accounts`, `invitations` | signUp, inviteAdmin, redeemInvitation, createUser, archive, unarchive, confirmEmail | rows of several tables written one by one; repeated and concurrent redemptions; mails that left although the call failed | families do not mix, an invitation makes one user, mailed links work |
| Withdrawal requests (`request_withdrawal.rs`, `resolve_transaction_request.rs`) | `transaction_requests` | request, approve, reject, list of pending ones | two admins resolve one request; a stale list | what was mailed is what was decided |
| Sign-in and passwords (`G/actions/passwords`, `sign_ins`, `make_jwt.rs`) | `password_hash`, `password_reset_token` | signIn, requestPasswordReset, resetPassword | repeated requests, old mails | the last mail works, the last password counts |
| Mail publishing (`G/actions/emails`) and mail lambda (`api/mail`) | the SNS topic, the lambda's deliveries | publish, handle, send through SES | at-least-once delivery, timeout against late answer, order | each announcement arrives, with its own amounts |
| API server (`G/main.rs`) | the connection pool, one connection per request | authenticate, serve | concurrency of the workers | a request always ends |
| Client shell (`client/src/App.elm`, `Shared/`) | session, location, current page | navigation, session start and end, actions of pages | answers that arrive after navigation | a page shows its own data |
| Client notifications (`Notifications.elm`) | list and next number | add, dismiss by timer | timers of notifications already gone | a notification stays for its time |
| Client pages (`Admin/Pages`, `Investor/Pages`, `Public/Pages`) | form, last answer, remote data | type, submit, answer | double submission, errors after success, stale answers | a form is sent once, what is shown is what is stored |
| View helpers, generated bindings, migrations, static site, `hello` lambda | none | - | - | - |

**Interaction.**  The client calls the API over HTTP (GraphQL, one mutation per
request); the API runs SQL statements on one pooled connection per request and
publishes mails on an SNS topic; the topic invokes the mail lambda, which calls
SES.  The database is shared by all workers and is the only state of the server:
no handler opens a database transaction, so every statement commits by itself.
A mail carries a token which comes back through the client (invitation,
confirmation, password reset).

**Hard behaviours.**  Interleaving of the statements of two requests; an early
return by `?` between two statements; a publish that is reported as failed
after the topic took it; a crash of the server at any statement; whole-day and
truncation boundaries of the interest; a rate the column cannot hold; in the
client, answers that arrive after the page changed, and repeated submissions.
`PROJECT.json` lists them line by line under `hazards`.

## Modules

| Module | Models |
|---|---|
| `Interest` | `calculate_interest.rs`: whole days, truncation towards zero, growth factor as a constant table |
| `Ledger` | deposit, withdraw, changeAccountInterest, one step per SQL statement and worker |
| `SavingsAccount` | abstract: what the holder of an account is promised; `Ledger` implements it |
| `AccountView` | extends `Ledger` by the query of an account: its balance and its list of transactions |
| `Onboarding` | signUp, inviteAdmin, redeemInvitation, createUser, archiveUser, unarchiveUser, confirmEmail |
| `Passwords` | signIn, requestPasswordReset, resetPassword |
| `WithdrawalRequests` | requestWithdrawal, approve and reject, the list of pending requests |
| `RequestBook` | abstract: what the parties of a request are promised; `WithdrawalRequests` implements it |
| `RequestsPage` | extends `WithdrawalRequests` by the browsers of the admins |
| `Mail` | topic, mail lambda, SES |
| `Server` | process, migrations, threads, pool, guards |
| `AccountPage` | the page of one account: deposit, withdrawal, rate |
| `HomePage` | the list of investors with its archive buttons, and the statements behind it |
| `FormPages` | the pages that are one form |
| `Session` | the shell: session, storage, routes, areas, answers |
| `Notifications` | the messages in the corner |
| `UserTable` | composes `Onboarding` and `Passwords` |
| `Client` | composes `RequestsPage`, `AccountPage`, `HomePage`, `FormPages`, `Session` and `Notifications` |
| `LedgerProofs` | lemmas and theorems about `Interest` and `Ledger` |
| `RequestsProofs` | about `WithdrawalRequests` and `RequestsPage` |
| `AccountViewProofs`, `ServerProofs`, `MailProofs`, `OnboardingProofs` | about the module of that name |
| `UserTableProofs` | about `Passwords` and `UserTable` |
| `ClientProofs` | about `AccountPage`, `HomePage`, `FormPages`, `Session`, `Notifications` and `Client` |
| `MCLedger`, `MCAccountView`, `MCOnboarding`, `MCUsers`, `MCRequestsPage`, `MCMail`, `MCServer`, `MCClient` | instances for TLC |

Definitions used by no action or property (`EnoughBalanceUnchecked`,
`EmailFreeAlways`, ...) are faulty variants of the definition that follows them.
`PROJECT.json` names, for every property of every passing run, variants that
violate it, one for each of its parts where it has several.

### Ledger

A worker `w` serves one request at a time: `pc[w]` is the statement it runs
next, `req[w]` the call, and `seenRate`, `found`, `interest`, `rowIx` are the
locals of the handler.  `rows[a]` is the table `transactions` restricted to
account `a`, in order of commit; `created_at` comes from the database's clock at
the insert, so that is also the order in which `find_last_by_account_id` sees
them (inserts are atomic here: the model does not separate the start of an INSERT,
when the time is taken, from its commit).

| Action | Code |
|---|---|
| `Accept`, `Reject` | the mutation's authorisation, the amount check, the first `Account::find` |
| `PayFindLast`, `PayInsert` | `pay_interest.rs` |
| `FindAccount`, `FindLast`, `FindLastFails` | `get_balance.rs`, and the balance check of `withdraw.rs` |
| `Insert`, `Publish` | the insert and the acknowledgement of `deposit.rs`, `withdraw.rs` |
| `Update` | `change_interest.rs` |
| `Fail` | any `?`, or the death of the process |
| `Tick` | the clock |

`disturbed`, `checkedAt` and `shown` are history variables: the accounts on which
requests overlapped or a balance lookup failed, the time `pay_interest` last
read, and the balance on display when the call arrived.  `SerialSpec` is `Spec`
restricted to behaviours in which `disturbed` stays empty.

`SavingsAccount` has a balance and the time it was last credited; a step accrues,
deposits or withdraws with interest for no more time than has passed, or lets
time pass.  `Ledger` implements it (`KeepsPromise`) as long as requests on one
account do not overlap; with overlap it does not, which run `ledger_overdraw`
shows and which is a finding against the comment at `withdraw.rs:34`.

### Onboarding

Same scheme.  A row's id is its place in its table's sequence, and tokens (fresh
UUIDs) are represented by the id of the row that holds them; a call carries a
token that was mailed or one that no row holds.  `family[w]` and `made[w]` are
the handler's locals (the client id for the row to insert, the id of the row
inserted); `origin[u]` is a history variable, the call that made user `u`.
Usernames are `ValidUsernames` or not, which signUp and createUser check and
redeemInvitation does not.  The unique indexes on `users.username` and
`users.email` are the guard of `InsertUser`.  A redeemed invitation makes an
investor although the form promises another parent who manages the accounts:
run `onboarding_invitee`, a finding.  redeemInvitation is not atomic, as its own
comment regrets (`redeem.rs:52`, "Transaction should be here"): the properties
here claim only what survives that.

### AccountView

A query resolves its fields one after the other, each with its own statements
(`view[v]` is the next): `ViewAccount` finds the account, `BalanceAccount` and
`BalanceLast` are `get_balance`, `Transactions` selects the rows and adds a line
for the interest so far.  A failing field (`BalanceFails`, `TransactionsFail`)
is a balance of 0 or an empty list, not an error.  `LedgerStep` is any step of
the mutations or of the clock.  The history variables say which balances the account has
had since the query began and whether anything happened to it meanwhile:
`ShownWasTrue` (the balance shown is one the account had meanwhile) is said of queries in
which no read failed and the clock stood still, `LastLineIsBalance` also of a standing
account, and `LinesAddUp` of every account whose requests did not overlap.  Otherwise
balance and list are of different moments, as in the code.

### Passwords

A call walks through its statements (`pc[c]`): `Find`, `Verify` of signIn; `Find`,
`StoreToken`, `SendLink` of requestPasswordReset; `FindToken`, `Encrypt`, `StoreHash`,
`MakeJwt` of resetPassword.  A fresh token is represented by the call that made it, a
hash by its password.  The token is stored before it is mailed, and it stays valid after
its use.  Two overlapping requests of a user may leave the newest mail's link dead:
they are in the model and `unclear` excuses them.

### WithdrawalRequests, RequestBook and RequestsPage

`Insert` and `Notify` serve a request, `FindRequest`, `Update` and `Notify` a decision,
`Select` the list; `Fail` is any error, after which committed rows stay.
`Update` does not look at the state it replaces, so the last of two decisions
stays.  `log` is the history of committed filings and decisions, from which
`RequestBook` is reached: a request is filed once, and the holder is told of each
entry at most once, after it was made and in its own words (`KeepsBook`).  The mail that
asks its reader to approve goes to the child, who may not: run
`requests_mail_reader`, a finding.

`RequestsPage` is `Requests.elm` with `Dataset.elm` and the confirmation button:
`Open`, `Leave`, `Click`, `Cancel`, `Commit`, and `Hear` and `Lose`, by which an answer
or an HTTP error reaches whatever requests page the browser shows then.  `marred` marks
pages opened while older answers were awaited, or that saw an error.  `DecisionsShown` has an
exception that came out of its proof and takes five calls: the mutation also takes
PENDING as an outcome, no page offers it, and a decision that another admin undoes that
way can be shown and taken again (`PutBack`).

### Mail

`Publish` (`send.rs`; an error may be reported although the topic took the message),
`Invoke`, then the handler's `GetEmail`, `Generate`, `SendEmail`, `Answered` or
`Timeout`.  The topic may deliver again, the platform repeats failed invocations and
kills any, SES takes or refuses a mail at any time, also after the 20 seconds.
Amounts are in cents and the templates print whole dollars, truncated towards zero
(`Dollars`), so that a debt of 1.50 reads as -1.
The template of the withdrawal mail says "Your deposit of ..."
(`acknowledge_withdrawal.html:2`) under the subject "Successful withdrawal"
(`main.rs:239`); `Template` has it so.

### Server

`Start`, `Migrate`, `Launch`, `Die` are the life of the process, `Arrive` the
network, and `Begin`, `JwtGuard`, `TakeConn`, `ConnTimeout`, `ParseBody`, `GetUser`,
`Execute` the guards of a request in the order Rocket evaluates them: the token's
header for the app, then a connection from the pool, then the body, then the user.
`idle` counts connections nobody holds; `Finish` gives one back however the request
ends.  `Decodes` compares the expiry with the clock as the library does (`exp` itself
is still valid).  The database may go away between any two statements.  The run has
fewer connections than threads, the harder case: r2d2's default is 10 connections and
Rocket's two threads per core, so which of them is scarce depends on the machine.

### Pages of the client

In `AccountPage`, `HomePage` and `FormPages` a message of the page is an action, and
an answer is applied to whatever page of its kind is shown when it arrives.  `Lose` is
an HTTP error; the server may have served the call or go on to.  `AccountPage` and
`FormPages` serve a call in one step (`Execute`: committed or not, answered or not),
`HomePage` in the two statements of archive.rs.  History variables mark what
the code does not promise, and the properties excuse exactly that: a form that shows
an error beside it is sent again as it stands although the first may be committed;
a form submitted twice under the spinner, with the Enter key, is sent twice; a page
opened while older answers are awaited shows those answers.

### Session

`Go`, `Wake` (a navigation put off by 100 ms), `Reload`, `Submit`, `Ask`, `Hear`, `Lose`,
`SignOut`, and `OtherTab`, which changes the stored token.  `InitPage` is `initPage`
with its redirects (`Landing`).  Starting or ending a session changes the model and the
storage at once and the page 100 ms later: in between the old area works on.
`crossed` marks tabs in which a session began while answers to another's queries were
awaited: such an answer is shown to the new user, as the code has it.

### Notifications

`Add`, `Fire`, `Tick`.  A dismissal resets the whole model (`Notifications.elm:143`), so
numbers start again and one timer clears the screen: a message may vanish early, and
`MessagesAreTimed` shows that it never stays late or without a timer.

### How they are composed

`AccountView` extends `Ledger`, and `RequestsPage` extends `WithdrawalRequests`: there
page, query and server interleave step by step.  `UserTable` puts `Onboarding` and
`Passwords` beside each other, and `Client` the parts of the client: a behaviour is
one of a single part (`part`), because the parts share no state: `Onboarding` and
`Passwords` write different columns, and each page has a model of its own.  The
runs are thus the union of separate state spaces, with one bound for each.

## Runs

| Run | Question | Bounds |
|---|---|---|
| `ledger_concurrent` | what holds however requests overlap and fail | 2 workers, 1 account, 3 requests, a day of 2 ticks, 3 ticks, rates of 50 and -50 |
| `ledger_serial` | what every row and refusal is worth without overlap on one account; whether the ledger implements `SavingsAccount` | 2 workers, 2 accounts, 3 requests (also unauthorised, invalid and with a rate the column cannot hold), 4 ticks = 2 days |
| `account_view` | what a query shows while the account changes | 1 query, 1 worker, 2 mutations, 3 ticks |
| `ledger_overdraw` | `withdraw.rs:34`, violated | 2 workers, 3 requests, no time |
| `users` | families, mailed links, redemptions, accounts, sign-in and reset, what an answer stands for | 2 workers, 4 calls of 7 operations, 3 usernames of which 1 is not valid, 2 emails; or 3 calls, 2 users of which 1 has an address, 3 passwords |
| `onboarding_invitee` | `InviteAdmin.elm:182`, violated | 1 worker, 3 calls |
| `requests` | server and page of the withdrawal requests; whether they implement `RequestBook` | 4 calls, 2 parents of which 1 has the page, 1 child, 2 requests |
| `requests_mail_reader` | `request_withdrawal.html:3`, violated | 1 call |
| `mail` | what a published message comes to | 3 messages of which 1 cannot be read, 2 of them published or 1 and delivered again, 4 invocations, 1 retry each |
| `server` | who is served as whom, on which schema, and that every request ends | 3 requests, 2 threads, 1 connection, 2 migrations, 1 tick |
| `client` | what pages show, how often forms act, what a tab shows | account: 2 accounts, 3 calls, 1 fill; home: 2 investors, 3 calls; forms: 2 calls, 2 fills; session: 2 admins and an investor, 2 calls in flight, 2 navigations put off; notifications: 4 messages, 7 ticks, shown for 3 |
| `client_liveness` | whether every spinner, private area and message goes | the same with 1 account, 1 investor, 1 fill, 1 user; and the requests page with 3 calls |

**Why the bounds suffice.**  Two overlapping requests are enough for every pair of
statements to interleave, and a third puts a row before, between or after them;
a day of two ticks has an instant inside a day, so that the threshold is
hit, missed by one, and crossed between two statements of one request.  Four
calls are a sign-up, an invitation and two redemptions of it at the same time, or
a request and three overlapping decisions.
Growth factors are chosen so large that a day's interest on a few cents is a
whole cent; a rate of 50 stands for half the balance a day, -50 for a loss of
half of it, 1000 for a rate that `DECIMAL(5,2)` cannot hold.  On a page three calls
are a query, a change and the query that follows it, with answers in any order; two
fills of a form can be confused.  Four invocations are two messages, which may
overtake each other, and their retries, or one, its retry and its redelivery.  Three requests on two threads and one connection are one that
holds it, one that waits for it and one that waits for a thread.  A message shown
for 3 of 7 ticks can overlap others that come before and after.  Workers are
symmetric, and so are the calls of `requests` and `users`, the valid usernames and
the addresses, of which no definition names one; elsewhere calls, requests and invocations
are numbered as they begin, which names each behaviour once.
`Quiescent` (where a module has it) is the state in which the bounds are used up:
every other stop would be a deadlock and is checked for.

## Fairness

The ledger, users and requests' safety needs none.  Liveness assumes:

* `Server`: `WF` of `Serve(r)`, the thread that has begun a request goes on, and the
  pool keeps its time limit.  Nothing of the database, of the operator or of the users.
* `Mail`: `WF` of `Invoke(m)` and of `Handle(i)`, the platform delivers what is due and
  the handler, which has a timeout, goes on.  Nothing of SES, which may never answer:
  `PublishedIsSent` says sent, or every attempt has failed.
* Pages: `WF` of the server's step on a call and of `Hear`, the browser's runtime delivers
  an answer that is there.  Nothing of the user.
* `Session`: also `WF` of `Wake`, the runtime's timers.
* `Notifications`: `WF` of `Fire` and of `Tick`, timers and the clock.

`Client` states these conditions for the numbered calls of all parts at once; as a behaviour
has steps of one part only, this is the conjunction of what the modules state.

## Findings

* `ledger_overdraw` (`withdraw.rs:34`): two overlapping withdrawals spend one balance.
* `onboarding_invitee` (`redeem.rs:41`): an invited parent becomes an investor.
* `requests_mail_reader` (`emails/request_withdrawal.rs:17`): the mail that asks for a
  decision goes to the child who asked.

Also met while modelling: the withdrawal mail that speaks of a deposit, and the missing
transaction of redeemInvitation (both above).

## Proofs

Every theorem holds for any value of the constants: any number of workers, calls,
requests, threads, users, accounts, pages and messages, any amounts and any bounds.
Each rests on the assumption its module names, which gives the constants their types and
little more, and which TLC evaluates on the runs.  Beyond types they say:
factors are not negative and one for no day (`InterestAssumption`), a header that is no
token is not equal to one (`HeaderAssumption`), the first passwords can be verified
(`PasswordsAssumption`), calls are finitely many (`SessionAssumption`), and `None`, which
stands for what is not there, is no account, route, investor, user or form
(`AccountPageAssumption` and those of the other pages).  Two theorems have a hypothesis of their own, `FactorsGrow`: they are said
of rates that are not negative.

Each invariant is proved the same way: a stronger one that is inductive, one lemma per
action that it is kept, and from it the property.  The stronger invariants of
`Onboarding`, `Passwords` and of the parts of the client were checked by TLC on the
constants of their runs before they were proved.

**Ledger** (`LedgerProofs`)

* `TypeCorrect`.  Types alone are not inductive: elapsed times are naturals only because
  rows are in the order of the clock, so `Dated` is part of the invariant; what a worker
  holds matters only at some steps, so `PhaseOK` says at which.
* `BalancesNonNegative`.  `Funded` says that whoever is about to insert holds a
  balance with which its row is not negative.  It needs the lemma that interest takes away
  no more than the principal, as the factor is not negative (`InterestCovered`).
* `SerialLedgerKeepsPromise`: `SerialSpec => KeepsPromise`.  `Alone` says that at
  most one worker is busy with an account, and `Fresh` that what it has read is
  still what the last row says; with both, every step is a step of
  `SavingsAccount` or a stutter.
* `LedgerMatchesAnswers`.  `AnswersOK` follows a call from its insert to its answer: rows
  are only ever appended, so the row a worker points at stays its own.
* `RateChangesLookForward`.  The property is inductive on top of `Sound`: rows
  of others only make the last row later.
* `BalancesRun`, `InterestPaidOncePerDay`.  `DueInv` adds to `Alone` and `Fresh` that
  whoever inserts interest still has a day behind it, and `RowsOK` says of all rows what
  `FittingRow` shows of the new one.
* `ShownBalancesHold`, under `FactorsGrow`: no factor shrinks as days pass, which is what
  the property supposes of the rates ("not negative").  `InterestGrows` and `WorthGrows`
  compare the balance that was on display with what the statements of the call read
  later; truncation is monotone (`TowardsZeroMonotone`).

**Account view** (`AccountViewProofs`, all of `ViewSpec`).  The queries only read
(`QueriesOnlyRead`), so the invariants of the ledger hold beside any number of them.

* `ViewTypes`, with the types of the ledger below.
* `ShownBalanceWasTrue`.  `TruthsOK` says what a query holds between two statements:
  while the clock stands still, the rate it found together with the last row it reads are
  worth a balance that the account had since the query began.
* `ListEndsWithBalance`, `ListsAgree`.  A list is a suffix of the rows
  (`RowsSinceAreLast`) and a line for the interest so far.  If nothing happened to
  the account, that line has the balance shown above it (`SteadyOK`).  For an account
  whose requests never overlapped, `FollowingLines` takes over from `BalancesRun` that
  each line continues the one before; under `FactorsGrow` also the last one.

**Withdrawal requests** (`RequestsProofs`, all of `PageSpec`)

* `ServerKeepsBook`: `PageSpec => KeepsBook`.  The step of a page maps to a step of the
  server (`PageStepServes`) and that to one of `RequestBook` or a stutter.  It needs that
  ids are places in the table (`Numbered`) and that entries of the log belong to one call
  (`OwnEntries`), so that the holder is told of each at most once.
* `EveryDecisionAccounted`, `HolderKnowsState`.  `AllTold` says for a request whose
  decisions did not overlap that one of them at most is being mailed, the stored one.
* `RequestTypes`, `PagesShowDecisions`.  What the page relies on (`Reliable`) is what the
  answers in flight say and that an undone decision is in the log; `VisitOK` says of a
  page for which calls it waits, that it remembers what it decided, and that it did so
  once.

**Server** (`ServerProofs`): `ServerTypes`, `NeverOnOldSchema`, `PoolNeverLeaks`,
`TokensAlwaysDecide`.  `Pooled` counts the holders of connections with the idle ones,
through refusals, panics and restarts; `Serving` ties requests to a process that has
migrated; `RequestsOK` says what each guard has established.

**Mail** (`MailProofs`): `MailTypes`, `EveryMailAccounted`.  `BalancesOK` is a balance of
each message: invocations done and due against one publish, its failures and the
redeliveries.  From it follows that a second copy has a cause.

**Onboarding** (`OnboardingProofs`): `OnboardingTypes`, `FamiliesAreKept`, `LinksWork`,
`OneUserPerInvitation`, `AccountsAreRight`, `AnswersAreRight`.  `RowsFit` and `WorkersFit`
say how rows refer to each other and what a worker between two statements has made;
`FamilyFresh` that a client just inserted is one worker's, `NoAccountYet` that one worker
inserts a user's account.  That an invitation makes one user follows from the unique
email, not from `used_at`, which redeem.rs does not read.

**Passwords and the table of users** (`UserTableProofs`): `PasswordTypes`, `UserTypes`,
`NewestLinkAlwaysCounts`, `PasswordsAnswerRight`.  `MailingFits` says that a link being
mailed is the one that is stored, and the only one, unless `unclear` excuses the user;
`TokensFit` that a token is written once, before it is mailed, so that a dead link stays dead
while the reset it is used for goes on.

**Client** (`ClientProofs`, all of `ClientSpec`).  A step of the client is a step of one
part, so it runs each of them (`ClientRunsAccount`, ...), and each part keeps an invariant
of its own.  They have one idea in common: what an answer does is decided when it arrives,
so the invariant says of the answers still awaited what the page relies on then.

* `ClientTypes`.  That calls stay within the bound needs `RoomToAsk`: a call is left for every
  submission in flight, as its success asks for the account.
* `ClientPagesShowTheirOwn`.  On an account page that is not `marred`, `OwnPageOnly`: what
  is awaited is for its account and sub-page, and on the top page it is a single call; if
  that was served, it brings every change the admin was told of.  So its answer
  can replace what is shown (`HasTold`).  On the home page, `ListWaits` and `ChangesWait`:
  the list is awaited alone, before anything can be clicked, and afterwards an answer that
  has come is of an investor whose button spins and agrees with the database, so that
  what is shown does too (`FlagsAgree`).  `WasFits` says of marred pages too that the flags
  an answer brings were true at some time.
* `ClientFormsActOnce`.  `FillSentOnce` and `SentOnce` say of the calls that were sent what the
  properties say of those carried out; `SentFillSpins` and `SentFormSpins`, that what was sent
  without an error is under the spinner, so that the next submission of it is excused.
  `OwnAnswersOnly`: a form filled in when no answer was awaited gets answers of its own only, so
  that the answer which clears it is of a call that was carried out (`ClearedWasDone`).
* `SessionTypes`, `TabShowsItsSession`, and of the client `ClientTabsAreSessions`.
  `CallsAreSessions` is what makes data the session's own: unless `crossed`, every private
  call in flight is of the session, or of the one that has just ended, and of the area
  that is shown.  `RoomKept` counts the answers that may still put off a navigation.
* `MessagesGoInTime`, and of the client `ClientMessagesAreTimed`.  Each message on the
  screen has the timer it was added with, and no timer is overdue; the numbers on the
  screen are below the next one.

Every invariant and every other safety property of a passing run is the subject of one of these
theorems.  Only model-checked:

* Liveness (`PublishedIsSent`, `EveryRequestEnds`, `AllSpinnersGo`, `SignedOutLeaves`,
  `ScreenClears`): fairness and ENABLED are out of the prover's reach.
* The violations, which are about one behaviour each.
* The factors themselves: `Growth` is a table, as real powers cannot be expressed.

## What is left out

* The floating-point power of the interest is the constant table `Growth`; rates
  below -100% (a root of a negative number) and overflow of `f64` to `i64` are
  excluded by `InterestAssumption`.
* The order of `created_at` against the order of commit within one INSERT.
* Hashing and signatures: a hash is its password, a token is the user it names
  and its expiry, and a forged one does not decode.
* Names and message texts, the validation of passwords beyond their length.
* Which rate an unstorable rate is near: the statement fails as a whole.
* `Nav.pushUrl` and the `OnUrlChange` that follows are one step; a statement of the
  database fails or succeeds, it does not hang.
* A role has one private page in `Session`, and as many queries in flight as `Calls`;
  further ones are not followed.
* View helpers, generated bindings, the static site and the `hello` lambda have no state;
  the migrations appear as the number of them the database has seen, and their indexes
  and column types as guards.  Of the read queries, names and addresses of users are
  not modelled: no property reads them.

## Plan

Done: every module model-checked, and every safety property of the runs proved.

Still worth having: in `Session`, several private pages for a role, whose data would then
have to be told apart; the `users' query with names and addresses; a server that is slower than
one step in `AccountPage` and `FormPages`, as in `HomePage`.
