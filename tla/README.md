# Kartographe in TLA+

Kartographe is a web application in which the members of an account describe
their software: applications and their routes, databases and their versions,
user journeys, features, services.  A FastAPI back end (`src/apps/back`) keeps
everything in PostgreSQL; a React single-page client (`src/apps/front`) shows it
through a cache of the API's answers and keeps the user's session in the browser.
This directory holds TLA+ models of the parts of both whose correctness depends
on more than one row, request, tab or screen, the TLC configurations that check
them, and theorems about them that TLAPS proves.

## How the back end runs

* A route is a synchronous function.  FastAPI serves it on a **thread of a
  pool**, so two requests run at the same time, in one process or in several.
* `get_session` (`database.py:35-48`) gives a request one SQLAlchemy session and
  rolls it back on any exception.  PostgreSQL runs under its default isolation,
  **READ COMMITTED**: every query sees what was committed before it, and nothing
  stops another request from committing between two of them.
* A route's dependencies (`utils/dependencies.py`) read the rows it names and
  answer 404 or 403; the manager (`managers/*.py`) reads more, decides, writes and
  **commits**.  No query takes a row lock and no row has a version number.
* An UPDATE carries only the columns whose value the handler changed from what
  it read: a stale read does not undo another request's change to other columns.
* Nothing is deleted.  A row has an `enabled` column that `_disable` and
  `_bulk_disable` (`managers/_base.py:158-170`) clear, and every cascade is a
  list of UPDATEs written by hand in a `soft_delete`.

So the shape of nearly every operation is *read, check, write, commit*, and what
can go wrong is what happens between the read and the commit, or what a cascade
or a status transition forgets.  Each model has the same three kinds of step:
`Load...` (the request arrives and its rows are read), `Check...`/`Query...`/
`Walk`/`Reread` (a later query) and `Write...` (the writes and their commit).
What a request has read stays in its record, `request[w]` for worker `w`.
`Abort` is an exception or a killed worker: the transaction is rolled back.

## How the client runs

* A tab runs one callback at a time.  What a handler does between two `await`s is
  one step; other tabs, the server, the clock and the network act in between.
* Every screen reads through one TanStack Query cache
  (`lib/tanstack/react-query/query-client.ts:15-22`: an answer is fresh for thirty
  seconds, one retry, no refetch on focus).  A handler awaits its mutation and
  **then invalidates, by API path, the queries it believes the write has changed**.
  Which ones is written by hand at some 150 places; a forgotten one leaves the old
  value on the screen.
* The session - an access token and a refresh token - is one item of
  `localStorage`, shared by all tabs and read at each use
  (`lib/auth/token-storage.ts`).  A middleware (`api/client.ts`) signs each request,
  lets those that find the access token expired wait for **one refresh per tab**,
  and clears the session on a 401.

## Components

| component | code | state | operations | what is hard | correct means | modelled |
|---|---|---|---|---|---|---|
| Account membership | `account.py`, `account_users.py` | account row; seats (`account_user`) with status, role, enabled, source invitation | create an account, change a role, remove, leave, make leave, (de)activate and delete the account | the last-owner guard reads and a later commit writes; two ways to depart, only one of which frees the unique index | always an active owner; a departed seat stays departed | `Membership`, `Roster` |
| Invitations | `account_invitations.py`, `me_invitations.py` | invitation rows with status, role, expiry | invite, re-assign, resend, cancel, lazy expiry, accept, refuse | two sides act on one row; expiry is found out by the reader and committed on its own | one standby invitation per address; one seat per accepted invitation, with the role offered | `Membership` |
| Journey steps | `journey.py`, `journey_scenario.py`, `journey_scenario_step*.py`, `utils/bulk.py` | journey, scenarios, steps with their parent, what hangs off a step | create (alone or in bulk) with adoption of followers, move, delete a subtree, add and delete scenarios, delete the journey | subtrees are walked query by query; an insertion re-parents other rows | a tree in each scenario, fully reachable from its roots; complete cascades | `StepTree` |
| Database versions | `database_version.py`, `database.py`, `database_table.py` | versions with status and activity window, tables, columns | create, activate, archive, back to draft, delete a version or the database, add and delete tables and columns | activation reads who is active and archives them; stale dates; cascades over ids found earlier | at most one active version; window matches status; complete cascades | `DatabaseVersions`, `CurrentVersion` |
| Query cache of the client | `query-client.ts`, `invalidate-entity.ts`, and every handler that invalidates | one entry per API path: answer, fetch in flight, invalidated, stale | mount, navigate, fetch, retry, fail, write, invalidate, collect | a write commits while an older answer is on its way; navigation aborts; two writes at once | a settled screen shows every acknowledged write made on it; refetches end | `QueryCache` |
| Pages of the client | `features/**`, `routes/**` | what a page, drawer or modal shows; the writes it offers | - | which queries carry which facts | each handler refreshes what its page shows | `Panels`, five `...Screens` modules |
| Session of the client | `api/client.ts`, `lib/auth/*` | stored session, shared refresh and waiting requests of each tab | sign in, sign out, guard, refresh, sign a request, react to 401 and 403 | a refresh in flight while another tab signs out or in, while the page reloads | nobody waits for nothing; no session comes back by itself | `Sessions` |
| Sign-in on the server | `auth.py`, `token.py`, `me_security.py` | codes, `token_control`, second factors | sign in, refresh, change the password | expiry, attempts | - | in part (`Sessions`: `token_control`, the bearer check, the refresh) |
| Soft-delete and update base | `_base.py` | lock fields, `enabled` | guarded PATCH, DELETE, bulk PATCH | the lock is read with the row and not looked at again | a locked row does not change | in part (the UPDATE and `_bulk_disable`); the lock is planned |
| Table columns | `database_table_column.py`, `..._index.py`, `..._constraint.py` | columns with positions, keys and references | create, reorder, update, delete | reorder races with create; references to deleted columns | distinct positions, no dangling reference | planned |
| Sub-fields | `database_table_column_subfield.py` | tree of nested fields | create nested, move, delete | same walk as steps; depth limit checked in one path only | acyclic, bounded depth | planned |
| Migrations | `database_migration*.py` | migration with two versions, column steps | create, re-target, map columns | re-targeting does not look at the steps again | steps belong to the versions | planned |
| OAuth grants | `oauth.py`, `me_integrations.py` | clients, codes, grants, tokens | authorise, exchange, refresh, revoke | writes are committed after the response was sent; expiry; refresh rotation | a code is exchanged once, a revoked grant gives no token | planned |
| Votes, complexities, comments | `vote.py`, `complexity.py`, `comment.py` | a row per voter and entity; threads | upsert, reply, delete | look-up then insert; cascade one level deep | one row per voter | on the server planned; their panels are in `Panels` |
| Applications | `application*.py` | an application and some fifteen kinds of children | create, read, update, delete | the list of cascades | complete cascades | planned with the other cascades; their pages are in `ApplicationScreens` |
| Features, personas, services, tags, links | their managers | rows with little state of their own | create, read, update, delete | - | - | not on the server; their pages are in `CatalogScreens` and `JourneyScreens` |
| Search, counts, statistics, usage, licensing | `search.py`, `entity_counts.py`, `stats.py`, `usage.py` | derived from rows at each call | queries | - | - | not modelled |
| Files | `files.py` | object store | put, delete | a failure between store and commit | no row without its object | not modelled (external) |
| Rest of the client | generated routes and API types, theme, translations, editors, sign-in forms | none that outlives a page | - | - | - | not modelled |

On the server components meet in the database only: there are no queues, no
callbacks and no background jobs.  The client meets the server in two places: the
answers it caches and the tokens it holds.  The e-mail of an invitation is sent between the INSERT and the
commit; it is not modelled.
`PROJECT.json` lists, under `hazards`, each place where the code can go wrong in
a way a test with one request at a time would hardly show, and the properties
aimed at it.

## Modules

| module | what it is |
|---|---|
| `Membership` | seats and invitations of one account, and the account row |
| `Roster` | abstract: who holds which role; whoever gives up *owner* leaves another owner |
| `StepTree` | scenarios and steps of one journey, and which steps have parts |
| `DatabaseVersions` | versions of one database with their tables and columns |
| `CurrentVersion` | abstract: the versions in being and the one that is current |
| `QueryCache` | one entry of the client's cache, navigation, fetches and writes, over a given table of pages |
| `Panels` | the vocabulary pages are described in, and the components several areas share |
| `ApplicationScreens`, `DatabaseScreens`, `JourneyScreens`, `CatalogScreens`, `AccountScreens` | the pages, drawers, forms and lists of each area |
| `Sessions` | the stored session, the tabs that share it, their refreshes and requests |
| `MCMembership`, `MCStepTree`, `MCDatabaseVersions`, `MCScreens`, `MCSessions` | instances for TLC; `MCScreens` composes `QueryCache` with all the pages |
| `MembershipProofs`, `MembershipApartProofs`, `StepTreeProofs`, `DatabaseVersionsProofs`, `QueryCacheProofs`, `SessionsProofs` | theorems and their proofs |

The three components of the server share no row, so no module composes them;
two are composed with their abstract specifications by `INSTANCE ... WITH`
(`RosterSpec`, `CurrentSpec`).  The client's pages are composed with its cache in
`MCScreens`.  The constants common to the three modules of the server:

* `Worker`: the threads.  Two are enough for every race found, each of which has
  one request read before, and commit after, the commit of another.
* `Serial`: with `TRUE` a request starts only when no other is in flight.  Its
  steps remain separate, and it may still be aborted between any two of them.
  Several properties the source states hold in these runs and not whenever requests
  overlap: the runs that expect a violation show what happens then, and *What is
  proved* names for each the few requests that must be kept apart.
* the sets of rows are bounds: a row starts as `"none"` and is used once, since
  the program never reuses a row.

A definition named `X_Something` just before `X` is a mistaken form of `X`; the
`mutants` of `PROJECT.json` say which property it breaks.

### Membership

`seat[<<u, n>>]` is the n-th `account_user` row of user `u`; `invitation[<<u, n>>]`
the n-th invitation of u's address.  Rows are numbered in the order they are made,
which stands for their UUIDs and loses nothing: no code compares them.

| action | code |
|---|---|
| `LoadRole`, `CheckOwner`, `WriteRole` | `AccountUsersManager.update_role` with `require_role` and `get_target_account_user` |
| `LoadRemove`, `CheckOwner`, `WriteRemove` | `soft_delete`: clears `enabled`, leaves `status` |
| `LoadLeave`, `CheckOwner`, `WriteLeave` | `leave`, `leave_member`: sets `status` to disabled, leaves `enabled` |
| `LoadInvite`, `WriteInvite` | `AccountInvitationsManager.create_many`, all rows or none |
| `LoadReassign/Resend/Cancel`, `Write...` | `update_role`, `resend`, `cancel` |
| `Lapse` | the clock passes `expire_date` |
| `LoadAnswer`, `WriteExpired`, `RereadAnswer` | `MeInvitationsManager.get` and `_take_pending`, with its lazy expiry and refresh |
| `CheckNotMember`, `WriteAccept`, `WriteAcceptConflict` | `accept`, with the unique index `unique_account_user_active` |
| `WriteRefuse` | `refuse` |
| `LoadAccount`, `WriteAccount` | `AccountManager.set_status`, `soft_delete` |
| `Init` | `create_account`: the creator is the only owner |

Abstracted: the reads of a request's dependencies and of the row it acts on are
one step, `Load...` (they run one after the other at the start of the request,
and the race they could add, a caller demoted between them, is the race between
`Load...` and `Write...` again); a user and the user's e-mail address are one
value; of the expiry only whether it has passed; the active window
`start_date`/`end_date` of a seat, which adds nothing to its status.
`get_target_account_user` finds seats that were left, and so does `Target`.
Left out: `vote_role` and the preferences of a seat, the account's name and
picture, and the status *blocked*, which no route sets.

### StepTree

`step[s]` is a row with its scenario (`home`) and the step it follows (`parent`);
`parts` the steps with an enabled file, assertion or route link.

| action | code |
|---|---|
| `LoadCreate`, `CheckItem`, `WriteCreate` | `bulk_create` over `JourneyScenarioStepManager.create`, or one create; INSERT, `_adopt_former_children` and the commit |
| `LoadMove`, `Walk`, `WriteMove` | `update` with a parent: `_assert_parent_in_scenario`, `_descendant_step_ids`, `apply_update` |
| `LoadDelete`, `Walk`, `WriteDelete` | `soft_delete` of a step and its subtree |
| `LoadPart`, `WritePart` | create and delete of files, assertions and route links |
| `LoadAddScenario` ... `WriteDropJourney` | create and delete of a scenario, delete of the journey |

`Walk` is one query of the loop, so other requests commit between two levels of
a walk.  Abstracted: the content of rows; the lock, which refuses a PATCH or a
DELETE like a request that is not sent; a PATCH without a parent, which changes
nothing modelled.  The INSERT, the adopting UPDATE and the COMMIT of a creation
are one step: two creations after the same step whose UPDATEs both miss the
other's uncommitted row, and so leave a fork, are not seen; a fork is a legal
tree.  A bulk call resolves its scenario once and goes on after an item that
failed, as the code does.  `_adopt_former_children` re-parents locked steps too.

### DatabaseVersions

`version[v]` has the status and, as Booleans, whether the start and the end date
are set; `columns` is the set of tables that have an enabled column.

| action | code |
|---|---|
| `LoadCreate`, `WriteCreate` | `DatabaseVersionManager.create`, alone or from the bulk route |
| `LoadStatus`, `Reread`, `QueryOthers`, `WriteStatus` | `update` and `activate`, `archive`, `draft`; `Reread` after the separate commit of a version tuple |
| `LoadDrop`, `LoadDropAll`, `QueryTables`, `WriteDrop` | `soft_delete` of a version and of the database |
| `LoadAddTable`, `WriteAddTable`, `LoadTable`, `WriteDropTable`, `WriteColumns` | `DatabaseTableManager.create`, `soft_delete`, `update`; the column manager's effect on whether a table has columns |

A date that was already set is rewritten with a later one, which the model does
not tell apart; a date is cleared only if it was read as set, because an UPDATE
carries no unchanged column.  Sub-fields, indexes, constraints and migrations
that refer to a deleted version are left out (the code's cascade does not
reach them either).

### QueryCache and the pages

The application decides one table, `Pages`: for each place (a page, alone or with a
drawer or a modal over it) what it *shows*, as pairs of a query and a fact, and the
*writes* it offers, each with the facts it changes on the server and the queries its
handler invalidates.  The cache library decides the rest.  Entries of the cache do
not interact, so a behaviour follows one entry and one fact of its answer, chosen
in `Init` and kept; a place then matters only by its `View`: whether it reads the
entry, and which writes it offers.  What holds for every choice holds of all.

| action | code |
|---|---|
| `Stay`, `Move` | navigation: the observer stays, or unmounts (which aborts the fetch and restores the entry) and another mounts |
| `Age`, `Forget` | `staleTime`; the collection of an entry nobody watches |
| `Serve`, `Arrive`, `Fail` | the fetch: read by the server, answered, or lost, with one `retry` |
| `Send`, `Commit`, `Reject`, `Settle` | `await mutateAsync(...)`, the server's commit, the rejection, and the `invalidateQueries` of the handler |
| `Init`'s `views`, `View`, `Offer` | the handlers and hooks of the pages, through the `...Screens` modules |

How to read a screen: `Screen(shows, writes)` is one component, `Over` a component
with those inside it, `Shows(query, entity, aspects)` the facts it takes from a
query, and `Form(entity, queries)` handlers that create, edit or delete the entity
and invalidate the queries.  A query is named by its path, a star for each
identifier, because the client invalidates by path template.  The aspects of an
entity are its content, its listing, and the three tallies (comments, votes,
estimates) that come with other people's answers.  Each definition carries the name
of the component it stands for and `map` gives its lines.

Two facts of the library matter and are modelled as configured here: an
invalidation restarts a fetch in flight only if an answer is held (during a first
load it joins it), and a fetch that nobody waits for any more is aborted and the
entry restored.  `owed` and `lacks` record a debt to the screen: a write made where
the fact is displayed has been acknowledged, and the answer held, or the one on its
way, was read before it.  They are auxiliary and no guard reads them.

`ContentGaps` and `TallyGaps` in `MCScreens` list where a page displays a fact and a
write offered there does not refresh the query it came from:

* status and lock of a migration refresh the listing while the page shows the
  detail too (`migration-columns-screen.tsx:221`), and the form, status and lock of a
  scenario refresh one of the listing and the detail (`scenario-form-modal.tsx:103`);
* a reply refreshes the replies only (`comment-thread.tsx:92`), an estimate the
  estimates only (`complexity-panel.tsx:119`), and the comments of columns and of
  migrations another query than the one that carries their tally.

No source says the first must follow at once, so `screens` leaves both out; the
second contradicts a comment, and `screens_counts` puts it back in.

Left out: `setQueryData` (one use, the preferences of views), which leaves those
preferences read-only here; drafts of forms; the optimistic order of columns.

### Sessions

`session` is the item in `localStorage`, `page[t]` whether tab t is on a signed-in
page, `refresh[t]` the shared promise `refreshInFlight`, `request[r]` a request of
tab `r[1]` with the bearer it carries.  `control[u]` is the user's `token_control`,
embedded in each token and compared by the server.

| action | code |
|---|---|
| `SignIn`, `SignOut` | `useAuthSuccess`, `useTwoFactorComplete`; `logout` |
| `Navigate`, `Reload` | `requireSession`; a page load, which drops what the tab had in memory |
| `Expire`, `Rotate` | `exp` of the tokens; a password changed or reset (`me_security.py`) |
| `AskSigned`, `AskBare`, `AskRefreshed` | `onRequest` and `refreshAccessToken` |
| `Issue`, `Renew`, `GiveUp` | the refresh on the server, `updateSession`, and the `catch` that clears the session |
| `Answered`, `Forbidden`, `Unauthorized` | `onResponse` |

Abstracted: an access and a refresh token issued together are one token with a
lifetime of two parts; a sign-in, with its second factor, is one step at its answer;
a load and a store of `localStorage` in one callback are one step; the return to the
page that asked for the sign-in is left out, and so is the former copy in
`sessionStorage` that is read once and moved.

## What the runs check

| run | instance | states | properties | what it shows |
|---|---|---|---|---|
| `membership_serial` | 2 users, 2 seats and 2 invitations for each, roles owner and administrator, 1 worker | 83 thousand | `OwnerKept`, `AcceptedHasSeat`, `SeatsAnswerInvitations`, `DeletedWasDisabled`, `RosterSpec`, `SeatedWithOfferedRole` | requests one at a time keep an owner, keep seats and invitations in step, and implement `Roster` |
| `membership_races` | the same, roles owner and member, 2 workers; second invitations offer ownership | 1.6 million | `TypeOK`, `UniqueRows`, `DepartedStaysDeparted` | what the unique indexes and the column-wise UPDATE guarantee whatever overlaps |
| `membership_last_owner` | one role, 1 seat each, 2 workers | - | `OwnerKept` is violated | two owners leave at once |
| `membership_removed_member` | 1 worker | - | `NonMemberCanAccept` is violated | a removed member cannot accept a new invitation |
| `step_tree_serial` | 4 steps, 2 scenarios, 1 worker | 42 thousand | `Acyclic`, `NothingOutlivesItsParent`, `EveryStepIsRead`, `InsertKeepsOrder` | requests one at a time keep a tree and complete cascades; insertions keep the order |
| `step_tree_walks` | 2 steps, 2 scenarios, 2 workers, no symmetry | 192 thousand | `TypeOK`, `ParentInScenario`, `WalkEnds` | whatever overlaps, parents stay in their scenario; under fairness the loop over a subtree ends, in a ring too |
| `step_tree_ring` | 2 steps, 2 workers | - | `Acyclic` is violated | two moves that overlap close a ring |
| `versions_serial` | 3 versions, 2 tables, 1 worker | 64 thousand | `TypeOK`, `DatedByStatus`, `AtMostOneActive`, `WindowMatchesStatus`, `NothingOutlivesItsVersion`, `CurrentSpec` | requests one at a time keep one active version and implement `CurrentVersion` |
| `versions_two_active` | 2 versions, 2 workers | - | `AtMostOneActive` is violated | two activations that overlap |
| `screens` | every page of the client, 2 writes under way | 290 thousand | `TypeOK`, `ScreenKeepsUp`, `ShownOnceQuiet` | whatever interleaves, a settled screen shows the acknowledged writes made on it, and once all is quiet it gets there |
| `screens_counts` | the same with the tallies included | - | `CountsFollow` is violated | a count stays behind the comment or estimate that changed it |
| `sessions` | 2 users, 2 tabs, 3 requests, 1 rotation | 148 thousand | `TypeOK`, `NobodyWaitsForNothing`, `NoComeback`, `SentWithStoredSession`, `EveryRequestEnds` | the tabs of a browser do not undo each other's sign-out, and no request hangs |

Every property of a passing run has a mistaken form of a definition that breaks
it (`mutants` in `PROJECT.json`), so none holds by the shape of the model; `UniqueRows`
has three, one for each commit that an index may refuse.  What
the serial runs check of requests one at a time, the `...Apart` theorems prove of
requests that overlap, save for the pairs each of them names.

### Bounds

* Two seats and two invitations of one user are what the hard orders need: leave,
  be invited again and accept, on a second row; an expired invitation resent after
  a new one was sent.  A third repeats the second, because no code looks further
  back than "another row of this user".
* `membership_races` has them with two workers, so that two invitations of one address
  overlap, and an expired one is resent beside a newer one.  Two definitions of
  `MCMembership` keep it small.  `OneOfferOnceInvitedAgain` (a CONSTRAINT) goes no further
  where an address with two invitations is offered another role than *owner*; roles of
  seats stay free, and the roles of invitations play no part in `UniqueRows` or
  `DepartedStaysDeparted`.  `Relevant` (a VIEW) identifies states that no later step and
  neither property can tell apart: the invitation a seat came from, the role of a removed
  seat, which answer ended an invitation, and the expiry date of one that is not standby.
* Two users: the creator and one who joins, is promoted and may remove the creator.
* Four steps serially hold a chain to move under itself, a sibling to be adopted
  and a step of another scenario.  Two steps with two workers are what two racing
  moves need to close a ring for a third walk to meet; with more steps the
  properties of that run but `WalkEnds` are proved.
* Three versions serially: one active, one to activate and one archived.
* `screens` has no small set of pages: it has them all.  Two writes are enough for a
  second invalidation to meet the refetch of the first, and a second commit the
  answer on its way; `ScreensKeepUp` proves the safety half for any number.
* `sessions`: two users, so that a token can be another user's; two tabs, of which
  one has two requests to share a refresh and the other one to interfere; one
  rotation (`Rotations`) separates tokens issued before and after it.
* The runs turn deadlock checking off: an account that is deleted, or an instance
  whose rows are all used up, has no further step, which is what the bounds mean.

### Symmetry

Workers, steps, scenarios, versions and tables are interchangeable: no operator
orders or chooses among them.  The users other than the creator are too; the
numbers of rows are not.  `step_tree_walks`, `screens` and `sessions` check liveness
properties and use no symmetry; `screens_counts` exchanges the two callers.

### Fairness

The safety properties are about `Spec`, without fairness.  `FairSpec` of `StepTree`
adds weak fairness of `Walk(w)` for each worker and of nothing else: in the loop of
`_descendant_step_ids` the next query waits for no other request, and plain
SELECTs take no lock, so a worker in it goes on until it is done.  No request is
assumed to arrive, to succeed or to be aborted.  `WalkEnds` is not obvious under
it, because two racing moves can close a ring (`step_tree_ring`) and because the
other worker may go on moving steps: it is the exclusion of ids found before that
bounds the loop.  Other liveness properties of the server would restate that a
handler without a loop comes to its end.

`FairSpec` of `QueryCache` has weak fairness of `Serve` and of `Arrive`: a fetch that
stays in flight is answered, since `fetch` ends with an answer or an error and the
errors are limited to one retry.  No user, failure, clock or write is fair.
`ShownOnceQuiet` assumes in its premise what it needs of them: the user stays, the
writes are over, the last fetch did not fail.  `FairSpec` of `Sessions` has weak
fairness of `Renew \/ GiveUp` for each tab and of `Answer` for each request: the
browser ends every call, with what the server says or with an error.  Neither says
which, and `Issue` is not fair: a refresh may always fail.

## What the violations show

Each is a sentence of the source that does not hold of what the code does; the
traces are short and use documented operations only.

1. **An account without an owner** (`membership_last_owner`).  `account_users.py:7-9`:
   "an account must always keep at least one active owner".  The guard (line 73)
   is a query and the write a later commit.  Two owners leave; both queries find
   the other; both commits go through.
2. **A removed member cannot come back** (`membership_removed_member`).
   `soft_delete` (`account_users.py:142`) disables a seat and leaves its status
   active; the unique index (`models/account_user.py:35-41`) looks at the status
   alone; `accept` (`me_invitations.py:80`) looks for a seat that is active *and*
   enabled.  The new invitation passes the check and fails at the commit, and so
   does every later one.  No overlap is needed.
3. **Steps in a ring** (`step_tree_ring`).  `journey_scenario_step.py:7`: "Steps form
   a tree inside a scenario".  Moving a under b while b moves under a, both walks
   done before either commit.
4. **Two active versions** (`versions_two_active`).  `database_version.py:7-10`: "a
   database has at most one active version at a time".  Two activations that
   both query before either commits archive nothing of each other's.
5. **A count left behind** (`screens_counts`).  `invalidate-entity.ts:76-79`: "call
   after a comment or a vote is added/removed so its `commentCount` / vote tallies /
   `myVote` refresh wherever the entity is shown".  A reply counts as a comment and
   refreshes the replies alone; an estimate refreshes the estimates alone.  The page
   behind the drawer keeps the old count until something else refetches it.

The same overlap breaks the other properties listed at the end of each module of
the server; *Which requests must be kept apart* says which overlap it takes.  Four such cases were met while choosing the runs and
have no run of their own: an accept that commits between the check and the
write of `cancel` leaves a seat from a cancelled invitation
(`account_invitations.py:135`); resending an expired invitation after a new one
was sent is refused by the unique index with a server error (line 122, without
overlap); a step created under a step that is being deleted survives it; a table
created between the query and the UPDATE of a version's deletion is disabled
and its columns are not (`database_version.py:118-131`).

Six more were met while modelling the client and have no run: of the first four
the source makes no promise, the last two differ from a comment at their line.

* a 401 to a request of an earlier session, or the failure of its refresh, that
  arrives after a new sign-in clears the new session (`client.ts:81`, `client.ts:51`);
* a refresh started for one user that is answered after another has signed in
  from a second tab stores the first user's tokens as the session
  (`token-storage.ts:71`).  `NoComeback` holds: a session was stored;
* the order of columns shown while a reorder is saved is dropped when the awaited
  refetch ends, also when it ended because another invalidation cancelled it
  (`table-columns.tsx:430`);
* an invalidation during the first load of an entry joins the load, whose answer
  may be older than the write: `owed` starts only where an answer is held;
* `resolve-default-account.ts:29` reads the list of accounts from the cache, which
  a sign-out does not empty, so that within thirty seconds the next user of the
  tab can be sent to an account of the previous one and be refused there
  ("Resolving it against the real list", lines 20-22);
* `me_security.py:143` rotates `token_control` with the comment "sign out other
  sessions"; the session that changed the password is signed out with them, since
  its tokens carry the former value (`Rotate` in `Sessions`).

## What is proved

TLAPS proves the theorems of the six `...Proofs` modules for every set of users,
roles, steps, scenarios, versions, tables, workers, pages, queries, facts, tabs and
requests, of any size.  They rest on the named assumptions of each module and no
other: the creator is a user, addresses belong to users, *owner* is a role and
*none* is not, row numbers are naturals and 1 is one of them, the null values lie
outside the sets of rows, `Serial` is a Boolean, the table of pages is well formed
(`QueryCacheAssumption`), and a request belongs to a tab (`SessionsAssumption`).

| theorem | says | argument |
|---|---|---|
| `TypeCorrect` (five) | `Spec => []TypeOK` | one step per action; the records of requests are in the named sets |
| `UniqueRowsCorrect` | `[]UniqueRows` | inductive in its two halves: `WriteAccept` and the inserting and re-opening writes are guarded by the index, and no other step sets *active* or *standby* |
| `AcceptedHasSeatCorrect` | `[]AcceptedHasSeat` | with `FreeRowsPointNowhere`: the row `WriteAccept` takes was free and so was no other invitation's seat |
| `DepartedStaysDepartedCorrect` | the action property | the writers of a seat change one column each, and none sets *active* or *enabled* on a row in use |
| `ParentInScenarioCorrect` | `[]ParentInScenario` | `ParentInv` |
| `InsertKeepsOrderCorrect` | the action property | a set closed under the children after an insertion was closed before it (`ClosedBefore`) |
| `WalkGrowsCorrect` | an action property: a walk that goes on after a query has found a step it had not | `Walk` removes from the answer what it has already; a walk that finds nothing new is over |
| `DatedByStatusCorrect` | `[]DatedByStatus` | inductive: each commit that sets a status sets its date, and clears a date only of another status |
| `ScreensKeepUp` | `Covered => (Spec => []ScreenKeepsUp)` | `KeepsUpInv` |
| `NobodyWaitsCorrect` | `[]NobodyWaitsForNothing` | inductive: every step that ends or drops a refresh also releases or drops the requests of its tab |
| `NoComebackCorrect`, `SentWithStoredSessionCorrect` | the two action properties | step by step: the only writer of a session other than a sign-in writes none over none, and a waiting request is resumed with what that step stores |

### Which requests must be kept apart

The other properties are false of `Spec` without `Serial`: what a request is about to
write depends on what it read, and another may commit in between.  Each is proved
in the form `Spec /\ []C => []P`, where the condition `C` says of two workers' requests
what they may not be doing at the same moment.  `C` is what a lock held from that
read to the commit would give; all other requests overlap freely, also with the two
named.  So a theorem says both which lock would make the sentence
of the source true and that nothing else can break it.

| theorem | condition | kept apart |
|---|---|---|
| `OwnerKeptApart`, `RosterSpecApart` | `TakersApart` | two requests that both may take an owner's seat, each between its owner query and its commit |
| `SeatsAnswerInvitationsApart` | `AcceptsApart` | an accept that has passed its checks, and whoever else has read the same invitation in order to answer, cancel or reopen it |
| `SeatedWithOfferedRoleApart` | `OffersApart` | an accept that has read the role, and a re-assignment of the same invitation |
| `DeletedWasDisabledApart` | `DeletionsApart` | a deletion of the account and an activation of it |
| `AcyclicApart` | `MovesApart` | a move about to commit and any other move under a step in the same scenario |
| `NothingOutlivesApart` (steps) | `DropsApart` | a deletion under way and a creation about to commit, a move, or an attachment where it deletes |
| `EveryStepIsReadApart` | both of these | as for the two above |
| `AtMostOneActiveApart`, `CurrentSpecApart` | `ActivationsApart` | two activations of different versions, each between its list of the active ones and its commit |
| `WindowMatchesStatusApart` | `WindowsApart` | a change of status about to commit the dates of a version, and one that goes by the dates it read of that version |
| `NothingOutlivesApart` (versions) | `DropsApart` | a deletion about to commit, and a creation under what it deletes |

That no condition is empty is what `SoleRequestCorrect` shows in each module: with
`Serial` at most one request is in flight, hence every condition holds, and the
theorems named `...Correct` draw the property for the serial program, the one the
passing runs check.  That conditions are needed the three violations by overlap
show (`membership_last_owner`, `step_tree_ring`, `versions_two_active`): the trace of
each breaks the condition of its property.

The properties are not inductive, and what is added to each says that what a
request has read is still good enough when it commits:

* `OwnerInv` (`OwnerKept`): a request about to write a seat that it may take from an
  owner has another active owner (`CheckStillHolds`).  A promotion, an accept or a
  demotion that another worker commits meanwhile leaves that owner where it was, or
  is itself such a request.
* `AnswerInv` (`SeatsAnswerInvitations`): free rows point nowhere, and an invitation
  that somebody is deciding on has not been accepted (`OpenWhileDeciding`).  Refusals,
  cancellations and expiries may overtake each other: whichever commits last, no
  seat came of it.  A resend counts only if it read the invitation as lapsed, since
  one that read it as standby does not write the status.
* `RoleStillOffered` and `SeatReadInUse` (`SeatedWithOfferedRole`): an accept holds the
  role of the row, and a seat about to be written was in use, so that only `accept`
  seats somebody.
* `DeletedInv` (`DeletedWasDisabled`): an activation under way has an account to
  activate, a deletion one that is still disabled.
* `RosterInv` (`RosterSpec`): `OwnerInv` and the unique index on seats.  The index makes a
  user's role that of *the* live seat (`RoleOfLiveSeat`), the first turns the check of
  the last owner into the guard of `ChangeRole` and `Depart` in `Roster`.
* `ParentInv` (needs no condition): free rows are empty, each row's parent is a row in
  use of its scenario, and so is the parent a request has looked up.  A row in
  use stays in use in the same scenario (`RowsKept`), so an old look-up stays good.
* `AcyclicInv` (`Acyclic`): `ParentInv`, and for each move under way a set of steps that
  contains what its walk has found, is closed under children but for the frontier,
  and does not contain the step to move under unless the walk has found it
  (`Subtree`).  The set, not the ids, is what stays: a creation inside it makes it
  larger while the walk is on; a deletion or a move to the head only takes from it.  A move whose target is outside it cannot close a ring
  (`MoveKeepsAcyclic`: what a ring would hold beyond it was a ring before).  This is why
  creations and deletions need not be kept apart from a move, although they change
  what its walk has yet to read.
* `DropInv` of the steps (`NothingOutlivesItsParent`): what a request adds to is still
  enabled, and the ids a deletion has found are closed under children but for the
  frontier (`Placed`, `Gathered`), so that the commit leaves no orphan.  That every
  step is read follows from the two properties, by taking the set of steps that a
  walk from the roots misses (`TreeIsRead`).
* `ActiveInv` (`AtMostOneActive`, and the refinement of `CurrentVersion`): the list an
  activation holds has every active version but its own (`ListComplete`).
* `WindowInv` (`WindowMatchesStatus`): the dates a request goes by are the row's
  (`DatesCurrent`).  They matter because an UPDATE leaves out a column that was read as
  it should become: a date set in between would stay.
* `DropInv` of the versions (`NothingOutlivesItsVersion`): what a request creates under is
  enabled, and the tables a deletion has listed are all there are (`Placed`).
* `KeepsUpInv`: `Covered`, the hypothesis, says of the table that a handler refreshes
  what its page displays of the facts the write changes, save the gaps.  From it
  `Refreshed`: a call made where the fact is displayed will invalidate the entry.
  `Marked`: only a watched entry is being fetched, an answer on its way is never
  older than an acknowledged write (the invalidation restarted it), and what is owed
  is marked invalid, so that a watched entry is being fetched again or has failed.
  That the client's own table is covered is what the run `screens` checks.

`Acyclic`, `EveryStepIsRead` and `Follows` are stated with sets of steps and not with
paths, which is what lets them be proved without an induction over paths.

### Model-checked and not proved

* `WalkEnds`, `ShownOnceQuiet`, `EveryRequestEnds`: liveness under fairness is out of
  the prover's reach, since it needs ENABLED.  Every invariant, action property and
  refinement the passing runs check is proved.  Of `WalkEnds` the part that is no
  liveness is proved too: `WalkGrowsCorrect` says that each query of a walk but the
  last adds a step to what it has found, whatever other requests do and also on a
  ring.  What is left to TLC is that a fair worker makes the next query, and the
  counting that ends a sequence of larger and larger subsets of `Step`.
* No definition is recursive, and nothing here needs an induction over data,
  which the prover could not do either.

## What is not modelled

Besides the components the first table marks so: the content of rows, filters,
sorting and pages of listings; validation of forms (a request that fails it is one
that is not sent); permissions other than those that decide which seats change;
e-mail; object storage; the size of the connection pool; the migration of the
schema; failure of the database itself, which a rolled-back transaction stands for.
Of the client: layout, translations, editors, generated code, drafts of forms, the
preferences of views, and the forms of signing in and up.

## Plan

In this order; each is one more module.

1. `Locking`: the lock of `_base.py` as a protocol of lock, unlock, PATCH and
   DELETE over rows that overlap, with `DatabaseTableManager.update`, which does
   not look at the lock; the property is that a row does not change between a
   lock and an unlock.
2. `TableColumns`: positions and `reorder` against creation, references of foreign
   keys and indexes to columns that are deleted or replaced, and the optimistic
   order of the client over it.
3. `SubfieldTree`: nested creation, the depth limit and moves; an instance of the
   argument of `StepTree` with the limit as a second invariant.
4. `Migrations` over `DatabaseVersions` and `TableColumns`: a module that composes
   them, where re-targeting a migration leaves its steps to the old versions.
5. `Grants`: codes, grants and tokens, with commits after the response, expiry and
   revocation; that a code is exchanged at most once.
6. The cascades of applications and comments, and votes, as one module over a
   table of kinds and their parents.
7. Preferences of a seat, whose whole map is written back from a stale read, with
   the client's patch of its cached answer.
