# A verification of the SaaS data platform on Kubernetes

TLA+ models of the parts of this repository that keep state and are called
concurrently, TLC runs over small instances of them, and TLAPS proofs of what
matters most. `PROJECT.json` lists the runs, the lines of the source each
definition stands for, the mutants that show each property can fail, the
hazards and the theorems.

To check a run: `tlc -config AgentRegistrations.cfg MCClusterAgent`. To check
the proofs: `tlapm ClusterAgentProofs.tla`, and so for each module whose name
ends in `Proofs` (a few minutes in all).

## 1. The system

A tenant has an *account*, an account has *workspaces*, a workspace runs in a
Kubernetes cluster of the tenant's, in which a *cluster agent* (the tenant
agent controller) installs *workspace applications*.

    UI ──> control plane API ──┬── Postgres (prisma)
                │              ├── Cerbos (permissions)
                │              └── certificate authority
                └─> Temporal ──> worker ──> Keycloak, Postgres, SMTP
                ▲
    proxy (mTLS)│ /agent/register, /agent/sync
                │
    tenant's cluster: bootstrap.sh, agent controller (kopf) ──> KubeVela

| component | state it keeps | operations | what is hard about it |
|---|---|---|---|
| Cluster agents (`workspace.service.ts`, `agent.controller.ts`, `mtls.middleware.ts`) | tables of agents, bootstrap tokens, mTLS credentials | `provisionWorkspace`, `generateBootstrapToken`, `registerWorkspaceClusterAgent`, `syncAgent` | each handler reads, awaits and writes without a lock or a second look; a registration waits for a certificate authority in between |
| Bootstrap script (`bootstrap.sh`) | the certificate in the cluster's secret | register, store | the answer may be lost after the commit |
| Account request (`admin.service.ts`, `account.service.ts`) | tables of accounts, members, roles | `provisionAccount` | commit and workflow start are two steps; two requests for one id race |
| Account workflow (`temporal/`) | Temporal's history; `accounts.status` | `provisionExternalAuth`, `updateAccountStatus`, `sendEmail` | attempts that are given up run on; answers are lost; compensation may fail too |
| Keycloak set-up (`KeycloakAuthAdapter.ts`) | a realm per account | `provisionAccount`: realm, roles, clients, owner, owner's roles, password | not a transaction; run by several attempts of several workflows at once |
| Workspace applications (`main.py`, `workspace_app.py`, `addon_handlers.py`) | the custom resource's phase and finalizers; the KubeVela addon | create, delete, status timer | patches are sent after the handler; restarts in between; a swallowed failure; a finalizer nobody removes |
| Workspace resource, agent client (`main.py`, `agent_client.py`, `workspace.py`) | the resource's phase; the loaded certificate | startup, create and delete handlers, sync timer | a stale certificate, a phase that is not set back |
| Workspace provisioning (`WorkspaceCreate.tsx`, `workspace.service.ts`) | table of workspaces; the form | submit, `createWorkspaceTx` | check-then-insert without an effective unique index; a form that may be submitted twice |
| Certificate service (`cert.service.ts`) | none of its own | choose a provider, issue a certificate | a remote authority without timeout; an expiry computed twice |
| Authentication, authorization (`middlewares/`, Cerbos policies) | the principal of a request | verify the token, resolve the principal, decide | roles are read once and used by several checks |
| Keycloak's other methods (`KeycloakAuthAdapter.ts`) | a realm | roles, users, clients' scopes, mappers, composites | each looks up and writes in two calls |
| Paged lists (`dataProvider.ts`, `list*` of the services, the list pages) | the query in the address bar, the answer | page, sort, search | count and page are two queries; rows come in between |
| Columns, filters, saved queries (`columns-button.tsx`, `filter-form.tsx`, `saved-queries.tsx`) | the browser's store | drag, hide, filter, save | the store outlives a release and is shared by all tabs; the query, or the saved one, changes under a dialog |
| Account form (`AccountProvisioning.tsx`, `select-input.tsx`) | provider, region | pick, clear, submit | a list that is not there yet; two look-ups of what belongs together |
| Console session (`keycloakAuthProvider.ts`, `authProvider.ts`, `RealmGate.tsx`) | stored realm, Keycloak client, token | choose, initialise, log in and out | other tabs; one initialisation per page, which only the first call waits for |
| Bootstrap card (`agent-bootstrap-command.tsx`) | the record it is drawn from | regenerate, refresh | fetches and answers that pass each other |
| API process (`index.ts`, `app.ts`, `config.ts`) | stage, port, open requests | start, listen, shut down | a signal while requests are under way |
| Seeds (`prisma/seeds`) | catalogue, system roles and principal | upsert in order | it dies in between, runs beside another, meets changed rows |
| Inputs of the UI kit (`date-input.tsx`, `number-input.tsx`, `simple-form-iterator.tsx`, `file-input.tsx`, `autocomplete-input.tsx`, ...) | the text shown beside the form's value; lists of items and of files; the text searched for | type, leave, add, move, remove, drop, choose, create | two values kept in step by hand; handlers that know an old list; records looked up by place |
| Notices of undoable deletions (`notification.tsx`, `delete-button.tsx`, `data-table.tsx`) | two queues, the selection, the toasts | delete, undo, let go | a notice and its deletion wait in different queues |
| Pages of a record (`create.tsx`, `edit.tsx`, `show.tsx`, `form.tsx`) | the record, edits, errors, saves under way | fetch, edit, save, cancel | edits and saves pass each other |
| Guessed pages (`list-guesser.tsx`, `edit-guesser.tsx`, `show-guesser.tsx`) | what was guessed, the last rows | draw, change the resource or the query | previous data that is another resource's |
| Breadcrumb, columns menu (`breadcrumb.tsx`, `columns-button.tsx`) | the element found | look up, wait, give up | an element that may come later, or again |
| Console frame (`sidebar.tsx`, `use-mobile.ts`, `layout.tsx`, `theme-provider.tsx`) | open or closed, cookie, width, theme, page and error | toggle, resize, go, fail, retry | a width an effect is told of later; a cookie nobody reads |
| Rest of the UI kit, addons, charts, deployments, docs | none the API relies on | | |

What makes each of the modelled components correct:

* *Cluster agents.* A certificate goes only to a cluster that presented a token
  in force, of an agent of the workspace it names; an agent is Active only with
  a credential of its own; a replaced token is of no use; a pending agent is
  not served; the token the UI shows lasts.
* *Accounts.* An ACTIVE account works; the status tells how the workflow ended;
  every workflow ends; the users of the realm are members of the account; the
  password that is mailed works.
* *Workspace applications.* No resource goes and leaves its addon behind; Ready
  is true when it is shown; a deletion reaches the addon and comes to an end.
* *Workspace resource.* Its phase tells whether a report has failed; a running
  operator stays with its certificate.
* *Workspaces.* Two live rows of one id come only of requests that overlapped.
* *Certificates.* The recorded expiry is never before the certificate's own.
* *Permissions.* The checks of one request agree.
* *Keycloak.* A method that returns has ensured what it is to ensure, and is
  refused only because of a caller beside it.
* *Lists.* A reader of all pages misses no row; links, ranges, columns and menus
  tell what is there; the undo button undoes the deletion it stands beside; a
  saved query that is removed takes no other with it.
* *Inputs.* What a field shows is what the form submits; a file or an item leaves
  the form only where the user may and did take it out.
* *Session, card.* No page mixes two realms by itself; a call that waits for
  the login is not left waiting; a command on display bears the token in force.
* *Process, seeds.* No accepted request is cut off by an orderly end; a seed that
  finishes has repaired what was there before.

## 2. The modules

| module | models | composed with |
|---|---|---|
| `AgentEnrollment` | the abstract promise: the standing of an agent and the registrations that were admitted | |
| `ClusterAgent` | the handlers, the tables and the bootstrap script | `INSTANCE AgentEnrollment` |
| `ClusterAgentProofs` | the theorems about `ClusterAgent` | `EXTENDS ClusterAgent, TLAPS` |
| `MCClusterAgent` | values and symmetry for TLC | `EXTENDS ClusterAgent` |
| `AccountLife` | the abstract promise: the statuses of an account's rows, its members, and who can log in | |
| `AccountProvisioning` | request, workflow, activities, realm, mail | `INSTANCE AccountLife` |
| `AccountProvisioningProofs` | the theorems about it | `EXTENDS AccountProvisioning, TLAPS` |
| `MCAccountProvisioning` | values for TLC | `EXTENDS AccountProvisioning` |
| `WorkspaceApplication` | one application resource, kopf, the addon | |
| `WorkspaceApplicationProofs` | the theorems about it | `EXTENDS WorkspaceApplication, TLAPS` |
| `ResourceHelpers` | the resource's finalizers and who writes them; the helpers that make and take away the resource | `MCControlPlane` |
| `WorkspaceResource` | the operator's start, the Workspace resource and its timer | `MCControlPlane` |
| `WorkspaceRequests` | the workspace form and `createWorkspaceTx` | `MCControlPlane` |
| `KeycloakRealm` | the adapter's methods, look-ups and writes apart | `MCControlPlane` |
| `CertificateService` | the certificate providers | `MCControlPlane` |
| `Access` | authentication, permission checks, answers | `MCControlPlane` |
| `Seeding` | the seed | `MCControlPlane` |
| `ApiProcess` | start and end of the API's process | `MCControlPlane` |
| `ListQueries` | the paged lists of console and API | `MCControlPlane` |
| `ListPagination`, `ListColumns`, `ListFilters` | the links under a list, its columns, its filters and saved queries | `MCControlPlane` |
| `AccountForm` | provider and region | `MCControlPlane` |
| `ConsoleSession` | a tab's realm, Keycloak client and token | `MCControlPlane` |
| `SessionCalls` | the auth provider's calls: one starts the initialisation, the others wait a second for the login | `MCControlPlane` |
| `BootstrapCard` | the bootstrap command on display | `MCControlPlane` |
| `NoticeQueue` | undoable deletions, their notices and toasts | `MCControlPlane` |
| `FieldInputs`, `ArrayForm`, `FileField`, `ChoiceInputs` | the inputs of the forms that keep state of their own | `MCControlPlane` |
| `RecordPages` | the pages of a record, their form and its save button | `MCControlPlane` |
| `GuessedViews` | the pages that guess what to draw | `MCControlPlane` |
| `PagePortals` | what is drawn into an element looked up by its id | `MCControlPlane` |
| `ConsoleFrame` | sidebar, theme, page and error boundary | `MCControlPlane` |
| `MCControlPlane` | the twenty-five of them, each by itself | `EXTENDS` them |
| `RequestProofs` | the theorems about `WorkspaceRequests`, `Access`, `KeycloakRealm` | `EXTENDS` them |
| `ProcessProofs` | those about `Seeding`, `CertificateService`, `ApiProcess`, `WorkspaceResource`, `ResourceHelpers` | `EXTENDS` them |
| `ConsoleProofs` | those about `ConsoleSession`, `BootstrapCard`, `AccountForm`, `FieldInputs`, `FileField`, `SessionCalls`, `PagePortals`, `ConsoleFrame`, `GuessedViews`, `RecordPages` | `EXTENDS` them |
| `ListProofs` | those about `ListQueries`, `ListPagination`, `ListColumns`, `ListFilters`, `NoticeQueue`, `ArrayForm`, `ChoiceInputs` | `EXTENDS` them |
| `ControlPlaneProofs` | those about the sum: it implements every component, and so keeps what the run `control_plane` checks | `EXTENDS MCControlPlane` and these four |

`MCControlPlane` is a sum, not a product: these modules share no variable and no
action, so the first state says which of them a behaviour is about (`focus`) and
that one alone moves. Each module also has a specification of its own.

What a component may start with (the kind of an input, say) varies only in its
own behaviours (`Unless`).

Some definitions come in two forms, e.g. `Lapsed` and `LapsedNextTick`. The
first is the code's; the other is what a plausible slip would make of it. It is
used by no action and is there for the mutants of section 4.

### ClusterAgent

One Node process runs the handlers, and a handler runs alone between two
awaits. So each database call of a handler is an action, a `$transaction` is
one action, and everything else may happen between two of them. `register`,
`generate` and `sync` hold what a request in flight has read; `agent`, `token`
and `credential` are the tables.

| action | code |
|---|---|
| `ProvisionWorkspace` | `provisionWorkspace`: the end of the transaction |
| `GenerateRead`, `GenerateCommit`, `GenerateFail` | `generateBootstrapToken`: `findUnique`; the transaction; its rollback |
| `RegisterReadToken` | the token row is found by value and external workspace id |
| `RegisterCheck`, `RegisterReject` | the agent row (the second query of the `include`), expiry and status |
| `RegisterCommit` | after the certificate is issued: the transaction |
| `RegisterFail`, `StoreCredential`, `LoseAnswer` | an error; `store_mtls_secret`; the answer does not arrive |
| `SyncReadStatus`, `SyncCommit`, `SyncFail` | `syncAgent` behind `requireMTLS` |
| `BarAgent`, `Tick` | external: suspension or deletion in the database; time |

`findFirst` with `include` is two queries, so token and agent are read at two
moments: that is why the deadline of a registration is in its record and the
status is read at the check. A credential records, as history, the token it was
issued for and when that token was presented; no column holds this.
`lastPingAt` is abstracted to whether it is set, since nothing reads it.

The agent of a workspace also stands for the workspace and for its cluster, as
provisioning makes one of each. Two workspaces may have one external id (no
constraint forbids it), so the id is a function of the agent and the theorems
hold for every such function.

### AccountProvisioning

All requests are for one external account id. `CheckAccount` and `CommitAccount`
are the two ends of the transaction at Postgres' read-committed level: rows of
uncommitted transactions are not seen and no index holds back a second row.
`StartWorkflow` is a step of its own, so `FailRequest` may come between it and
the commit.

A workflow is a phase (`auth`, `activate`, `email`, `compensate`) and the number
of the attempt it waits for. `auth[p][n]` is how far attempt `n` has come with
the realm, whether or not the workflow still waits for it: an attempt past its
start-to-close timeout is given up but not stopped, as the activities send no
heartbeat. `update[p]` is the same for `updateAccountStatus`. A method that
`KeycloakAuthAdapter.provisionAccount` calls is one step; what it needs in the
realm and what it leaves there is the operator of its name (`EnsureRealm`,
`EnsureClient`, ... `EnsureResetUserPassword`), and `Ensured` picks it. A password is named by the attempt that
draws it.

`updateAccountStatus` is a read and a write of one row; rows are never removed,
so the pair is one action that takes any row that exists.

`AccountLife` says what all of this amounts to: a row is PROVISIONING until its
first outcome and never again, whoever can log in as the realm's administrator
is a member and is never locked out, and no row is ACTIVE before there is one.
It is weak where the code is: an outcome may fall on any row, and a failure may
be recorded over a success.

### WorkspaceApplication

The custom resource, the handler at work with the patch it has prepared, and
the addon's status in KubeVela. A handler is cut where it calls the Kubernetes
API or `vela`. kopf's part is external and taken from how the code uses it: one
create or delete handler at a time beside the timer; a handler that raised is
tried again; the patch is sent after the handler, metadata before status; the
timer makes kopf put a finalizer of its own on the resource, which it lifts when
the delete handler is done. KubeVela may move an addon between its statuses and
completes a deletion.

The gap between kopf's last metadata patch and its status patch, in which
somebody could create a resource of the same name, is left out. Labels and
events are left out.

### ResourceHelpers

The first part of `workspace_app.py`: a helper is cut at each call of the
Kubernetes API, and another controller puts a finalizer on the resource and
takes it off at any time. The loop of the workspace handler that would call the
helpers is commented out (`main.py:196-241`), so the run is of callers who use
them, beside the create handler, which does run. The list the create handler
writes is the one of its event.

### WorkspaceResource

`configure` in its stages (`InstallCrds`, `CreateWorkspaceCr`,
`InitializeClient`, `ConfigureRaises`), then the handlers. A handler or the timer
and the sending of its patch are two actions, and the operator may crash between
them. External: the secret's files, time, the pod's restarts, kopf's finalizer.

### WorkspaceRequests

The form with the id it draws when it is mounted, the user's clicks, and per
request `CheckWorkspaceAccount`, `WorkspaceLookUp`, `WorkspaceCommit` and the
refusals: the look-ups of `createWorkspaceTx` are apart from its insert, as read
committed makes them. `seen` is history: the rows a look-up could find.

### KeycloakRealm

`AccountProvisioning` takes a method of the adapter for one step; here each
method is a sequence of stages, and a stage a look-up (`KeycloakLook`) followed by
a write (`KeycloakWrite`, `KeycloakRefuses`), each of which others may come
between. `Stages` gives the methods: what a stage needs, whether it throws,
returns or goes on where that is missing, what it looks for, creates and removes.
The realm is a set of objects and links; what Keycloak refuses is external. The
source marks most of these methods "not used yet": the run is of callers who use
them, on two realm roles and one client with one role. Where the client has
none of the roles asked for, `ensureClientRolesToRealmRoleMapping` warns and
returns (`RolesUnmatched`); a property about it counts them as passed over.

### CertificateService

`Configure` chooses the provider or throws; `IssueSelfSigned` is one step;
`RequestSignature`, the CA's signing (external, within the provisioner token's
life) and `SignatureArrives` or `SignatureFails` are apart.

### Access

`Steps` lists the permission checks and look-ups of an operation in the code's
order, for six operations; the others follow one of these patterns. `Allowed` is
the policies; roles are given (`GrantRole`, by `createPrincipalTx`) and taken
(external) while a request runs.

### Seeding, ApiProcess

The seed's upserts in order, each its own transaction; other seeders, deaths,
people who edit rows, and the API, which may take the administrator's email. The
process: environment, configuration of the port, listening, requests, the signal,
`server.close`, and the platform's kill.

### ListQueries, ListPagination, ListColumns, ListFilters

`Ask` is the list page's request as `dataProvider.getList` makes it; `Count` and
`FindMany` are the two queries of the service, in either order and with inserts
in between; `Show` hands the page on. Each of the five list functions has an
operator for the order and the filter it admits. `lqWalk` is history: a reader
who leafs through the pages. The links of `ListPagination` are operators on page
and number of pages; `ListColumns` numbers the columns and keeps a store that
outlives a `Release`; no list mounts the columns button yet, but the table obeys
the store. `ListFilters` has the query, the query the back button leads to, the
saved queries and what is open. The saved queries are in a store that ra-core
keeps in step between tabs: `OtherTabChanges` adds one or takes one away at any
time, also under an open dialog.

### AccountForm, ConsoleSession, BootstrapCard

The region input lists the regions of the provider whose answer came last
(`afList`); the catalogue of providers and regions is a constant, which the run
gives two of the seeded providers. The session's external part is keycloak-js:
whether an initialised client works with the realm it was made with or the one
put in later is left open. Its `init` marks the client as initialised when it
starts, so of the calls of a page only the first starts it and waits for it
(`BeginInit`); any later one puts the stored realm into the client
(`AdoptRealm`), logs in (`Login`) or logs out (`Logout`) while it still runs and
after it has failed. The card's part of the API is reduced to the token, whether it has lapsed,
and the status; that a fetch reads at the API and is answered later are two
actions.

### SessionCalls, NoticeQueue

`SessionCalls` has calls of any methods of the auth provider on one page, each of
which may be repeated. The first one (`FirstCall`) waits for the initialisation
it has started and gets its failure (`InitThrows`); the others (`LaterCall`) go on
at once. Either then waits a second for the login unless somebody is logged in
(`IsAuthenticated`). `onAuthSuccess` of the client is one place for a handler, so
a later call takes it from an earlier one, whose timeout still ends its wait. In `NoticeQueue` a deletion is put into the queue of mutations at
once and its notice is raised in a later step; the toast takes the head of the
first queue when it is shown. The queues themselves are ra-core's.

### FieldInputs, ArrayForm, FileField, ChoiceInputs

`FieldInputs` has what the browser shows, the form's value, and for dates the mark
`wasLastChangedByInput`; a half-typed date is an element whose value is the empty
string. `fiWhy` is history. In `ArrayForm` an item has a name of its own and the
stored list stays; `RecordAt` is the look-up by place. In `FileField` a handler of
a removal holds the list it was drawn with (`seen`). `ChoiceInputs` has the text
in the field, the query of the choices' context and the pause between them, and
a choice that is made on the spot. External: react-hook-form's list, ra-core's
`useInput` and choices, the browser's file dialog.

### RecordPages, GuessedViews, PagePortals

A save of `RecordPages` is pressed, checked and sent; `since` holds the fields
edited after the press, whose values it does not carry. The page goes with a save
that was accepted, an undoable update at once. `GuessedViews` has the answer the
query shows, which for a list may be the last one it had; `gvSame` is
`keepPreviousData` as it was when the list was last drawn. In `PagePortals` an
element has a number of its own, so that a menu may hold one that is gone. The
breadcrumb looks again with every drawing, the menu only for half a second.
External: react-hook-form, react-query, ra-core's controllers, the document.

### ConsoleFrame

The window's width and the width the page was last told of, the sidebar with its
sheet and its cookie, theme and class of the document, the page at the path and
its error. The router and the store are external.

## 3. Runs

### Passing

| run | instance | what it shows |
|---|---|---|
| `agent_registrations` | 1 agent, 2 registrations at a time, 1 generation, 1 sync, 3 tokens, 2 credentials, 3 instants | `ActiveIsEnrolled`, `CredentialTraceable`, `NoServiceWhilePending`, `SupersededTokenEnded`, the inductive invariant `IInv` (`TypeOK` is a part of it), and the refinement of `AgentEnrollment` |
| `agent_generations` | 2 agents, 1 registration, 2 generations at a time, 3 tokens | `CurrentTokenLasts`, `IdentityMatches` |
| `account_workflow` | 1 request, 3 attempts | the inductive invariant `IInv`, `OutcomeRecorded`, `WorkflowEnds` |
| `account_two_requests` | 2 requests by 2 owners, 2 rows, 1 attempt | `ActiveIsProvisioned`, `OwnersAreMembers`, and the refinement of `AccountLife` |
| `app_lifecycle` | 1 resource created any number of times, 2 restarts | the inductive invariant `IInv`, `NoOrphan`, `ProtectedOnceShown`, `ReadyHasRun`, `DeletionReachesAddon` |
| `control_plane` | the twenty-five components of `MCControlPlane`, see below | one property or more of each |

| property of `control_plane` | module | what it says | bounds |
|---|---|---|---|
| `TypesOK` | all | the state of each is well formed, and where section 5 proves a property the inductive invariant that proof rests on; with what a module says of its own state beside: a serving process has a port; a seeded row has what it refers to; "11-20 of 34" is right, and the API refuses just two controls; page links ascend, keep the ends and the neighbours, and an ellipsis stands for two pages or more; no stored order makes two columns fall on one place; filter menu and form agree; a waiting call of the auth provider has its timeout, and one at the most waits for the initialisation; choices are those of the text shown; a form that is not always to be saved has one save under way at the most; a page that has rows has guessed, from rows of its own unless the list was drawn again before they came; a breadcrumb is in the header once it knows the width | 12 pages, 3 columns, 2 calls, 2 pages of the frame, 2 choices, 2 fields, 2 saves, 2 resources, 3 mounts of the button |
| `WalkSeesAll` | `ListQueries` | a reader of all pages has seen every row of the beginning | 3 rows, page sizes 1 and 2, default 2 |
| `RemovalSparesOthers` | `ListFilters` | a removal loses no other query and brings none in, whatever other tabs do to the store; the current query goes once if it is there still, else entries may be doubled | 3 saved queries |
| `SecondRowOverlaps`, `RetryIsRecognised` | `WorkspaceRequests` | two rows of one id overlapped; so did two submits of one form | 2 requests, 2 realms, the form opened twice |
| `MismatchNeedsRepick` | `AccountForm` | how an account gets another provider's region | 2 providers, 3 regions |
| `PhaseTellsAnyFailure`, `StaleUntilRestart` | `WorkspaceResource` | what the phase tells; the certificate stays | 2 certificates, 3 starts |
| `ChecksAgree` | `Access` | no request is forbidden after it has passed a check | 2 requests |
| `SeedConverges` | `Seeding` | a seed that finishes has repaired every row | 2 seeders, 2 deaths |
| `RecordedExpiryIsLate` | `CertificateService` | the recorded expiry is not before the certificate's, and is the same where the certificate is made on the spot; a certificate is signed within the life of its token, however late it comes | 2 issuances, validity 3, token life 1, 5 instants |
| `CutOnlyByKill` | `ApiProcess` | accepted requests are answered unless the process is killed | 2 requests, 2 starts |
| `LastWaiterWoken` | `SessionCalls` | a call that still waits though the user has logged in has lost its handler to a later call | 2 calls |
| `MixedOnlyByOtherTab` | `ConsoleSession` | only another tab mixes the token of one realm with another realm in the store or in the client | 2 realms |
| `ShownTokenInForce` | `BootstrapCard` | the command on display is of use | 3 tokens |
| `CallsSettle` | `KeycloakRealm` | a call that returned has ensured its part; a refusal has a caller beside it | 2 callers, 2 calls |
| `FieldTellsValue` | `FieldInputs` | a field the user has left shows what the form will submit, but for a change from outside that is taken for the input's own and a date and time that cannot be emptied | 2 entries of each kind of input |
| `ProtectedInPlace` | `ArrayForm` | an item its record protects leaves the form only from another place than its record's | 2 stored items, 4 in all |
| `FilesAsMeant` | `FileField` | the form holds the files the user put in and did not take out, unless something was dropped or removed while a removal was checked, or a drop of nothing emptied the field | 3 files |
| `ToastHoldsItsOwn` | `NoticeQueue` | a toast undoes the deletion it tells of, unless a plain notice was shown while a deletion waited for its own | 2 rows, 2 deletions, 1 plain notice |
| `OtherFinalizerKept` | `ResourceHelpers` | another controller's finalizer is neither lost nor brought back, unless it came or went between a read and its write | 2 callers, 4 calls |

*Why these bounds are enough.* The races of the cluster agent are between two
requests about one agent; a third adds no pair. Two agents are needed only for
what relates agents. Three tokens let a generation replace a token twice, or
two generations overlap over a first token. `TokenTTL = 1` and `MaxClock = 2`
let a token be in force, at its last instant and past it. Three attempts are the
code's own limit; one attempt is enough where two workflows overlap, as each is
then the other's second attempt. Two restarts allow one in the create handler and
one in the delete handler of the same resource. Of the
components of `MCControlPlane`: three rows and pages of one or two give a first,
a middle and a last page and an insert before and after each; twelve pages give
every shape of the page links; three columns a move up, a move down and one that
stays; the races are between two requests, seeders, callers or tabs. Three
tokens let a card regenerate twice; three starts let a certificate be replaced
before and after a restart; four helper calls a creation, a deletion and two
calls beside them; three files and four items a middle one; three mounts of a button one before, one while and one after the menu looks; five instants let a signature come after its token,
and a validity of three keeps the two ends apart. Symmetry is used for tokens,
credentials and requests, which the safety properties treat alike; none of the
runs with symmetry checks liveness.

*Deadlock* is not checked in the account and application runs: requests for an
account are finite in number, and a resource whose deletion never ends leaves
nothing to do. Nor is it in `control_plane`, whose components stop where rows,
requests or starts are used up.

### Violations

Each checks what a comment or a document says of the program and finds that it
does not hold.

| run | what is said | what happens |
|---|---|---|
| `overlapping_generations` | a new token "Invalidates the existing token" | two regenerations read the same token, end that one, and the token of the first lives on unlinked |
| `overlapping_registration` | it "resets agent status to PendingRegistration" | a registration past its checks sets Active again, through the old token |
| `token_reuse` | the bootstrap token is "a one-time credential" | nothing consumes it |
| `account_stranded` | PROVISIONING: "Account is being created" | the workflow was never started, or its compensation failed |
| `account_password` | the mail gives the "Temporary password" | an attempt that was given up sets another one afterwards |
| `app_deletion` | "Finalizer will be removed by the timer" | the timer does not look at a resource that is being deleted |

`DeletionCompletes`, of `app_deletion`, is a liveness property, violated under
`FairSpec`.

### Fairness

* `AccountProvisioning`: Temporal answers or gives up every attempt (its
  start-to-close timeout), so `AuthReturns \/ AuthGivenUp` and `UpdateReturns \/
  UpdateGivenUp` are weakly fair; an SMTP server that is asked without limit
  accepts the mail. Nothing is assumed of requests or of attempts given up.
* `WorkspaceApplication`: kopf runs what is due and sends the patches (weak
  fairness of the handlers together and of the timer); the API server answers a
  look-up that is repeated (strong fairness of the two look-ups of the delete
  handler that succeed, as each may fail any finite number of times); KubeVela
  completes a deletion. The uninstall itself may fail each time: that is why
  `DeletionReachesAddon` allows for a silent failure.
* `ClusterAgent` and the components of `MCControlPlane` state safety only and
  assume no fairness.

## 4. Mutants

For every property of a passing run `PROJECT.json` names a definition and a slip
of it that makes TLC find the property violated: a status reset to the wrong
value, a credential that is not linked, an off-by-one in the expiry, a status
check that forgets a case, an attempt that is not counted, a compensation left
out, a finalizer forgotten, an addon that is uninstalled only if it runs; a page
offset that counts from one, an ellipsis for a single page, an id drawn at every
submit, a look-up confined to one account, a server that does not wait for its
open requests, a seed that inserts only, a scope that is created without a look,
a toast that takes the last deletion instead of the next, a removal that writes
an empty list of finalizers. `TypesOK` has one of its own for each component that no
other property of `control_plane` is about, and one for the process; most mutants
of the other components break it too.

## 5. Proofs

Every safety invariant and every action property that a passing run checks is a
theorem for every value of the constants. The theorems rest on the
assumptions the modules name, which say little: bounds are natural
numbers, `NULL` is no row, the entries of a field are none of the words the model
uses beside them (`EntriesAssumption`), there is a realm (`MountsAssumption`), a
certificate and its token live for a while (`CertificateAssumption`), the form's
words are no providers or regions (`CatalogueAssumption`), nor is the word for no handler a call (`CallersAssumption`). The fields of a form
are finitely many (`FieldsAssumption`); nothing else is assumed finite, and there may be any number of agents, accounts, requests,
callers, rows, files and queries.

Each proof goes the same way. Hardly any property is inductive as it stands;
`IInv` (or the module's `...Inv`) adds what a request, handler or dialog in
flight knows of the tables, and it was checked by TLC before it was proved. The
initial states satisfy it and each action keeps it: a lemma per action where the
module is large, a step per action where it is small, and below it a step for each
part the action can disturb. The property then follows from the invariant.

### Cluster agents (`ClusterAgentProofs`)

* `Invariance`: `Spec => []IInv`. Whether a commit keeps `CredentialTraceable`, for
  instance, depends on what the registration read earlier, and on how the tables
  may have changed since. `IInv` adds that the tables agree with each other
  (`RowsConsistent`) and that what each request has read is still related to
  the tables (`RequestsConsistent`): a generation's old token is its agent's; a
  registration's deadline is at most the token's, or else the token was ended
  after it was looked up; a sync's agent has been registered.
* From it: `TypeCorrect`, `CurrentTokenSafe`, `EnrollmentSafe`,
  `CredentialsSafe`, `IdentitySafe`, `ServiceSafe`.
* `SupersededSafe`: if there is at most one generation at a time
  (`OneGeneration`), a token an agent no longer points to has ended. The
  assumption is needed: `overlapping_generations` shows what happens without
  it. The additional invariant is that a generation in flight holds the current
  token of its agent.
* `Refinement`: `Spec => EnrollmentSpec`. The standing of an agent is its
  status column; a registration is admitted between its check and its commit.
  `ProvisionWorkspace`, `BarAgent`, `GenerateCommit`, `RegisterCheck` and
  `RegisterCommit` are the abstract steps, `RegisterFail` withdraws a
  registration that was admitted, all others stutter.

### Accounts (`AccountProvisioningProofs`)

`IInv` relates attempts to the realm, and workflows to the rows. The realm only
grows (a password is overwritten, never cleared), so whatever step an attempt is
past has left its part, even if the attempt was given up (`StepsStay`); a
workflow has a password only if an attempt came to the end, hence the realm is
complete for its owner (`ActiveIsEarned`); the owner is a member before a workflow
starts (`OwnerJoinsFirst`). For `OutcomeRecorded` a workflow that is the only one,
with fewer lost updates than attempts, has only the status of its present phase on
its way (`OutcomeOnItsWay`). `AccountTypeCorrect`, `ActiveSafe`, `OwnersSafe` and
`OutcomeSafe` hold for any number of requests, owners and attempts, where the
runs have two requests or three attempts.

`LifeRefinement`: `Spec => LifeSpec`. Able to log in is who is a user and an
administrator of a complete realm and has a password (`AbleOwners`). Two parts of
`IInv` are there for it: a row that is not there names nobody (`RowsInOrder`), and
the realm is made in the order of the steps, so that a password implies the
administrator's role, the role a user, and a user all parts of the realm
(`RealmInOrder`). Hence the step that sets the password is the abstract `Enable`,
however many attempts are at work, and no other step enables or disables
anybody; `CommitAccount` is `Join`, a write of the status is `Activate` or
`Fail`, all others stutter.

### Workspace applications (`WorkspaceApplicationProofs`)

`NoOrphan` alone is not inductive: an addon that runs on after its resource has
gone would have to be excluded also while the next resource of that name is not
adopted yet (`NothingRuns`). Further parts: a delete handler that has returned
leaves the addon going or gone (`DeleteHandlerInPlace`), what is about to be
shown has its finalizer (`ProtectedBeforeShown`), the timer alone says Ready
(`ReadyWasSeen`). From it: `AppTypeCorrect`, `NoOrphanSafe`, `ProtectionSafe`,
`ReadySafe`.

### The API's requests and its calls to Keycloak (`RequestProofs`)

* `SecondRowSafe`, `RetrySafe` (`WRInv`): a request has seen only rows of requests that
  are through, and none of its own id; an id that was drawn is that of its mount.
* `ChecksSafe` (`AXInv`): as long as a request has passed nothing, a check is still
  before it; one that has passed one may all of the operation.
* `AccessTypeCorrect`: the steps a request has left are a suffix of its operation's
  (`InTurn`). `IsSuffix` compares two reversed sequences; `SuffixMeans` says it place by
  place, and from that `SuffixTail`: taking a step leaves a suffix.
* `CallsSafe` (`KRInv`): what the stages behind a call are to ensure is there, was
  passed over or was removed since; as long as no other call is beside it, so is
  what the next stage relies on, and Keycloak will accept what it is about to
  write. The methods come in through two predicates proved of each stage of each
  of them: `Sound` (what it creates has its ends in what it needs or relies on) and
  `Followed` (what the next stage relies on is what this one relied on, needed
  or created). A method added to the adapter has to satisfy just these.

### The processes (`ProcessProofs`)

* `SeedSafe` (`SDInv`): what a seeder has written stays, and stays as the seed has
  it while nobody changes a row. `ExpirySafe` (`CTInv`): a request that waits
  for the CA was made with a token of its own moment. `CutSafe`: of `ApiProcess` the
  type invariant is inductive.
* `PhaseSafe`, and the action property `StaleSafe` (`WSInv`): the timer patches no
  phase but the error. `FinalizerSafe` (`RHInv`): the list a call is about to write
  agrees with the other controller about its finalizer, which holds the
  resource as long as it is on.

### The console's session, card, forms and frame (`ConsoleProofs`)

* `MixedSafe` (`CSInv`): a page with an answer of a login page in its address was made
  with the realm of the store and works with it, unless another tab came between.
  `ShownTokenSafe` (`BCInv`): what was read, or is shown with no fetch under way, is
  the token in force. `MismatchSafe` (`AFInv`).
* `FieldSafe` (`FIInv`). The type invariant with `FieldTellsValue` is not inductive: a
  date field showing the zero of a number would submit it when it is left.
  `ShownOfKind` says that each kind shows its own.
* `FilesSafe` (`FFInv`): as long as nothing crossed, one removal at the most is under check
  and it knows the files there are; the proof needs that an input that checks no
  removal has none under check.
* `WaitersSafe`: of `SessionCalls` the type invariant is inductive, with that a call
  waits exactly as long as its timeout runs and that one call at the most waits for
  the initialisation. That a later call takes the handler from it does not matter to
  this. `LastWaiterSafe`: the login wakes the call that has the handler, so who waits on
  has lost it.
* `FrameSafe`: so it is for `ConsoleFrame`; a cookie and a class of the document each
  follow what they were made of.
* `PortalsSafe` (`PPInv`): a breadcrumb that is mounted has put the header there, so
  the next drawing finds it.
* `GuessSafe` (`GVInv`): an answer with rows is of some resource, so that a list drawn
  from its own previous data has guessed something.
* `SavesSafe` (`RPInv`): only a submit leaves errors. The button is disabled as long as
  a save is under way, so that the set of those (`Under`) has one member at the most;
  a save adds to a set that was empty, and each end takes its own away.

### The console's lists and choices (`ListProofs`)

* The action property `RemovalSafe` (`LFInv`): all queries list the inputs whose values
  are in force. The current query is looked for in the list that is there by then:
  if it is in it, the place found is its first, by a least number (`LeastNatural`,
  from the well-foundedness of `<`), and it alone goes; if it is not, what was there
  is still there.
* `ToastsSafe` (`NQInv`): unless a plain notice has taken a deletion, or is placed to
  take one (`PlainTakesOne`), the two queues agree place by place (`QueuesAgree`).
* `WalkSafe` and `QueriesTypeCorrect` (`LQInv`): the place of a row is the number of
  hits up to it in the order of the list. An insert never moves a row towards the
  front (`PlaceGrows`), and in an order without ties the row of a place is at it
  (`RowAtItsPlace`), so a page of the length `limit` holds the places after its
  offset (`PageHoldsPlaces`). Hence a reader has seen the rows of the beginning
  whose places are within the pages he has gone through (`WalkInOrder`), and where
  `hasNextPage` says no the count is within them (`PagesBefore`). The count is the one
  of the rows that were fetched unless a row came in between (`AnswersAgree`); without
  that, a stale count would end the walk early.
* The action property `ProtectedSafe` (`AIInv`): no item is in a list twice, so what a
  removal takes out stood at the place it was given; and only a rule by the record
  protects any, so where the whole list is cleared nothing is protected.
* `ColumnsSafe` (`LKInv`): the stored order ranks the columns it knows from 0 on without a
  gap. A drag moves one of them and shifts those between, which loses none and doubles
  none, and a column it does not know is drawn where it is written, behind them; so
  `PlaceDrawn` gives no two columns one place.
* `LinksSafe`: with four pages or more the links are told place by place, from the current
  page and the ends (`LinksOfMany`), and judged by that description (`ManySound`); of one
  to three pages they are all the pages (`FewSound`).
* `ChoicesSafe` (`CHInv`): the choices held form a sequence without repetition, which
  taking one out leaves so (`ItemsLeft`, shared with `ArrayForm`); only the two inputs
  that can take a choice made on the spot ever ask for one.

### All of them together (`ControlPlaneProofs`)

`ComponentsKept`: the specification of `MCControlPlane` implements the specification of each
of its twenty-five components, with every variable mapped to itself. A step of one is a
stutter of the others. By it the theorems of the components carry over to the sum:
`TypesSafe` proves the run's invariant `TypesOK`, hence also each inductive invariant
these proofs rest on, and `ControlPlaneSafe` the run's other invariants and its action
properties.

### Only model-checked

* Liveness, which is out of the prover's reach: `WorkflowEnds`,
  `DeletionReachesAddon`.

## 6. Not modelled

What remains of the implementation's lines is for the most part of these kinds:

* The rest of the generated UI kit: fields that draw a value, inputs that hand a
  text over, buttons that navigate, and presentational primitives
  (`components/ui`). They keep no state of their own. What of the kit decides
  something (lists, filters, columns, inputs with state, forms, guessed pages, notices, the sidebar) is
  in the modules above.
* Type declarations, schemas of requests and answers, route tables, imports.
* The commented-out parts of `workspace.service.ts` and
  `KeycloakAuthAdapter.ts`, and `rollbackExternalAuth`, which nothing calls.
* How often an input is drawn: a handler knows the state of the drawing it is
  from where a property depends on it (`FileField`), and the newest elsewhere.
* `ensureGlobalBrokerClient`, which is about the realm of all users, and the
  listing of roles with their composites, which changes nothing.
* Look-ups of single rows, which change nothing; what they may find is in the
  modules of the rows.
* The keys and requests of certificates; certificates and tokens are values.
* The content of mails, labels and events; of realms, all but what one step needs
  of another.
* Of the configuration all but the numbers with a default and the certificate
  provider.
* Addons, charts, deployment scripts, docker files, documentation: configuration.

Assumed of what is external: Postgres is read committed; two ids that are drawn
differ; Keycloak's look-ups answer exactly (a search for a username gives that
user); kopf and Temporal do what section 2 says of them.

## 7. Plan

Done: all components listed as modelled, and the proofs of section 5.

In this order:

1. Further properties of `WorkspaceApplication`, with their proofs: a resource that is
   made again while its predecessor's addon is going; Ready as time passes.
2. What the violations leave true: a bound on how far each of them can go, as
   `SupersededSafe` is for one of them.
