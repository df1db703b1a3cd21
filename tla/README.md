# Kursor panel: TLA+ models, checks and proofs

`kursord` is the daemon of a server administration panel: one Go process that
serves HTTP, keeps its data in one SQLite database and runs the services of the
host (WireGuard, nginx, sshd, ufw, cron, dnsmasq, mail) by writing their
configuration files and calling their commands. This directory holds TLA+
modules of the parts of it that are easy to get wrong and hard to test, TLC
configurations that check them on small instances, and theorems about all of
them with proofs for tlapm.

Paths below are relative to `src/internal/` unless they start with `src/`.

## How the system works, as far as the models care

* Every HTTP request runs in a goroutine of its own. No lock is held across a
  handler, so handlers interleave at every statement.
* `store.Open` limits the database pool to **one connection**: a call into
  `store` that runs one SQL statement is atomic, and two statements of one
  handler are not. Only `ConsumeOAuthCode` (and the migrations) use a
  transaction. `foreign_keys(1)` is on, ids are `AUTOINCREMENT`.
* Writes whose error the handler drops (`_ = s.store...`) fail in the models only
  where a constraint of the schema can refuse them; a full disk is not modelled.
* The configuration of a service is changed *read rows, write the whole file,
  tell the service*; each of these is a step and any of them can fail. A file is
  written or not: half-written files are not modelled.
* Two features are not request and answer: the monitor's stream and the terminal
  keep goroutines, channels and a shell alive for as long as a browser stays.
* The daemon can die between any two steps; the database, the files and the
  services stay as they are.

A request is therefore a process in every module: `req` maps slots to records
with a program counter `pc` (`att`, `calls`, `change`, `order`, `ask`, `deletion`
in the modules named after other things), the arguments and **what the handler has read and
will still use**. This is where stale reads come from, and nothing else in the
modules puts them there.

## Inventory

| Part | State | Operations | Hard about it | Right when |
|---|---|---|---|---|
| users, sessions (`store/store.go`, `auth`) | tables `users`, `sessions` | create, update, disable, delete; login, logout, GetSession | deletion racing login and key creation | sessions and keys have owners; ids never come back |
| account pages (`server/accounts.go`) | none of its own | create, edit, toggle, terminate, delete | count in one statement, write in another | somebody can always administer the panel; nobody removes themselves |
| service desk (`server/servicedesk.go`, mirrored in `server/portal.go`, `store/tickets.go`) | `tickets` | open, approve, three one-click actions, status; comments, assignment, escalation | check, effect and mark in statements of their own; crash in between | only approved, only once, only what was asked for |
| login lockout (`store/loginlockout.go`) | `login_lockouts` | check, record, clear | three statements without a transaction; a table of whole seconds against a finer clock | no more than the threshold of guesses per window; only they lock |
| OAuth provider (`server/oauth.go`, `store/oauth.go`, `oidc`) | `oauth_clients`, `oauth_codes` | register, consent, redeem | races for one code; deletions in between | a code is good once, and not after its project or its account is gone |
| VPN (`server/vpn.go`, `store/vpn.go`, `vpn`) | `vpn_peers`, `vpn_settings`, `vpn_install_links`; wg0.conf; the interface | create, toggle, delete, link, settings, apply | generated file, reload, rollback | addresses are unique; the file is the database |
| SSH and firewall (`sshadmin`, `firewall`, their handlers) | sshd_config, authorized_keys, ufw | port, password login, keys; open, close, enable | locking oneself out | sshd is reachable, there is a way to sign in |
| sites, certificates, panel proxy (`sites`, their handlers) | `sites`, `panel_settings`; vhosts, links, certificates | create, toggle, delete, certificate; proxy setup | nginx -t judges all vhosts together; rollback | nothing of ours breaks nginx; rows and vhosts agree |
| scheduled jobs, DNS records, mail (`cron`, `dns`, `mail`, their handlers) | a table and generated files each | create, toggle, delete; list, write, test, restart | three rollbacks that differ; lists without a lock | a clean change repairs everything; no row without its entry |
| panel settings (`paneladmin`, `server/panelsettings.go`, `server/panelaccess.go`) | unit file, systemd, socket; allow-list | change the port, save the list | a daemon restarting itself on another port, behind a firewall | who changed it still gets in; all places agree |
| port forwarding (`firewall/forwarding.go`, `server/ports.go`) | `port_forwards`; ufw's block, firewalld, iptables | add, remove | three firewalls that come and go, each with rules of its own, several commands each, no rollback | a row has its rule, a rule its row |
| support lines, notifications (`store/supportgroups.go`, `store/notifications.go`, `server/servicedesk.go`) | line and assignee of a ticket | escalate, triage, assign, tell | loaded line, then INSERT after INSERT with errors dropped | nobody's line is skipped; whom it concerns is told |
| departments, positions (`store/org.go`) | two tables, columns of `users` | create, place, delete | three statements, no foreign key | nothing points at what is gone |
| monitor (`monitor`) | latest sample, subscribers, channels | tick, publish, stream | sends outside the mutex; tabs that stop reading | a feed that advances; nobody held up; nothing left |
| terminal (`server/terminal.go`, `terminal`) | socket, two goroutines, PTY, shell | read, write, tear down | two full queues, an order of deferred calls | everything ends |
| audit log, attachments, domains, files, backups, databases, PowerDNS, WildDuck, netcheck, system users, updates, i18n, templates, scripts | rows nobody else reads, or none | I/O | | |

How parts interact: handlers call `store` directly; the service desk writes the
users table (so it shares `UserStore` with account administration); login uses
lockout and sessions; sites, SSL and the panel proxy share nginx; SSH and the
firewall page share ufw, which also stands in front of the panel's own port; OAuth
and VPN refer to accounts by id; tickets and account forms name departments.

`PROJECT.json` lists every part, also those left out with the reason, and every
hazard with the line where it bites.

## Modules

| Module | Models | MC module |
|---|---|---|
| `UserStore` | the users table: its rows and each statement that writes them | (used by the next two) |
| `Accounts` | account administration, sessions, API keys' owners, boot and crash | `MCAccounts` |
| `ServiceDesk` | tickets that ask for an account, access or an offboarding | `MCServiceDesk` |
| `SupportQueue` | whose desk a ticket is on: lines, assignee, notifications | `MCServiceDesk` |
| `Departments` | departments, positions and the accounts that name them | `MCServiceDesk` |
| `LoginLockout` | the lockout row of one username, its attempts, a clock | `MCSignIn` |
| `OAuth` | the authorization-code flow | `MCSignIn` |
| `AtMostOnce` | what `OAuth` promises: a thing is used once or never | (refined by `OAuth`) |
| `Vpn` | peers, wg0.conf, the interface, install links | `MCVpn` |
| `Forwards` | port forwards and the rules of three firewalls | `MCVpn` (and `MCForwards`) |
| `RemoteAccess` | sshd_config, authorized_keys, ufw | `MCRemoteAccess` |
| `Sites` | vhosts, links, certificates, rows; the panel's proxy | `MCSites` |
| `GeneratedFiles` | crontab, dnsmasq's and the mail server's files and their rows | `MCSites` |
| `PanelPort` | the panel's port, its firewall, its allow-list | `MCSites` |
| `Monitor` | the collector, its subscribers, the streams | `MCStreams` |
| `LossyFeed` | what `Monitor` promises: each viewer sees some of the samples, in order | (refined by `Monitor`) |
| `Terminal` | a shell behind a websocket, from opening to teardown | `MCStreams` |
| `UserStore_proofs` | lemmas about the statements on the users table | |
| `Accounts_proofs`, `LoginLockout_proofs` | theorems about `Accounts`, `LoginLockout` | |
| `Refinements_proofs` | theorems about `OAuth` and `Monitor`: each implements its abstract specification | |
| `Network_proofs` | theorems about `Vpn` and `Forwards` | |
| `Reach_proofs` | theorems about `RemoteAccess`, `PanelPort` and `Terminal` | |
| `Desk_proofs` | theorems about `ServiceDesk`, `SupportQueue` and `Departments` | |
| `Services_proofs` | theorems about `Sites` and `GeneratedFiles` | |

**Sums.** Where modules share no variable and no operation calls across, one MC
module runs them side by side: `moving` says, from the initial state on, which of
them a behaviour moves, and the others rest. The state space is the sum of the
parts, not the product, and every property is checked over all behaviours of its
module. (A theorem about a module needs none of this.)

### UserStore, Accounts

`rows` is the users table reduced to role, status and permissions; `used` is the
AUTOINCREMENT counter as a set of ids; `sessions` maps cookies to accounts;
`keyed` is the set of accounts an API key refers to. A request goes `load`,
`count`, `write` as the handler does: `LoadAccount` is GetUserByID with the
early returns that follow, `CountTheAdmins` is the query in `canDeactivate` (and
its twin in the edit form), then one action per handler for the write. The
toggle writes the opposite of the status it *loaded*. `DeleteAccount` cascades to
sessions and is refused, silently, while an API key refers to the account.
`Boot` is `EnsureAdmin`; `Crash` loses all requests.

### ServiceDesk

`tickets` holds kind, requester, target, wanted permissions, approval, the
one-shot marks and whether `resolved_at` is set. The click is *load ticket, load
target (, count admins), change the account, stamp, resolve*. The accounts page
is an action taken whole in a slot of its own (`AccountsPage`); deletions there
leave tickets that refer to nobody, which is why `GetTicket` joins the requester.
Ids of the users table the init state does not use are free to hand out.

### LoginLockout

`streak` is the row, or none. An attempt is *check lock, verify password,
SELECT, DELETE, INSERT*, or *clear* after a success. The clock counts `Second`
ticks to a second; what goes to the table loses its fraction (`Truncate`, which is
`time.RFC3339`), and `StaleStreak` and `LockedOut` compare what comes back with the
clock as it is, as the code does. So window and lock may be up to a second short,
always both: `FreshStart` is about that, and `GuessesBounded` grants the second.
`tried` is a history of when wrong passwords were
judged, `LocksAreEarned` says that who is locked out has earned it by them. Counts
above the threshold are equal for every decision and are capped.

### OAuth, AtMostOnce

Codes and client ids are random and never repeat. `Consume` is the transaction;
everything after it (client, user, tokens) is a statement each. Whether the
secret or the PKCE verifier is right is the caller's choice. `issued` is a
history; `AtMostOnce` with `times <- issued` is the abstract specification. `late` is
a history of the codes that were taken when their project or account was gone: the
three reads of `tokenAuthCode` must come to what one look at that moment would have.
It is not asked of deletions after that moment: an account deleted between `LoadUser`
and `IssueTokens` still gets its tokens, and tokens are not looked up later.

### Vpn

`peers`, `port` and `links` are the tables, `conf` is wg0.conf and `live` what
the interface last read. A handler changes its row and applies: `ReadSettings`,
`ListPeers`, `WriteConf`, `Reload`; the list is kept in the request between
reading and writing. `Fail` is the early return: only a creation undoes its row.
Reading the file and loading it is one step of `Reload`, for syncconf with and
without wg-quick strip. A peer's owner is not modelled: no handler of this
module decides on it, and `Store.Terminate` writes the users table only.

### RemoteAccess

`file` and `sshd` are the two directives in the file and in the running daemon.
`Detect` decides between ufw and iptables when a request starts: while ufw is
inactive, rules go to iptables and have no effect here. The handler that closes
many ports is its single closes one after another.

### Sites

A vhost is a file (`avail`) and a link (`enabled`); `ConfigOK` is nginx -t, which
looks at *all* enabled vhosts: a link without a file, an SSL vhost without a
certificate or a vhost broken by hand (`sound`) makes it fail, whoever asks.
`proxy` is what `panel_settings` says about the panel's own vhost.

### SupportQueue

One ticket and the agents. Each handler is *load, update one column, tell*:
`LoadOrder` settles where an escalation goes from the line as loaded,
`NextSupportGroup` is the loop over the list as a fold, `SetLine` goes on after
an error as the code does, `ListMembers` and `NotifyMember` are `notifyGroup`
INSERT by INSERT. `knows` is a history of who has been told, put the ticket where it
is, or was moved into that line since; somebody who cannot be told any more
because the list failed or the daemon died is counted as told, so that the
property speaks of the rest.

### Departments

Both tables in one (`units`, told apart by `sort`) and the two columns of `users`
that name them. A deletion clears the children, clears the people, deletes the row:
`ClearChildren`, `ClearPeople`, `DeleteRow`, with `BreakOff` after any. Forms and
tickets name any id; `named` remembers those that were gone or going then.

### Forwards

Three firewalls keep rules, each its own: `block` is ufw's text between the markers of
before.rules, `zone` firewalld's permanent configuration, `copies` how often iptables
has a rule. `backend` is what `Detect` finds, "none" included, and changes: by
`UFWComesUp`, the page's own button, and by `FirewallsChange`, the host. A request
remembers the one it found (`via`) and speaks to that one alone. `forwarding` holds the
two switches (kernel, ufw's policy). A creation sets switches, rule and row in this
order, and is refused where there is no firewall; a removal looks the row up, removes
the rule where there is a firewall, drops the error, deletes the row. With ufw the block
is read, changed and written as a whole, and IPv6 lines are not read back (`V4`).
`harm` records what the code does not protect against, see *Runs*, and `stranded` the
forwards whose removal asked another firewall than one that has a rule of theirs:
`RowsHaveRules` excuses those, `RulesAreListed` (run `forwards_left`) does not.
One firewall coming up is taken to leave the rules of the others alone. A reboot, which
keeps those of iptables only where `iptablesPersist` found a way to save them, and a
`firewall-cmd --reload` that fails after a removal are not modelled.

### GeneratedFiles

A behaviour is about one of the three services. A handler is *row, list, write,
test, restart, answer*, with `undo` for creations of DNS records and mail rows.
What differs is kept: `ListJobs` takes an error for an empty list; `TestConf`
restores the file and `RestartDns` does not; mail lists in two queries and writes
three files for two daemons, of which only vmailbox is ever restored. Of a row only
its name and one flag are told apart: a job is enabled, a mailbox has one of two
passwords.

### PanelPort

The port is in three places: `unit` (the file), `loaded` (systemd) and
`listening` (the socket). A change is *detect, open, read, write, reload, restart*,
the last one by a goroutine 1.5 s after the answer; `undo` and `unload` are the
way back, both errors of which are dropped. `Respawn` is a death of the daemon and
systemd's `Restart=on-failure`; a port another program has leaves nothing
listening. `SaveAllowedIPs` has the guard of its handler. `closed`, `hasty` and
`mangled` are histories.

### Monitor, LossyFeed

Samples are numbered. `TakeSample` takes one and copies the set of subscribers under the
mutex (`todo`); `Send` is one turn of the loop after it, in any order. A stream is
*latest, first, subscribe, select, write*. A tab may leave at any time; those in
`Slow` may stop reading. `seen` is a history, and `LossyFeed` with
`shown <- seen` and `published <- latest` is the abstract specification.

### Terminal

Handler, reader goroutine, shell, and how much is queued in the socket and in both
directions of the PTY. The deferred calls run in their order: kill, close the PTY,
wait for the shell, close the connection.

## Runs

All bounds are in the cfg files; every run is exhaustive for its bounds. Symmetry
is used for sets no action orders, and in no run with a liveness property.

| Run | Bounds | Shows |
|---|---|---|
| `accounts` | 3 ids, 1 cookie, 2 requests, crashes | owners exist, ids do not return, nobody removes themselves in every interleaving; an admin stays and decisions hold as long as handlers run one after another |
| `accounts_race` | same | **violation**: two admins remove each other |
| `desk` | ServiceDesk: 2 ids, any first table with an active admin, 1 module, 1 ticket of three kinds, 2 requests, crashes. SupportQueue: 2 agents, 2 lines, 2 handlers. Departments: 2 units, 2 people, 2 deletions | decided by an admin in every interleaving, approved, once, additive and truthfully stamped one after another; people concerned are told and nothing points at a deleted unit in every interleaving; no line is skipped one after another |
| `signin` | LoginLockout: threshold 3, 2 ticks to a second, window and lock 2 s, clock to 3.5 s, 2 attempts, 1 crash. OAuth: 2 projects, 1 account, 2 codes that live 1 s, clock to 2, 2 requests | what follows a lock starts afresh in every interleaving; guesses are bounded, locks earned and untouched one after another; one-shot codes, worthless once project or account is gone |
| `vpn` | Vpn: 2 peers, 2 addresses, 2 ports, 1 token, 2 requests. Forwards: an IPv4 and an IPv6 target, 2 rows, up to 2 copies of a rule, any firewall or none at first, ufw enabled at any time; 2 requests, or 1 and a change of the host's firewalls | unique addresses in every interleaving; what is applied is the database one after another; a recorded forward has its rule in some firewall, and rules without a row come of failures or of removals that passed them by |
| `vpn_undo` | 1 request | **violation**: a rolled-back creation stays in wg0.conf |
| `forwards_left` | 1 target, 1 row, 1 request | **violation**: made under one firewall and removed under another, a rule stays |
| `remote` | 3 ports, 1 key, 2 requests | ufw comes up with 22 and the panel open in every interleaving; the other four rules as long as nothing overlaps or fails |
| `remote_enable` | 1 request | **violation**: ufw comes up with sshd's port closed |
| `sites` | Sites: 1 domain and the panel, 2 ids, 2 requests. GeneratedFiles: 2 rows, 2 names for DNS and 1 else, 2 handlers (mail: 1 at a time, `Overlapping`). PanelPort: 2 ports, 2 visitors, 2 changes | sound rollbacks, rows match vhosts; a clean change repairs files and daemons whatever came before; no silent lies and a sound dnsmasq file one after another; who saved the list gets in, and a port change takes effect or is undone |
| `sites_panel` | 1 request | **violation**: setting the proxy up again takes it away |
| `streams` | Monitor: 2 tabs of which one may stop reading, channels of 2, 4 samples. Terminal: queues of 2, 2 frames unread | a feed that only advances; a slow tab holds nobody up; tabs and terminals that go leave nothing |

Why the bounds are enough: every hazard listed needs at most two requests; two
admins and a third id (accounts), two addresses for two peers where one is freed
and taken again (vpn), two ids of one domain (sites), a threshold larger than the
two attempts that can be lost at once, two ticks to a second and a clock that
goes past the end of a lock (lockout; with windows of four ticks and a clock of
seven, failures at the end of one window and past the lock of the next are there);
two rows of one name, which dnsmasq rejects (files); a port to move from and one to
move to (panel); two lines and the place below them (queue); a parent and a child
(departments); two equal rules, and
a firewall that goes and ufw that comes (forwards; the host's changes meet one
request at a time, `moving = "host"`, which is a bound like the others: the proof of
`RowsHaveRules` has none). A channel of 2 in place of 4 with 4
samples fills, drops and is drained (streams). `Overlapping` leaves out two mail
handlers at once: the lists, writes and rollbacks they interleave are those of
the other two services, and `SyncRepairs` of them is proved.

**One after another.** Several promises of the code hold while handlers run one
after another and not when they overlap. The modules do not hide that by allowing
one request only: they record it, in history variables that no action reads.
`overlapped`, `met` and `crossed` say that two handlers were at work at once
(`crossed`: or the daemon died under one), `trouble`, `torn` and `failed` the same
and that a reload failed; `mangled` that two changes of port met, one was cut short
or its way back failed; `hasty` that ufw was enabled in the middle of one; `closed`
which ports somebody closed by hand; `named` which units a form named when they
were gone or going; `stranded` which forwards a removal passed by;
`harm` whether a step of a forward failed (`broken`) or a rule
went for another reason than its own removal (`disturbed`: an overlapping write of
the block, a twin's removal, an IPv6 line). A property that starts with
`~overlapped =>` is checked over the same state space, with crashes and failures,
up to the first moment two requests are in flight; properties without a guard hold
for every interleaving. Each property's comment says which it is, and what
happens otherwise.

`CHECK_DEADLOCK FALSE` stands where all accounts can end up disabled or deleted,
so that nobody can send a request any more (accounts, desk). No other run needs
it.

**Fairness** is assumed in `streams` only; everywhere else a request may stop at
any step, as a crash makes it, and what is checked is safety, action properties and
refinement. In `Monitor` the ticker, each send of a round and each stream's handler
are weakly fair: they are goroutines that the runtime runs. A write is fair only to
a browser that reads or is gone (`MayWait`): nothing else ends it, the server sets
no write timeout. `Leave` is strongly fair: `select` picks at random among the cases
that are ready, so it does not pass over `Done` for ever. In `Terminal` the handler
and the reader are weakly fair, a send only once the browser is gone. Nothing is
asked of browser or shell, and `SessionsEnd` therefore says `[]<>~Stuck`: a shell
that never again reads keeps the handler in `PTY.Write` (see below). `MCStreams`
asks of the sum what `MonitorFair` and `TerminalFair` ask of the parts.

Every property of a passing run has a mutant in `PROJECT.json`: an operator
beside the one it replaces, marked `Mutant` in the module, with a bug the code
could have had.

## Proofs

For every value of the constants, from the named assumptions of the modules
only: constants are numbers where they are added, null values differ from
values, `Duration >= Window`; users, support lines, and rows and requests of
port forwards are finite sets (`UsersFinite`, `LinesAreRanked`, `RowsAreFinite`).
The first is for counting admins, the second for the loop over the lines to end
somewhere, the third for counting who relies on a rule.

**Every invariant, action property and refinement of a passing run is a theorem**,
and each proof module proves the type invariants of its components as well; those
are therefore in no run. Few of the properties are inductive. What each rests on:

* `UserStore_proofs` has the lemmas two proofs share: what the statements on the
  users table keep, which rows they make and unmake, and that of two active admins
  one is left (`OneAdminLeft`).
* `Accounts_proofs`: `NoIdReuse` and `OwnersAlwaysExist` from one
  lemma, `RowsStep`: a row only appears under an id never used before, and only
  vanishes together with its sessions and when no key refers to it. `AdminStays`:
  `SomeActiveAdmin` is not inductive. Its strengthening, `AdminInv`, adds that
  until requests overlap at most one is in flight (`Calm`), that the table is
  empty or has an active admin, and `DecisionsHold`: a request past its load
  holds the row as it is, and one about to take an admin away leaves another.
  `NobodyEverRemovesThemselves` needs none of this but `JudgedInv`, in every
  interleaving: a request that may still end an account's access was found to act
  for somebody else.
* `LoginLockout_proofs`: `OverIsOver` from `LockInv`: not only the row but also the
  copy in the hands of an attempt ends Duration after its last failure, both without
  their fractions (`TruncateLock`, which needs `DurationIsSeconds`);
  `DurationCoversWindow` then makes an expired lock stale. `LockedStays` from
  `TurnInv`: while attempts do not overlap, a locked account has let none of them
  past the check. `GuessesAlwaysBounded` is about `tried`, which the program does
  not keep. `CountInv` ties it to the row: the streak's last failure is the last
  entry without its fraction, its `fails` last entries are its own, and the one
  before those is more than a window less a second earlier (`Matches`); the entries
  rise, and `Threshold + 1` of them are more than that (`History`); what the attempt
  at work has read, deleted or still to insert is the same streak (`InHand`).
  `LocksAlwaysEarned` reads the history the other way round (`EarnInv`) and survives
  crashes, which lose failures and never add one: whatever a row counts is in
  `tried`, each entry within a window of the one before (`Earned`).
* `Refinements_proofs`: `CodesAreOneShot`: `Init` implies the
  initial state of `AtMostOnce`, and a step that changes `issued` takes one code from 0
  to 1. The invariant is `OneHolder`, and that who holds a code names
  its project (`HolderIsClient`): at most one request holds a code, none after it was
  issued, and a held code is burnt. `LateCodesGetNothing` from `LateInv`: a project
  that is gone stays gone and so does an account, so a holder of a late code is
  stopped at the one or at the other.
  `HoldersStep` says how one comes to hold a code: by consuming it.
  `MonitorIsAFeed` is the refinement of `LossyFeed`. `StreamInv`
  says of each stream that what is on its way to the browser (the sample in the
  handler's hand, then the channel) rises, from above what the browser has seen to
  below a `Horizon`: the sample that is still to be sent, if publish has this
  channel to serve, else the next one.
* `Network_proofs`: `AddressesAreUnique` from `RouteInv`: besides the table, the file
  and the interface, *every list a request has read and not yet written* gives
  no address twice. Without it a stale write could bring two peers to one
  address. `LinksAreUnique` (a peer has one install link) is inductive by itself.
  `AppliedIsTheDatabase` and `OnlyEnabledAreWritten` from
  `ViewInv`: until requests overlap at most one is in flight, and what it has
  read, and then written, is the view of the database.
  `RowsAlwaysHaveRules` is a count. The `Holders` of a forward are the rows that are
  not past their removal and the requests about to enter theirs; as long as
  nothing was disturbed it is in ufw's block or in firewalld's zone, or iptables has at
  least as many copies of its rule as it has holders (`Enough`, `Kept`), and as long as
  nothing failed and no removal passed it by none of the three has more than they need
  (`NoMore`, `Only`). The firewall in charge appears in neither, which is why it may
  change as it likes. `KnownInv` carries what a request knows of the row and the
  switches it works on.
* `Reach_proofs`: `AlwaysEnabledWithPanelOpen` from `SwitchInv`: while ufw is
  inactive a request that will enable it has allowed what it passed, and nobody in
  flight will close a port in it. The four promises about sshd from `TurnInv`, which
  follows the one request at work: its port is open and its key there by the time it
  reads the file, and what it would go back to is what sshd runs (`SoFar`); what it is
  about to write differs from the file in its own directive only (`OwnDirective`).
  `SaverAlwaysGetsIn` from `WayOpen`: every port the process
  may find itself on (in the unit file, in systemd, in the hands of a change past
  its opening or on its way back) is open or was closed by hand.
  `PortAlwaysTakesEffect` from `InForce`, which follows an unmangled change
  through the three places. `NothingOutlivesTheHandler` from `Teardown`: how far the
  deferred calls have come says what is left; by the time of `Wait` the shell has
  been killed.
* `Desk_proofs`: `AlwaysSomeoneDecided` from `TicketInv`, in every interleaving: a
  click past its load was let through on a decision that has an author, and no
  later step makes a ticket anonymous again. The other promises of the service desk
  from its `TurnInv`: until requests overlap, the ticket and the row still are what
  the one request at work has loaded.
  `EveryoneAlwaysKnows` from `ToldInv`: whoever is concerned knows, or some handler
  will tell them. `NoLineEverSkipped` from `AloneInv` and `NextIsLowest`: the loop in
  `NextSupportGroup` returns the lowest line above, if there is one. This is an
  induction over a set, which cannot be cited (see below); `LeastSubset` replaces it
  by a smallest counterexample, from `WFMin` over the cardinalities.
  `ReferencesAlwaysHold` from `OrgInv`, which adds to
  `ReferencesHold` what a deletion has cleared (`Cleared`): once past its first
  statement nobody points at the unit it is about, except who named it meanwhile.
* `Services_proofs`: `RowsAlwaysMatchVhosts` and `OursAlwaysSound` from `SitesInv`:
  each domain has one row, a host that nobody works on is `Settled`, and `Turn` says
  of the handler at work, step by step, which of its changes are made, which can
  still be taken back, and to what. `CertInv` holds in every interleaving: a
  certificate is there before a vhost names it. `SyncAlwaysRepairs` from `FilesInv`:
  a handler that is alone and has met no failure holds a list that renders as the
  table does, and the files and daemons it has passed are right (`Progress`),
  whatever they were when it came. `NeverSilentLies` and `DnsAlwaysSound` from
  `HonestInv`: between handlers files have an entry for every row, and while one is
  at work they have one for every row but its own.

**Only model-checked**: the three liveness properties, `NobodyHeldUp`,
`SubscribersLeave` and `SessionsEnd`; fairness is ENABLED, which this prover does not
reason about. The properties of the five violation runs are false.

**Out of reach** besides liveness: induction by the library's theorems, which take
an operator as a parameter. Where a proof needs one over a finite set it takes a
smallest counterexample (`LeastSubset`); the counting in `GuessesBounded` avoids it
by speaking of positions in `tried`. The bounds in guards (`MaxTime`, `MaxClock`,
`MaxSample`, `MaxCopies`, `MaxCrashes`, `MaxChanges`) cost the theorems nothing:
they hold for every value, and a finite stretch of a behaviour without bounds stays
within some value of them.

## Where code and comments disagree

The five violation runs, each with its finding in `PROJECT.json`:

1. `accounts_race`: `canDeactivate` does not keep the last admin against two
   requests at once (`server/accounts.go:750`).
2. `vpn_undo`: a creation undone after a failed reload stays in wg0.conf
   (`server/vpn.go:313-319`).
3. `forwards_left`: a forward removed under another firewall than it was made under
   leaves its rule behind (`server/ports.go:276-277`, 366-375).
4. `remote_enable`: `EnableUFW` knows port 22, not the port sshd listens on
   (`firewall/firewall.go:239-242`).
5. `sites_panel`: the rollback of the panel's proxy removes a proxy that worked
   (`server/panelsettings.go:136-138`).

Met while modelling, visible in the modules and without a run of their own:

* desk: a slow double submit runs the action twice, although
  `store/tickets.go:83-84` says it cannot (drop `~overlapped` from
  `OncePerTicket`); permissions granted at once by two admins get lost
  (`server/servicedesk.go:767`); a reopened ticket keeps `resolved_at`
  (`store/tickets.go:330-331` says it is cleared); the requester, if an admin, can
  sign their own ticket off (`store/tickets.go:262-265` says someone else must).
* lockout: "5 wrong passwords in a 15-minute window locks that account out for
  another 15 minutes" (`store/loginlockout.go:9-11`) is not quite what happens. The
  fractions of a second the table drops let one wrong password more into the window
  (line 26; drop `- Second` from `GuessesBounded`): of five at 12:00:00.9 the lock
  is until 12:15:00, and a sixth is judged at 12:15:00.1. Two wrong passwords at
  once count as one (line 80; drop `~overlapped`), and two attempts at once can move
  a lock that the first of them has set. A crash between DELETE and INSERT forgets
  the streak; the window is one between failures and not around them: five wrong
  passwords with a quarter of an hour between each lock the account too
  (`LocksAreEarned` says it this way).
* accounts: deleting an account with an API key fails without a word
  (`server/accounts.go:746`).
* vpn: two handlers applying at once can leave a disabled peer in the file
  (`vpn/wireguard.go:36-39`); a changed port is not applied until some peer
  changes; terminating an account leaves its VPN peers alone
  (`server/servicedesk.go:778-783` says VPN access ends at once).
* ssh: a change of one directive can undo another's made at the same time
  (`sshadmin/sshadmin.go:3-8`), a key added during a removal is lost
  (`sshadmin/sshadmin.go:171`), and the last key can be removed with passwords
  off.
* cron: `syncCronOrWarn` takes an error of `ListCronJobs` for an empty list and
  empties the crontab without a warning, where its comment says it warns when the
  crontab may be out of sync (`server/cron.go:114-120`); the next change repairs it.
* mail: a failed `postfix check` restores nothing, although "Rolls the vmailbox
  file back to what it was on validation failure" (`mail/mail.go:244-247`, 294).
* forwards: `parseUFWNatBlock`, "renderUFWNatBlock's inverse", reads IPv4
  addresses only (`firewall/forwarding.go:177`): a forward to an IPv6 address, which
  the form takes, is lost with the next change; removing one of two equal forwards
  removes the rule of both.
* panel: enabling ufw while a change of port waits for its restart opens the old
  port, not the one the panel comes up on (`server/ports.go:117-119`).
* terminal: "it cleans itself up" (`server/terminal.go:46-49`) holds unless the
  shell's foreground program never reads its input again: the handler then stays in
  `PTY.Write` and does not notice that the browser has gone.
* sites: creating a domain twice at once leaves a link to no file
  (`sites/nginx.go:112-115`); switching a site off while another vhost is broken
  stops after the link is gone (`sites/nginx.go:163-183`).

## Not modelled

* Cryptography: passwords, tokens, PKCE, WireGuard keys, OIDC signatures.
* Rendering and parsing of configuration text beyond which rows it holds;
  translations, templates, pages.
* Operations that run a program once and keep no state here: installing packages
  and web servers, system users, backups, the file manager, statements sent to
  other database servers, network probes, update checks.
* Clients of another service's API, which keeps the state: PowerDNS, WildDuck, the
  inbox page.
* Tables whose rows nothing else reads or writes: audit log, attachments, domain
  portfolio, labels of ports, the notifications' read marks, ticket comments.

None of these has an interleaving or a failure that reaches beyond one statement or
one command.

## Plan

1. Done: the components above, and proofs of all their safety properties.
2. Next proofs: abstract specifications in place of some of the invariants. What
   `Vpn` and `GeneratedFiles` promise one after another is one thing, a file that
   follows a table, and `RowsMatchVhosts` a third case of it; a module beside
   `AtMostOnce` and `LossyFeed` could say so once, with three refinements.
3. Next modelling, if the code grows: tickets whose requester comments while agents
   move them; the firewalld and iptables commands of the ports page.
