# vpn-killswitch: specifications, checks and proofs

vpn-killswitch watches one VPN connection of NetworkManager. While it is down,
the domains of `killswitch.domains` must be unreachable; while it is up, nothing
is blocked; at all times the targets of `bypass.domains` and `bypass.ips` go past
the VPN through the normal gateway. Several short-lived processes bring this
about, started by systemd, by NetworkManager, by a timer, by a tray application
and by hand, and all of them change the same nft table, the same hosts file, the
same routing table and the same configuration. This directory models those
processes in TLA+, checks small instances with TLC and proves the main results
for every instance with TLAPS.

Paths below are relative to `src/`; `internal/` stands for
`vpn-killswitch/internal/`.

## 1. Inventory

| Component | Code | State it keeps | Operations | What is hard | What makes it correct |
|---|---|---|---|---|---|
| Lock and enforce commands | `internal/enforce`, `internal/lock`, `internal/nft` | nft table with two address sets, managed block of the hosts file | `enforce`, `lock enable/disable/refresh` | every step is another process or file, any of which may fail; the VPN changes meanwhile | what a command reports is true; only a lift opens; all agrees with the VPN when nothing is left to do |
| Command line and run lock | `internal/cli`, `internal/lockfile`, `internal/run` | `flock` on `<run_dir>/lock` | read configuration, take the lock within 10 s, run, release | commands overlap, time out, are killed | one command at a time |
| Event sources | `internal/system/assets.go` (units, timer, dispatcher script, sleep hook) | `dispatcher.marker` | boot, VPN events, other network events, 60 s timer | debounce, lost and overlapping events | no event that matters is lost for good |
| VPN detection | `internal/vpn` | none | `nmcli` query with three outcomes | unknown is not down and not up | unknown never opens |
| Lock DNS resolver | `internal/lockdns` | none | lookups through the Go resolver | it consults the hosts file we wrote | addresses of locked domains end in the sets |
| Bypass routes | `internal/bypass`, `internal/gateway`, `internal/resolver` | state file, routes in the main table | `bypass.Apply`, one `ip` command per route | gateway goes away, routes fail, process is killed half way | every route of ours is recorded; success means exactly the wanted routes |
| Bypass IP entries | `internal/ipaddr` | none | parsing, splitting ranges into prefixes | 32-bit boundaries | exact and minimal cover, the loop ends |
| Hosts file manager | `internal/hosts` | the lines of the hosts file | `Enable`, `Disable`, `HasBlock` | other programs edit the file, writes are torn | block exact, foreign lines kept |
| Configuration store | `internal/config`, `internal/configedit`, tray dialog | `config.toml` | `config add-*/remove-*/apply-tray` | editors overlap and are killed | file always valid; an edit changes what it should |
| Install and uninstall | `internal/system/install.go`, `assets.go` | installed files, units known to systemd | install, uninstall | runs while service, timer and dispatcher are active; may be killed or fail at any step | after a successful install the protection agrees with the VPN; what uninstall has stopped stays stopped; routes removed |
| Diagnostics, logging | `internal/diagnostics`, `internal/log` | none | reports | - | - |
| Tray application | `vpn-killswitch-tray` | menu, poll, action guard | menu actions, polling, dialog | several goroutines | one action at a time, menu enabled when idle |
| Legacy vpn-bypass | `vpn-bypass/internal` | `domains.txt`, `routes.v4`, installed files, routes in the main table | `apply`, `add`, `remove`, `install`, `uninstall` | service, timer, hook and user meet at one lock; install starts the service that waits for it | success is about the list as it is; the service install waits for gets the lock; routes come back |
| Legacy vpn-lock | `vpn-lock` | nft table, hosts block | shell scripts | as their successors | as their successors |
| Migration and install scripts | `*/scripts` | - | run once by hand | - | - |

Interaction: events start commands; a command reads `config.toml`, takes the
flock, applies the bypass, asks NetworkManager for the VPN, and then enables or
disables the lock; the tray runs the same commands through `pkexec` and writes
the configuration through `config apply-tray --enforce`. Configuration edits do
not take the flock; install and uninstall do not take it either, except that the
first step of uninstall is a `lock disable`.

## 2. Modules

| Module | Models | Composes with |
|---|---|---|
| `RouteManager` | abstract: a program that shares the routing table deletes only routes it recorded, installs only to targets it may name, and knows all its routes when it is done | refined by `Bypass` and `LegacyBypass` |
| `SerializedLock` | abstract: table and hosts block change only in the hands of the flock's holder, one at a time | refined by `Killswitch` |
| `Killswitch` | the commands, event sources, run lock, nft table, hosts block, detection and resolver | instantiates `SerializedLock`; takes `bypass.Apply` as one step |
| `Bypass` | `bypass.Apply` step by step, gateway choice, state file, uninstall's removal of routes | opens the step `BypassApply` of `Killswitch`; instantiates `RouteManager` |
| `IPRange` | `ExpandBypassEntries` and the loop of `rangeToPrefixes` | opens the prefixes of `bypass.ips` in `Bypass` |
| `HostsFile` | the hosts file line by line | opens the set `hosts` of `Killswitch` |
| `ConfigStore` | `config.toml` and its editors | opens the edits of `config` in `Killswitch` |
| `Installation` | install and uninstall step by step, systemd, dispatcher script and sleep hook with the commands they start | takes the commands of `Killswitch` as a few steps each |
| `LegacyBypass` | vpn-bypass: its commands, lock, service, timer, hook, install and uninstall | instantiates `RouteManager` |
| `Tray` | the tray's goroutines, action guard, menu items and refreshes | starts the commands of `Killswitch`; its dialog is an editor of `ConfigStore` |
| `KillswitchProofs`, `BypassProofs`, `IPRangeProofs`, `HostsFileProofs`, `ConfigStoreProofs`, `InstallationProofs`, `LegacyBypassProofs`, `TrayProofs` | theorems | extend the module they are about |
| `MC*` | instances for TLC | extend the module they are about |

### Killswitch

A process is a slot that runs one command and is then free. Its `pc` names the
call it is about to make, because between two calls to the outside another
process, the VPN or a kill may get in.

| Action | Code |
|---|---|
| `DispatchDirect`, `DispatchDebounced`, `DispatchDropped`, `MarkerExpires` | dispatcher script: vpn-up/vpn-down events, like the service at boot, run enforce at once; up/down and the others are dropped while the marker is young |
| `TimerTick`, `UserCommand` | refresh timer (`lock refresh timer`), terminal, tray and sleep hook |
| `ReadConfig`, `ReadConfigFails`, `ApplyTray`, `EditConfig` | `cli.Run` before the lock, `runConfigApplyTray`, `runConfigEdit` |
| `Acquire`, `AcquireFails`, `Release` | `lockfile.Acquire`, `acquireIfNeeded`, `Lock.Close` |
| `BypassApply`, `BypassApplyFails` | first step of `enforce.Run`; an error locks and is returned in the end |
| `Detect` | `vpn.Detect` and what `Run` and `RefreshLock` do with the answer |
| `ResolveDomains`, `ScriptFails`, `NftDelete`, `NftLoad`, `NftRefuses`, `NftLoadFails`, `WriteHosts`, `HostsFails` | `lock.Enable` |
| `DisableNft`, `StripHosts` | `lock.Disable` |
| `Crash`, `Reboot`, `VpnChange`, `NetworkEvent` | the environment |

A domain has at most one address of each family, which stands for all of them:
`IPv4` and `IPv6` are the domains that have one, `Address` the pairs of domain and
family, and `blocked` and `resolved` are sets of addresses. `LookupIPAddr` answers
nothing for a domain in `hosts`, as the Go resolver reads the hosts file first (the
default of `nsswitch.conf`) and 0.0.0.0 and :: are filtered as unusable.

`nft.BuildScript` prints `elements = {  }` for a family without addresses, which nft
refuses as a whole. `NftLoad` therefore needs an address of each family (`Accepts`);
otherwise `NftRefuses` ends the command with an error when the table is already
deleted, and the hosts block stays as it was. This happens when lookups fail, when
no listed domain has an address of one family, and at every second enforce or
refresh behind our own hosts block, which then shields the domains alone. The fault
`nftLoad` is only for scripts that are well formed.

`reported` is a history variable: what commands have reported of the lock since the
last decision to lift it. `WriteHosts` makes it "locked"; a command that had to see
to the lock and could not, and said so by its exit code, adds "failed". An error of
the bypass alone does not count, as `enforce` must lock all the same.
`QuiescentFailsClosed` uses it to say that domains that are open while the VPN is
down are never a surprise.

`run_dir` does not change. The runner's two-minute limit appears as `NftLoadFails`
with and without the effect of the script, and a child that outlives its killed
parent is taken to be dead.

### Bypass

One apply runs at a time because it runs under the flock. `defaults` is the
output of `ip -4 route show default` in its order, `kernel` the main table,
`state` the state file, and `owner` remembers who installed a route. Routes have
equal metric, so that `ip route replace` replaces. `mishap` remembers that an
apply was killed, that the deletion of a route that was there failed, or that the
new state file could not be written: from then on routes may exist that the code
has no means to find, and the properties about recorded routes no longer apply
until a reboot. `SuccessRoutes` needs no such premise. `steady` remembers that
the link of the gateway has not gone down since the gateway was found.

### ConfigStore, HostsFile, IPRange

`ConfigStore` has one step for the read, the write of the temporary file and the
rename; the dialog keeps the lists it showed while others edit. `Malformed`
domains stand for text that only `Validate` refuses. `HostsFile` has lines
instead of characters: markers, two blocking lines a domain, lines of other
programs, and the cut-off line of a torn write; truncation and write are one
step. `HasBlock` looks for the marker anywhere in the file, and so also finds it in
lines of other programs that contain it (`Quoting`). `IPRange` takes one step a loop round, with addresses of `Width` bits and
`current` unbounded, as it is 64 bits wide in the code.

### Installation

| Action | Code |
|---|---|
| `BeginInstall`, `CopyBinary`, `EnsureConfig`, `Truncate`, `WriteFile`, `AssetsWritten` | `system.Install` up to the last file; `os.WriteFile` truncates before it writes |
| `LoadUnits`, `EnableUnits`, `UnitsEnabled`, `Start`, `Started` | `daemon-reload`, `enable --now`, `start`; both of the latter wait for the oneshot service |
| `BeginUninstall`, `LiftLock`, `LockLifted`, `RemoveBypassRoutes`, `DisableUnits`, `StopRefresh`, `RemovePath`, `PathsRemoved`, `PurgeRunDir`, `UnloadUnits` | `system.Uninstall` in its order |
| `InstallFails`, `UninstallFails`, `Kill` | an error of a file or of systemctl; the terminal is closed |
| `ReadConfig`, `OpenLockFile`, `Acquire`, `Detect`, `Act`, `ActFails` and the other failures | a command, with the steps of `Killswitch` that matter here |
| `Dispatch`, `DispatchNothing`, `WakeUp`, `TimerTick`, `VpnChange` | dispatcher script (absent, torn or whole), sleep hook, timer |

The protection is one Boolean; that a command's lock may be a removed file after
`--purge` is kept (`lockFile`), as two commands may then run at once. `missed`
remembers what install cannot make up for: a hook's enforce that gave up after
it was started, a start that joined a run of the service that was there before
and may have looked at the VPN earlier, a command that holds a lock file which a
purge has removed, and the `lock disable` of a killed uninstall that is still
running. A later start with no such command left over makes up for all of them.
With any of them the protection may disagree with the VPN after a successful
install until the next event; that is what the code does, and it is the premise of
`InstallEnforces`. `ActFails` is an enforce or refresh that ends in an error and
leaves the protection as it was, as the second one behind our own hosts block does,
or an enforce that locks because the bypass has failed.

### LegacyBypass

| Action | Code |
|---|---|
| `Acquire`, `AcquireFails` | `cli.Run`, `lockfile.Acquire`: thirty seconds |
| `ReadDomains` ... `ApplyDone` | `runApply` and `routes.Apply`, one `ip` command at a time |
| `AddDomain`, `RemoveDomain`, `RemoveNothing`, `WriteDomains` | `config/domains.go`: append, or truncate and write |
| `InstallFiles`, `DaemonReload`, `EnableTimer`, `StartUnit`, `Started` | `installFiles` under the lock, then `systemd.Activate` without it |
| `DisableTimer`, `RemoveFiles`, `RemoveHook` | `runUninstall`, under the lock |
| `TimerTick`, `Hook`, `GiveCommand` | what starts a command |
| `LinkUp`, `LinkDown`, `ForeignRoute`, `Kill`, `Reboot` | the environment |

Differences from its successor that the model keeps: every command takes the
lock, edits included; the record is written when routes fail; uninstall leaves
the routes, their record and the binary where they are.

### Tray

A goroutine is a thread of its own: the three loops (`onReady`'s refresh,
`handleMenu`, `poll`) and one `Task` for each click on an item that starts one.
`mu` is the holder of `a.mu`; `actionMu` is held for single reads and writes of
`actionRunning` and needs no variable.

| Action | Code |
|---|---|
| `ClickItem`, `ClickDiagnostic`, `ClickRefresh`, `Quit` | `handleMenu`; the library drops clicks nobody waits for |
| `LoadLists`, `CloseDialog` | `runEditDomainsAction`, `promptEditDomains` up to `runAction` |
| `BeginAction`, `CommandActs`, `EndAction` | `runAction` with `beginAction`, `core.Client` and `endAction` |
| `Look`, `SetItem`, `SetLastItem` | `updateActionAvailability`: one read of `actionRunning`, then one item at a time (in any order) |
| `Tick`, `LockMu`, `ReadStatus`, `ApplyState` | `poll`, `refreshNow`, `applyState` |
| `CloseDiagnostic` | `runDiagnostic` |
| `OthersAct` | anybody else changes what a status reports |

`version` counts the changes of what a status reports, so that a status is the
moment it was read at; whether reading it failed makes no difference here. The
tools and the path of the command, looked up once at the start, are `Tools`.

## 3. Runs

| Run | Shows | Instance |
|---|---|---|
| `core` | types; the flock excludes; a command that reports the lock as applied is right; the commands implement `SerializedLock` | 2 processes, 2 domains, one of them without IPv6, every fault, 1 crash or reboot, 1 VPN change, 1 user command |
| `closed` | while the VPN is down domains are shielded or commands have reported that they failed; only a lift opens; what reports lifted is lifted | 3 processes, 2 domains, one of them without IPv6, every fault but those of nft and the hosts file, 2 VPN changes and 2 user commands |
| `agree` | when nothing is left to do the protection agrees with the VPN; it is lifted for good once the VPN stays up | 2 processes, an IPv4 and an IPv6 domain, 3 VPN changes, 2 user commands, no faults, fairness |
| `heals` | once the VPN stays down, kills, lock timeouts, dropped events, failed lookups, overlapping apply-trays and a manual lift are repaired | 2 processes, 2 domains of both families, debounced VPN events, any 2 of: 2 VPN changes, 2 apply-trays or lifts, 1 crash; faults of DNS and the lock; fairness |
| `bypass` | success means exactly the wanted routes; the steps implement `RouteManager` | 4 targets (of domains, entries, both, none), 3 links of which 1 virtual, every fault, 3 changes, 1 crash or reboot |
| `config` | the file stays valid; an edit from current lists changes what it should | 2 editors, 3 domains of which 1 malformed, 2 edits, every fault, 1 kill |
| `hosts` | the block is exact also after a torn write; lines of others are kept | 2 domains, 3 foreign lines, one of which contains the marker, 3 runs, 3 edits, 1 torn write |
| `iprange` | exact and minimal cover, refusal of entries without a meaning, end of the loop | all lists of up to 2 entries over 4-bit addresses |
| `tray` | one action at a time; menu and display are right once no action is on its way; both get there | 2 tasks, 1 item and the dialog, 2 clicks, 1 change, any number of polls, fairness |
| `installation` | after a successful install the protection agrees with the VPN, unless something was missed (`missed`, section 2); what uninstall has stopped cannot lock again | 2 hook slots, 3 installs or uninstalls with 4 option sets, 2 events, every fault, 1 kill |
| `legacy` | an apply that succeeds is about the current list; the service that install waits for gets the lock and its list; `RouteManager` is implemented; domains are routed again and again | 2 domains, 2 links, 3 commands, 3 changes, 2 faults, kills or reboots, fairness |
| `uninstall` | *violation*: see 6 | 1 target, install and uninstall |

Why the bounds suffice: two processes give every pair of overlapping commands, a
slot being reused any number of times, and the third in `closed` a command that
waits while another one overtakes it; two domains tell "all" from "some", and with
different families make scripts that nft takes only for both; three
VPN changes give down, up, down and up with commands of each still running; two
user commands overlap with events. `MaxDisturbances` bounds VPN changes, user
commands and crashes together, so that `heals` has any two of them: two apply-trays,
a change and a lift, a kill and an apply-tray. Failures of nmcli are left to `closed`
and `core`, as `heals` is the largest run. In `bypass` the targets separate what
only domains, only entries, both or neither want, and three changes let the gateway change
and change back during an apply. In `iprange`, 4 bits have all alignments and
both ends of the address space; the theorems extend this to 32 bits. In `hosts`
two domains and three foreign lines reach every shape of the file; the theorems
extend this to files of any length. Symmetry is
used for processes in runs without liveness only. In `installation` three jobs
give an old installation, its removal and a new one, or installs and uninstalls
that were killed or failed in between; two events and two hook slots let a
command of an older event overtake or be overtaken. In `legacy` three commands
install, list a domain and edit while the service applies; two faults let one
that loses track of routes meet another. Deadlock is checked in the
runs of `Killswitch`, where the timer always ticks; the other components may
really stop. In `tray` two tasks and three loops already overlap in all ways in
which an update of the menu or the display can be overtaken; the theorems extend
the safety properties to any number of tasks, items, clicks and changes.

Fairness (`Killswitch!Fairness`): the kernel schedules every process (weak
fairness of its steps); `lockfile.Acquire` retries every 100 ms, so a flock that
is free again and again is obtained eventually (strong fairness of `Acquire`, and
a timeout is possible only in instances with the fault `lockTimeout`); systemd's
timer keeps ticking, NetworkManager hands over every event, and the marker ages.
Nothing is assumed of users, the VPN, crashes or faults, but `HealsWhenDown` has the
premise that among the lookups of infinitely many refreshes infinitely many are
complete (`ResolverRecovers`): with answers of one family only, for ever, nothing is
ever loaded. In `IPRange` a running
loop goes on. In `LegacyBypass` commands run on and
the timer, while it is active, elapses again and again; nothing is assumed of the
lock, as only the timer's service and one command of the user meet there. In `Tray`
dialogs and commands end, as `run.ExecRunner` and the
commands themselves limit their time, the ticker ticks, and a goroutine that
waits for `a.mu` gets it (strong fairness: a Go mutex hands over in order once
somebody has waited for a millisecond).

Every property is tested by mutants: operators next to the definitions of the
code (comments that start with "Mutant") that a plausible bug would put in their
place, each of which TLC finds to violate the property.

## 4. Proofs

| Theorem | Statement | Assumptions |
|---|---|---|
| `KillswitchProofs!TypeCorrect`, `Exclusion`, `ReportsTrueWhenLocked` | `Spec => []TypeOK`, `[]MutualExclusion`, `[]SuccessLocks` | none beyond those of the constants: every fault, crash, edit |
| `KillswitchProofs!ReportsTrueWhenLifted` | `Spec => []SuccessLifts` | nft delete does not fail |
| `KillswitchProofs!ImplementsSerializedLock` | `Spec => SerialSpec` | none |
| `KillswitchProofs!OnlyLiftsOpen` | `Spec => OnlyALiftOpens` | hosts block managed; nft, hosts file and configuration undisturbed; no kills |
| `KillswitchProofs!FailsClosed` | `Spec => []QuiescentFailsClosed` | `Resilient`: every fault but that of the hosts file, and without a managed hosts block also not those of DNS and nft; VPN events not debounced; no kills or reboots; user commands enforce, refresh, apply and enable |
| `KillswitchProofs!Agreement` | `Spec => []QuiescentAgrees` | `Orderly`: no faults, kills or edits, VPN events not debounced, user commands enforce, refresh and apply, and some domain with an address of either family |
| `BypassProofs!TypeCorrect`, `RoutesInPlace` | `Spec => []TypeOK`, `[]SuccessRoutes` | none |
| `BypassProofs!RoutesRecorded`, `RoutesExact` | `Spec => []Recorded`, `[]SuccessIsExact` | none (both speak of the time until a mishap) |
| `BypassProofs!ImplementsRoutes`, `LegacyBypassProofs!ImplementsRoutes` | `Spec => RoutesSpec` | none |
| `LegacyBypassProofs!TypeCorrect`, `SuccessCurrent`, `InstallIsServed` | `Spec => []TypeOK`, `[]SuccessIsCurrent`, `InstallServes` | none: every fault, edit, kill, reboot |
| `InstallationProofs!TypeCorrect`, `OnlyHooksCan` | `Spec => []TypeOK`, `OnlyHooksRelock` | none: any hooks, options, faults, kills |
| `InstallationProofs!InstallCorrect` | `Spec => []InstallEnforces` | none of the constants; the property itself has the premise `~missed`: no hook's enforce gave up, no start joined an older run of the service, no command outlived a purge, and no lift of a killed uninstall still ran |
| `ConfigStoreProofs!TypeCorrect`, `AlwaysValid`, `EditsKeptHolds` | `Spec => []TypeOK`, `[]ValidFile`, `EditsKept` | none: any editors, lists, faults, kills |
| `HostsFileProofs!TypeCorrect`, `EnabledExactHolds`, `DisabledCleanHolds`, `OthersKeptHolds` | `Spec => []TypeOK`, `[]EnabledExact`, `[]DisabledClean`, `[]OthersKept` | `DomainAssumption`: the domains are finitely many (`OthersKept` speaks of the time until a mishap) |
| `IPRangeProofs!TypeCorrect`, `RangeCovered`, `ExpansionExact` | `Spec => []TypeOK`, `[]Progress`, `[]Exact` | none: any width, lists of any length; `Exact` says both what a list covers and which lists are refused |
| `IPRangeProofs!RangeMinimal`, `FewestPrefixes` | `Spec => []Minimal`, `[]Fewest` | none |
| `TrayProofs!TypeCorrect`, `OneActionHolds`, `MenuSettlesHolds`, `ShowsActionsHolds`, `ShownInOrderHolds` | `Spec => []TypeOK`, `[]OneAction`, `[]MenuSettles`, `[]ShowsActions`, `ShownInOrder` | none |

The arguments:

* `Killswitch`: `MutualExclusion` is inductive with the types. `SuccessLocks` is
  not: the invariant adds, for each `pc` of the holder, what it has done so far
  (after `NftLoad` the table holds what it resolved, at "exit" of an enable the
  hosts block is its own), and mutual exclusion lets that survive the steps of
  all other processes. The refinement splits every step into changes of the nft
  table, of the hosts file, of the flock, and the rest.
* `FailsClosed` and `Agreement` are two halves of one argument. Without edits and
  kills every process has the configuration that is in force (`SameConfig`), so
  that all commands mean the same domains. While a VPN that is down finds some
  domain open, an enforce that has not looked at the VPN yet is pending or running,
  or the holder of the flock is about to enable, or commands have reported that they
  failed and none that it locked (`Guarded`). Any step that could end this, in
  particular the exit of a command that was overtaken, is shown to leave another
  such witness or every domain shielded. A lock that was reported is kept by the
  hosts block, whatever happens to the table; without a managed block the next
  enable resolves the same addresses and nft takes them again (`Kept`,
  `Unpoisoned`). `Agreement` needs the faults gone and adds the same for a VPN that
  is up (`Lifting`): while the protection is not lifted, an enforce is to come or
  some process is about to disable. That nothing stays open although scripts are
  refused needs that a script is refused only while the hosts block lists every
  domain (`Answered`).
* `Bypass`: `Routed` says that what is not routed yet is still to be added;
  `Accounted` says, for every place of an apply, where a route of ours is listed:
  in the state file, among those to delete, or among the new ones.
* `IPRange`: covered addresses, the range being split and the entries not yet
  parsed together always mean what was asked for. A CIDR entry needs that
  addresses with the same quotient are those of the masked prefix.
* The refinements of `RouteManager`: the busy state of the abstract program is the
  stretch of an apply from reading its record to its end. That a concrete deletion
  is an abstract one needs `todo \subseteq state`, and that an end is an abstract
  end needs `Accounted`.
* `LegacyBypass`: the lock keeps all but one process out of the list and the
  routes (`Exclusion`). What the holder remembers then stays true of the list
  (`Planned`), and `Routed` and `Accounted` follow the argument of `Bypass`. Steps
  that touch no apply (`Aside`) are treated once for all of them. `InstallServes`
  needs besides that an install keeps the files it has written (`Installed`).
* `Installation`: from the start of the service to the report of success some
  command or event that will do what the VPN asks is under way, or the protection
  is settled: it agrees with the VPN and no command about to act would change that
  (`Enforced`). Every step that could end this either leaves another such command
  or settles, because nobody else is about to act: one process holds a lock file,
  and it is the present file (`Locking`). That events are not lost meanwhile needs
  the dispatcher script to be whole (`Written`); that a failing service is noticed
  needs its exit status (`Returned`). `OnlyHooksRelock` needs `Halted` only.
* `ConfigStore`: what is about to be renamed was validated and no other editor
  can change it. For `EditsKept` the invariant says how what an editor is about to
  write follows from what it read.
* `IPRange`, the fewest prefixes: two prefixes that share an address are nested
  (`Dyadic`), so that the largest block at `current` is part of no larger prefix
  within the range (`LargestUnextendable`). When the range is used up the blocks
  are its maximal prefixes, and every prefix of any other cover is part of a block,
  which maps that cover onto the blocks. What this needs of powers of two is proved
  in the same module: a set with n members has 2^n subsets, hence 2^(n+1) is twice
  2^n, and a power divides the larger ones.
* `HostsFile`: whatever the file went through, it has one of three shapes
  (`Formed`): foreign lines only, cut-off lines among them; a block without its
  end after such lines; a block with its end among them. `StripBlock` makes
  foreign lines of each. Until a mishap a block has its end and holds nothing but
  blocking lines (`Whole`), and the foreign lines of the file are those the other
  programs left (`Unmoved`), which are also those of what is about to be written.
  `Intended` says that this is one block of the wanted domains, or none.

  `StripBlock` and `Only` are recursive functions over positions, so that facts
  about them need induction. The library's induction theorems take an operator as a
  parameter and cannot be used here. They are replaced by "every set of natural
  numbers has a least member" (`Least`), which speaks of a set and follows from the
  library's theorem that strict inclusion of finite sets is well founded: an
  induction takes the set of positions for which the fact fails, and
  a file is built line by line in the same manner (`LineByLine`).

* `Tray`: an action owes the menu and the display a refresh from `beginAction` on,
  and only by taking `a.mu` does it stop owing it. With nothing owed, an item that
  is set wrongly or a status that is too old is still about to be replaced by the
  holder of `a.mu` (`MenuOwed`, `StatusOwed`); all other updates of the menu
  belong to actions that still owe.

Only model-checked: the liveness properties (`HealsWhenDown`, `LiftsWhenUp`,
`Terminates`, `MenuReturns`, `ChangesShown`, `KeepsRouted`), as liveness and
`ENABLED` are beyond the prover, and the violation of run `uninstall`. Every
invariant and every action property of the runs, and the three refinements, are
theorems.

Two attempts to prove something changed the model. `EditsKept` had read as a
weaker formula than its comment says, because a bullet was misplaced; the
formula as it was meant holds, in the run and as a theorem. `HostsFile` computed
lines by folds of the community modules and now by recursive functions that say the
same.

## 5. What is not modelled

* `--dry-run`, printing, logging, diagnostics: no state changes.
* The text of nft scripts, nmcli lines, TOML and state files, except the prefix
  length that uninstall appends.
* Choice of DNS servers; DNS answers that change between two refreshes (the
  addresses of a domain are fixed, one of each family, though an answer may miss
  any of them).
* The files for tmpfiles and logrotate, `--destdir`, and the debouncing of events
  in `Installation`, where every event of the VPN is a vpn-up or vpn-down.
* `check`, `list` and `status` of vpn-bypass: they change nothing. Of its writes
  only that of `domains.txt` on a removal is seen half done.
* The predecessor `vpn-lock`: the same flock, nft table and hosts block as in
  `Killswitch`, in shell scripts that the program replaces.
* Which configured type and escaped name nmcli lines stand for, and the flags of
  the command line.
* The wording and icon the tray gives a status, the windows it shows diagnostics in.
* Install and migration scripts, run once by hand.

## 6. Where code and documents disagree

| Run | Code | Document |
|---|---|---|
| `uninstall` | `install.go:217` appends `/32` to a target that already has a prefix length, so no route is removed | `TZ.md:398` wants bypass routes removed |

Further disagreements met while modelling, which no run reports as a violation.
Most of them are seen in what a property has to leave out.

* `nft/script.go:34` and `:40` print `elements = {  }` for a family without
  addresses, which nft refuses (`NftRefuses`). A list whose addresses are all of one
  family, or of which nothing resolves after a lift, is therefore never loaded, and
  `lock.go:35-37` returns before it writes the hosts block: the domains stay
  reachable with the VPN down (`TZ.md:22-23`), until a lookup finds both families.
  `HealsWhenDown` leaves out domains of one family. An empty list is refused as well.
  The predecessor `vpn-lock` prints no element where there is none.
* `lockdns/resolver.go:84` uses the Go resolver, which reads the hosts file with our
  own block. The second enforce or refresh of a locked list therefore finds no
  addresses, deletes the table, has its script refused and ends with an error, and
  only the hosts block shields the domains from then on; `vpn-killswitch/README.md:15`
  promises resolution without the hosts file and `TZ.md:294` that a refresh updates
  the sets. `diagnostics/status.go:133` asks for either of the two and does not see
  it. A domain added meanwhile is loaded only if its own addresses are of both
  families, and the hosts block lists what was removed until a script is accepted
  again, at the latest after the VPN was up.
* While the VPN is down, `install` runs enforce twice, by `enable --now` and `start`
  of a oneshot service (`install.go:82-87`); the second finds our own block and fails,
  and so install may report an error although the lock is in place.
* `assets.go:141` drops an event within the interval, the up event of a wireguard VPN
  too, so that the protection may stay although the VPN is up, where `TZ.md:287`
  lists VPN connects among the events that enforce (the run `agree` has
  `Debounced = FALSE` for this reason); the timer runs `lock refresh` and so never
  repairs a lost up event (`assets.go:100`, `TZ.md:19`).
* `lock.go:113` deletes the table with one nft process and loads it with another, so
  that without the hosts block every refresh has a moment in which blocked addresses
  are reachable, where `TZ.md:245-246` wants one atomic `nft -f` script; a failed
  `nft -f` leaves nothing in place when the hosts block is not managed
  (`lock.go:115`).
* `lock disable` ignores the error of `nft delete` (`lock.go:62`, `TZ.md:397`); with
  that fault `SuccessLifts` does not hold.
* Two overlapping `apply-tray --enforce` may write the file in one order and enforce
  in the other (`cli.go:250`, `TZ.md:393`).
* The state file records routes that could not be added (`bypass.go:77`,
  `TZ.md:467`); a killed apply leaves unrecorded routes (`bypass.go:62`,
  `TZ.md:212`); `ip route replace` takes over routes of other programs
  (`TZ.md:395`).

## 7. Plan

Done: the core (`Killswitch` with `SerializedLock`), the components it treats as
one step, the tray, install and uninstall, and vpn-bypass with `RouteManager`;
a theorem for every safety property the runs check. Next, in this order:

1. VPN status parsing: escaped fields of nmcli against a reference definition,
   and the choice of DNS servers.
2. Proofs: `FailsClosed` with kills and restarts, as far as a later event makes up
   for them.
3. `Killswitch` with addresses that change between two lookups.
