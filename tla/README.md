# TLA+ models of workflow-plugin-cloudflare

The plugin keeps Cloudflare DNS zones, redirect rules and registrar domains as
a workflow engine's resources say. This directory holds TLA+ models of its
core, TLC configurations that check them on small instances, and theorems
checked by TLAPS. File and line references are to the repository's root.

## The system

| Part | State | Operations |
| --- | --- | --- |
| `infra.dns` driver, `internal/drivers/dns.go` | none between calls; in a call: parsed spec, a listing of the zone, what was taken and deleted | Create, Read, Update, Delete, Diff, HealthCheck, Scale, AdoptionRef |
| record model and comparison, same file | none | keys, matching, conflicts, diff, request bodies, outputs |
| config parsing, same file | none | `parseDNSSpec` |
| Cloudflare DNS client, same file (`sdkClient`) | an HTTP client | GetZone, CreateZone, DeleteZone, ListRecords, Create-, Update- and DeleteRecord, GetDNSSEC |
| `infra.http_redirect` driver and its client, `internal/drivers/redirect.go` | none between calls; in a call: the ruleset it fetched | Create, Read, Update, Delete, Diff, HealthCheck |
| `infra.domain` driver, `internal/drivers/domain.go` | its account; in a call: parsed spec, domain | Read, Update of auto-renew, Diff, HealthCheck, Scale, AdoptionRef; Create and Delete refuse |
| provider server, `internal/iacserver.go` | config, three drivers and a zone lister, set by Initialize | Initialize, Plan, Destroy, Status, Import, EnumerateAll |
| resource driver server, `internal/resourcedriver_server.go` | the same object | one handler per driver operation |
| provider config `internal/dns.go`, `cmd/.../main.go` | none | read and check the config; start the server |

The engine calls the gRPC server, the server calls a driver, the driver makes
several API calls in sequence. Nothing is locked: calls run at the same time,
in one process or in several, and the dashboard edits the same zones. Nothing is
persisted by the plugin: the engine keeps the outputs of a call and hands them
to `Diff` later, and a crash is a call that stops between two API calls.

What is hard about it:

* **partial failure**: Create and Update are long sequences of API calls, some
  destructive, and each may be the last one;
* **late requests**: a call that times out at the caller may still take effect
  (`NormalizeRequestTimeout` bounds one request, `operationContext` a call);
* **stale state**: what is created, changed and deleted is decided from one
  listing, or one fetch of a whole ruleset, that others outdate;
* **several spellings** of one record (relative names, capitals, final dots,
  quoted TXT) in configs, in listings and in outputs;
* **fields that are not sent or not compared** under some condition (proxied,
  comment, priority), so that apply and diff may disagree.

* **asynchronous changes**: the registrar accepts a change of auto-renew and
  makes it later, after the driver has read the result of its Update;
* **one object for all handlers**: Initialize sets its fields one by one while
  other handlers check and read them;
* **names and ids**: a zone is known by its id or its domain name, by config,
  by listing and by import, and not every operation takes both;
* **pages**: a listing is made of pages asked for by number, while the zone changes.

What makes the parts correct:

* DNS driver: undeclared records are preserved unless `manage_unlisted`; no
  declared record is lost; no duplicate is made; the service refuses nothing
  that could have been foreseen; after a success there is no drift; repeating
  a call makes good whatever failed.
* Records and config: one key per record however it is spelled, duplicates lose
  no declaration, import and diff agree.
* Redirect driver: other rules are preserved, refs stay unique, after a
  success there is no drift.
* Domain driver: nothing but auto-renew changes and that only when allowed; an
  empty plan is true; planning ends.
* Listings: what they may miss or repeat, and why.
* Server: operations before Initialize are refused, a call works with one
  config, writes to the zone it was asked about, Destroy accounts for every
  resource, what is enumerated can be imported and what is imported can be used.

## Modules

| Module | Models |
| --- | --- |
| `DNSRecord` | records, names, data; keys, matching, conflicts, diff, request bodies |
| `DNSSpec` | `parseDNSSpec`: defaults, validation, duplicates |
| `CloudflareZone` | the service: a zone, its records, what it refuses (external) |
| `DNSDriver` | the driver's four operations, any number at once, with failures, late requests and foreign edits |
| `DNSSafety` | type invariant and properties of `DNSDriver` |
| `DNSReconcile` | `DNSDriver` under a caller that repeats Create |
| `ZoneContract` | abstract: what Create and Update promise |
| `DNSContract` | the refinement mapping from `DNSDriver` to `ZoneContract` |
| `DNSSpecCheck` | builds configs and checks parsing, output and diff on them |
| `DNSPromises` | statements of the documentation that do not hold |
| `DNSRecordProofs`, `DNSDriverProofs` | lemmas about records, theorems about `DNSDriver` |
| `DNSContractProofs` | `DNSDriver` implements `ZoneContract` |
| `DNSSpecProofs` | theorems about `DNSSpec` |
| `RedirectRule` | rules and rule lists; config, conversion to and from the API |
| `RedirectDriver` | the redirect driver's four operations and the service |
| `RedirectSafety`, `RedirectPromises` | its properties, and statements that do not hold |
| `RedirectProofs` | theorems about `RedirectDriver` |
| `DomainDriver` | the domain driver, the registrar and an engine that keeps planning |
| `DomainSafety`, `DomainProofs` | its properties, and theorems |
| `ListPaging` | `ListRecords` page by page, beside writers; its two properties |
| `ZoneLookup` | zones of an account, refs, and which zone each operation looks for |
| `IaCServer` | all handlers of the two servers, beside each other, on `ZoneLookup` and `ListPaging` |
| `ServerSafety` | type invariant and properties of `IaCServer` |
| `ServerProofs` | theorems about listings, and about drivers and zones of the server |
| `ServerOutcomeProofs` | theorems about the server's types, configs, answers and imports |
| `MC*` | instances for TLC |

`IaCServer` is the composition: it extends `ZoneLookup`, which extends
`ListPaging`, and its steps use their actions. What `DNSDriver` does between
listing and answer is there reduced to "creates and deletes records, those it
deletes being listed ones"; in full it is in `DNSDriver`, where a listing is one step.

### DNSRecord and DNSSpec

A record is a record of the fields the code compares. A name is its labels
with two flags for its spelling, data is a value with a spelling; the strings
themselves are model values. `recordKey`, `recordMatches`,
`cloudflareAddressAliasRecordsConflict`, `isWorkflowManagedMarker` and
`diffRecords` are the functions of those names. `newRecordBody` and
`editRecordBody` give the record that the request of that name leaves in the
zone: fields that are not sent keep the value they had, or the service's
default. Specs used in the runs are always computed by `parseDNSSpec`, and
initial records by `newRecordBody`, so that both are values the program can meet.
`addDesiredRecord` is one turn of the loop of `dedupeDesiredRecords`, which is a
recursive function of the number of records looked at.

### DNSDriver

One action is one API call or one turn of a loop between two calls.

| Code | Actions |
| --- | --- |
| Create, Read, Update, Delete (140-206) | `Start`, then by `pc` |
| `GetZone`, `ensureZone` (258-274) | `FindZone`, `MissZone`, `MakeZone` |
| `DeleteZone` | `RemoveZone` |
| `applyRecords` (303-367): listing | `ListRecords` |
| loop over desired records | `KeepRecord`, `ChangeRecord`, `AddRecord` |
| `deleteConflictingRecordsBeforeCreate` (369-399) | `RemoveRecord`, `RefuseConflict` |
| marker cleanup, deletion of unlisted records | `NextLoop`, `RemoveRecord` |
| `readOutput` | `ReadOutput` |
| an error of the API | `Refused`, `Fail`, `Lose` |

`current[p]` is the listing, `pos[p]` the loop index, `taken[p]` the ids that
left `currentByKey`, `deleted[p]` is `deletedRecordIDs`. The order of a listing
is a free choice: `existing(p)` is a set and the actions take any member.
`Lose` leaves the request in `limbo`, from which `Arrive` applies it at any
later time. A crash of the plugin in mid-call is `Fail`: the call's locals are
gone, what it did stays. `disturbed[p]` is a history variable: it says whether anyone
else changed the zone since the listing of `p`; properties that can only hold
for a call nobody interferes with are restricted by it, and the others are not.

### RedirectDriver

A write sends the whole ruleset that was fetched, edited. `WriteRequest` is that
edit for Create, Update and Delete, `Fetched` and `Sent` convert every rule on
the way. A rule's target is a fixed value, the driver's `concat` of a value and
the path, or any other expression ("dynamic"); the driver's own type knows only
`preservePath`. `known[p]` is the rule ref of the resource's ProviderID.
Expressions of a rule stand for a host; status code, query string and enabled
are one value, `options`. Zones exist throughout: the driver never makes one.

### DomainDriver

| Code | Actions |
| --- | --- |
| `Read` (68-78), also behind Import | `Import`, then `readDomain` |
| `Diff` (125-178), of the engine's Plan | `Plan` |
| `Update` (90-115) | `Update`, `CheckCurrent`, `UpdateRegistrationAutoRenew`, `readDomain` |
| an error of the API | `Refused`, `Fail` |

`state[c]` is what the engine has stored: the outputs of the last Import or
Update. `jobs` are changes the registrar has accepted; `CompleteJob` makes one
at any time, `FailJob` drops one. `config`, `accountID` and the
registration itself change between any two steps. `asked` and `outdated` are history: the changes that
configs with `allow_auto_renew_update` asked for, and whether something else than
the present config changed what the stored outputs show. Create and Delete
refuse before any API call, so a replacement that Diff asks for has no action.
HealthCheck and Scale are Reads whose outputs are not stored. Of the
outputs only domain, account and auto-renew are kept: Diff looks at nothing else.

### ListPaging, ZoneLookup and IaCServer

`order[z]` is the zone's records in the service's order. `FetchPage` adds what
is at the page's place now; the total of pages may come with it or not
(`dnsRecordTotalPages`), and the loop ends as in the code in either case. A
record may be created anywhere in the order. `stayed`, `shrunk` and `grown` are
history: the records that have been in the zone since the listing began, and whether others
deleted or created some meanwhile.

`domainAndZoneIDFromRef`, `Wanted` and `GetZone` are how Read, Scale, Create,
Update, HealthCheck and Delete find their zone: the first two turn a ProviderID
that is a domain name into a lookup by name, the others send it as an id.

| Code | Actions of `IaCServer` |
| --- | --- |
| `Initialize` (iacserver.go:85-103) | `Initialize`, `SetDNS`, `SetDomain`, `SetRedirect`, `SetZones` |
| `Plan`, `EnumerateAll` | `Plan`; `EnumerateAll`, `ListZones` |
| `Destroy`, `Status`, `Import`, and resourcedriver_server.go:27-144 | `StartCall`, then `resourceDriver` for each ref, and `Finish` |
| `GetZone`, `ensureZone`, `DeleteZone` | `FindZone`, `MissZone`, `MakeZone`, `RemoveZone` |
| `applyRecords`, `readOutput` | `ReadPage`, `WriteRecord`, `MissRecord`, `EndWrites` |
| the other two drivers | `OtherDriver`, `CallsNoAPI` |
| an error of the API | `Fail` |

A driver is the config it was made from. `used[c]` are the configs of the
drivers a call has used. An engine learns: names that were enumerated are asked
for by Import, and the ref and the applied config that an Import returned come
back in Update and Destroy (`Learnt`).

## Runs

| Run | Asks | States |
| --- | --- | --- |
| `dns_solo` | One call after another of all operations. Is a call that nobody interferes with safe, does it leave no drift, does it return? | 52,054 |
| `dns_pair` | Two Updates of contradicting specs and a foreign edit. Does either touch what it may not, or more than its plan shows? | 342,851 |
| `dns_reconcile` | Create is repeated through two failures, a late request and a foreign edit. Does the zone end as specified? | 41,141 |
| `dns_contract` | Does every behaviour of one caller implement `ZoneContract`? | 96,179 |
| `dns_spec` | Every list of up to three of 23 records. Do parsing, output and diff agree? | 14,425 |
| `redirect_calls` | Two resources of one zone, three calls, a failure, a late request, a foreign edit. Are rules kept? | 521,110 |
| `domain_plans` | Imports, plans and updates, one failure of a call or a job, one change each of config, account and dashboard. Is only changed what was asked for, is an empty plan true, does planning end? | 239,219 |
| `server_calls` | Three calls of any handlers by two clients, one failure or foreign edit. Which drivers, zones and records do they get to? | 1,041,151 |

Four runs show a statement of the documentation that the code does not keep;
`PROJECT.json` quotes them under `findings`:

* `dns_priority`: a PATCH never sends a priority of 0 for SRV, so the drift that
  Diff shows never ends.
* `dns_duplicates`: of two records with one key the second may ask for more
  (`proxied: false`) and is dropped without an error.
* `redirect_dynamic`: a write for one host turns the target expression of a
  foreign rule into a fixed URL.
* `redirect_moved`: an Update with another `from_host` adds a rule and leaves
  the old one active.

### Properties

Of `DNSDriver`, in `DNSSafety`:

* `UnlistedPreserved`, `RemovesOnlyListed`: per step, with any number of other
  driver calls at work. The listing may be stale; what saves the records is
  that ids are never used again and driver calls never change a record's key.
  With foreign edits the claim is only made for an undisturbed call.
  `UnlistedPreserved` excepts stale workflow markers: the driver removes
  those without `manage_unlisted` (dns.go:335-351), and README.md:10-12 does not say so.
* `EmptyPlanChangesNothing`: a call whose listing shows no drift asks for no
  change, whatever happens to the zone meanwhile: `diffRecords` (dns.go:624-668)
  and the loops of `applyRecords` (dns.go:303-367) decide apart what there is to do. The
  premise leaves out listings with two records of a declared key, unless they
  are copies of a marker: Diff looks at the one of the lowest priority,
  the apply at the first that was listed.
* `DeclaredSurvives`, `NeverRefused`, `NoDuplicates`: for an undisturbed call.
  The first two need a consistent spec, one that does not declare a CNAME and an
  address of one name: for `[CNAME www, A www]` the driver deletes an existing A
  to make room for the CNAME and then takes the A for present.
* `NoDriftAfterApply`: `PriorityAgreed` excepts the two ways in which apply and
  diff differ. One is `dns_priority`: a priority that is not positive is not
  sent, except for MX, so that no PATCH can set it, and a negative one is
  accepted by `validateRecord` and never arrives. The other is a zone
  with two records of one key: apply updates the first one listed, diff looks at the first
  in the output, which is sorted by priority and has records of equal priority in the
  order of a second listing. Markers are the exception to that: one is left.
  No run shows that second way as a counterexample; the zone of `dns_priority` holds one record.
* `CallsReturn`.
* `Reconciles` (`DNSReconcile`): the zone settles for good, or an
  undeclared record that only `manage_unlisted` may remove is in the way.
* `ImplementsContract` (`DNSContract`): the contract has no API calls, only
  placing a declared record, removing a spare one, success and failure.

Of `RedirectDriver`: `NoSharedRef` and `NoDriftAfterWrite` hold whatever others
do; `OthersPreserved` holds for a call whose fetch is still current, foreign
expressions excepted; `CreationLosesNothing` is why the race for the first rule
of a zone is harmless. The race between two writes is not: the second one
loses the first one's rule, since no request carries a version. `OthersPreserved`
asks for a current fetch and is silent about it, and it goes by ref, so that it
says nothing of two hosts that share one (`a.b` and `a-b`). Neither is in
`redirect_dynamic`, whose single call shows the foreign target alone.

Of `DomainDriver`, in `DomainSafety`:

* `OnlyAsAsked`: plan, check and Edit are three steps, and the opt-in covers the
  change that is made all the same, since the Edit uses the spec of the plan.
* `CleanMeansDone`: outputs are read while the change may be pending, and
  Diff compares with them alone. The empty plan is true nevertheless, as a plan
  is empty only once the read has shown the new value; a driver that stored the
  value it had asked for would break it. It excepts what the code cannot see
  (`outdated`): the dashboard, a change that an earlier config asked for, and a
  config that is taken back while its change is pending.
* `Converges`: however calls and jobs fail, planning ends with an empty
  plan and the registration as declared. `Hopeless` names the configs that
  no plan carries out: not accepted, without the opt-in, or of another domain or
  account, where Diff asks for a replacement that Delete and Create refuse.

Of `IaCServer`, in `ListPaging` and `ServerSafety`:

* `MissedOnlyIfDeleted`, `TwiceOnlyIfCreated`: what paging by number can
  do. `DNSDriver`'s properties for an undisturbed call are untouched: nobody
  creates or deletes during its listing.
* `NoNilDriver`: the check and the use are different reads of fields that an Initialize is
  setting. It holds since every field but `zones` is checked and none is ever reset.
* `OneConfigPerCall`: unless an Initialize runs beside the call, all its
  drivers are of the last accepted config; a config that is refused changes nothing.
* `DestroyAccounts`: each ref is answered for once, and destroyed means deleted.
* `WritesNamedZone`: only a `zone_id` in the config of a Create leads to the
  records of another domain, which nothing in the code prevents.
* `EnumeratedImportable`, `ImportedReachable`: the chain from EnumerateAll (a
  name) by Import (an id) to Update and Destroy. Used directly, an enumerated
  name is no zone id, and Update, Delete and HealthCheck by it fail.

### Bounds

* Two calls at once are enough for every interleaving of interest, since a call
  is disturbed by one other or none. `MaxId` ends the starting of calls, after
  two new records beside the three initial ones (nine in `dns_reconcile`).
* Zones hold up to three records at first, chosen so that each loop of `applyRecords`
  runs, twice where that matters: duplicates of a marker, of an MX key, a CNAME in the way
  of an address, an address in the way of a CNAME, a record with a stale TTL.
* `MaxFaults`, `MaxLost` and `MaxOutside` bound failures, requests in limbo and
  foreign edits; liveness needs them to be finite. One failure may come at
  every point of a call; two in `dns_reconcile` let the retry fail too.
* `MaxZones` is 2: a zone that is deleted and made again has a new id.
* `MaxCalls` is 3 in `redirect_calls`: two calls race and one follows, or a
  resource is created, changed and deleted.
* Three written records are a duplicate and something else, in each order.

* `domain_plans` has one engine, two domains of two accounts, and configs with
  capitals, without a domain, without the opt-in, of a foreign domain, and of a wrong type. One
  of each change is enough to come between any two steps; `jobs` is a set of
  one value per domain, so it needs no bound. Other engines act on a domain as
  the dashboard does.
* `server_calls` has `PageSize` 1, so that two records are two pages, one new
  record and one new zone id; three calls are Initialize, one beside
  which it may run again, and one that uses what was learnt; `MaxUpsets` is one
  failure or one edit. The chain from EnumerateAll to Destroy takes four
  calls after Initialize; each of its links is reached with three, as Import takes
  names and ids that are in the requests too.

Runs whose callers stop at a bound say `CHECK_DEADLOCK FALSE`. Symmetry of the
callers is used in `dns_pair` and `server_calls`, which check safety alone.

### Fairness

`WF_vars(Step(p))`: a running call takes its next step. The code
justifies it: every request ends within the request timeout and every call
within `operationContext`, whatever the service does. Failures, late arrivals,
foreign edits and the starting of calls are not fair. `DNSReconcile` adds that
the caller does not give up, which is what its property is about.

`DomainDriver`: `WF_vars(Step(c))` as before, though here it is an assumption
about the service or the engine's deadline: the registrar's client sets no timeout of
its own (domain.go:338). `SF_vars(Plan(c))`: the engine plans again and again,
also if imports keep coming between. `WF_vars(CompleteJob(...))`: the registrar
decides about what it accepted. `IaCServer` states no fairness; its run checks safety.

## Proofs

Every safety and action property of the passing runs is a theorem, and so is the
refinement of `ZoneContract`. The theorems hold for all values of the constants that
satisfy the named assumptions: any number of callers, specs, records, rules,
pages, faults and foreign edits.

| Module | Theorem | Says |
| --- | --- | --- |
| `DNSDriverProofs` | `TypeCorrect` | `Spec => []TypeOK` |
| | `SafeInvariant` | `Spec => []SafeInv` |
| | `UnlistedSafe` | `Spec => UnlistedPreserved` |
| | `RemovalsSafe` | `Spec => RemovesOnlyListed` |
| | `EmptyPlansHold` | `Spec => []EmptyPlanChangesNothing` |
| | `UndisturbedInvariant` | `Spec => []UndisturbedInv` |
| | `NeverDuplicates` | `Spec => []NoDuplicates` |
| | `NothingRefused` | `Spec => []NeverRefused` |
| | `AppliedInvariant` | `Spec => []AppliedInv` |
| | `DeclaredStays` | `Spec => DeclaredSurvives` |
| | `NoDriftLeft` | `Spec => NoDriftAfterApply` |
| `DNSContractProofs` | `DriverKeepsContract` | `Spec => ImplementsContract` |
| `DNSSpecProofs` | `SpellingsAgree` | `Spec => []SpellingIrrelevant` |
| | `DuplicatesKeepKeys` | `Spec => []DedupeKeepsKeys` |
| | `ParsedSpecsAreSound` | `Spec => []SpecsAreSound` |
| | `ImportsHaveNoDrift` | `Spec => []ImportHasNoDrift` |
| `DomainProofs` | `DomainInvariant` | `Spec => []IInv` |
| | `DomainTypeCorrect` | `Spec => []TypeOK` |
| | `ChangesOnlyAsAsked` | `Spec => []OnlyAsAsked` |
| | `EmptyPlanMeansDone` | `Spec => []CleanMeansDone` |
| `RedirectProofs` | `RedirectInvariant` | `Spec => []RedirectInv` |
| | `RedirectTypeCorrect` | `Spec => []TypeOK` |
| | `RefsStayApart` | `Spec => []NoSharedRef` |
| | `CreationsSafe` | `Spec => CreationLosesNothing` |
| | `WritesAreCurrent` | `Spec => NoDriftAfterWrite` |
| | `UnrelatedRulesStay` | `Spec => OthersPreserved` |
| `ServerProofs` | `PagingInvariant` | `PagingSpec => []PagingInv` |
| | `NothingHiddenByCreation` | `PagingSpec => []MissedOnlyIfDeleted` |
| | `NothingDoubledByDeletion` | `PagingSpec => []TwiceOnlyIfCreated` |
| | `ServerInvariant` | `Spec => []ServerInv` |
| | `DriversAreThere` | `Spec => []NoNilDriver` |
| | `ServerImplementsPaging` | `Spec => PagingSpec` |
| | `ServerListings` | `Spec => [](MissedOnlyIfDeleted /\ TwiceOnlyIfCreated)` |
| | `RightZone` | `Spec => []WritesNamedZone` |
| `ServerOutcomeProofs` | `ServerTypeCorrect` | `Spec => []TypeOK` |
| | `OneConfig` | `Spec => []OneConfigPerCall` |
| | `DestroyAnswers` | `Spec => []DestroyAccounts` |
| | `EnumeratedZones` | `Spec => EnumeratedImportable` |
| | `ImportedZones` | `Spec => ImportedReachable` |

### Assumptions

All are evaluated by TLC on the runs of their modules.

* Records and configs: `DomainAssumption` (the domain is a list of labels),
  `ErrorAssumption` (an error is no spec and no list), `WritableAssumption` (a
  field that is not marked as ill-typed has a value of its type).
* DNS driver: `ServiceAssumption` (initial zones hold distinct ids and no clashing
  records), `SpecsAssumption` (specs are typed and without duplicate keys, which
  `ParsedSpecsAreSound` proves of `parseDNSSpec`), `KindsAssumption`,
  `EnvironmentAssumption`.
* Contract: `ContractAssumption`. The contract knows one caller, so the theorem
  is about one caller of Create and Update, whose requests are not lost and whose
  zone nobody else edits, with specs that do not declare a CNAME and an address
  of one name. Failures of its API calls are not restricted.
* Redirect driver: `HostAssumption`, `StringAssumption` (the two literals of
  the module are strings, which the provers do not know), `ConfigsAssumption`
  (parsing gives a rule or an error), `ZoneAssumption` (the rules that are there at
  first have different refs).
* Domain driver: `RegistrarAssumption`, `DomainConfigsAssumption`,
  `DomainBoundsAssumption`.
* Listings and server: `PageAssumption`, `ZonesAssumption`, `ServerAssumption`.

### The DNS driver

`TypeOK` is inductive; its core is that ids are unique and below `nextId`, in
the zone and in every listing. `UnlistedPreserved` and `RemovesOnlyListed` are
not: a step acts by an id from an old listing, and nothing in `TypeOK` ties that
id to the record it has now. `SafeInv` adds `Tracking`: while a listing is
trusted, a record of the zone whose id is in the listing still has the key it
was listed with, and a lost update carries the key of the record it is for. It
also adds `LoopDone`: beyond the first loop every desired record has been seen,
so that the final loop compares with all keys. Each action is one step of the proof.

`EmptyPlanChangesNothing` is about the listing alone, so it holds of disturbed
calls too. `NothingFound` of `DNSRecordProofs` says what an empty diff means: each
desired record matches the first of its key, and nothing is stale or unlisted.
Then the first loop finds each record in place unless an earlier one of the same
call took it, which distinct keys exclude, and the last two find nothing once
`SeenInv` holds: of each key the loop is past, a listed record was taken, if
there was one.

`NoDuplicates` and `NeverRefused` speak about the whole zone, so `UndisturbedInv`
adds an exact account of it: `Exact` says that for an undisturbed call the
records of the zone are those of its listing, less the ones it deleted, some
of them rewritten, with the ones it created; `LocalsInv` that the locals belong
to the listing; `NoClash` that the service never holds a clash.

`DeclaredSurvives` and `NoDriftAfterApply` need to know what the call has achieved,
which the account does not say. `AppliedInv` adds it, as `Applied(p)`: what the
loop has not reached is as it was listed; each desired record the loop has passed
has one record placed for it, which agrees with it in every field that is
sent; placed records have different keys; a record that was added has a key the
listing lacks; and behind the removing loops no stale marker and no undeclared
record is left. At `readOutput` the loop has passed every record, so that each key of the spec
has one record, it matches, and nothing else counts: `NothingToDo` of
`DNSRecordProofs` then says that the diff is empty.

`DriverKeepsContract` maps every step: `Start` to `Begin`, an update or a creation
to `Place`, a removal to `Remove`, the output of a success to `Succeed`, a return
with an error to `GiveUp`, and the rest to a stutter. That a removal is of a spare record
and that a success leaves everything in place are the steps that need
`AppliedInv`; `ContractInv` adds what `ContractAssumption` rules out.

### Records and configs

`CanonicalTwice` is the lemma the others rest on: a canonical name is its own
canonical name, whatever its capitals and its final dot. `DedupeKeepsKeys` follows
the loop of `dedupeDesiredRecords`: `Kept` says that after n records their keys are those of
the records kept, each once. The library's induction principles take an operator
as parameter, which the provers cannot instantiate; in their place stands
`CountingUp`, about the set of the numbers for which the claim holds. It is proved
from the library's theorem that a nonempty set of numbers has a least member.
`ImportsHaveNoDrift` follows a record from the config through `newRecordBody`,
`recordOutput` and `parseDNSSpec` back to a record of the same key and fields.

### The redirect driver

`RedirectInv` is `TypeOK`, `NoSharedRef` and `CallsOK`. That refs stay apart is
inductive only with what is under way: `NoSharedRef` itself speaks of the service, of
late requests and of fetches, and `CallsOK` says what a call knows: its ref is that of
its spec, only a Create writes without a ruleset, and the fetch of a call that
nobody has disturbed is what the service has. What Delete's filter keeps is a
recursive function, `RulesBut`; `Keeping` and the lemmas after it say, by the same
kind of induction, what it keeps and in which order, for lists of every length.

### The domain driver

`IInv` is `TypeOK`, `OnlyAsAsked` and two parts. `CallsOK`
carries the opt-in from the plan to the Edit: what is planned with the opt-in was
asked for, and only such a call gets to an Edit. `OutputsOK` is why an empty plan
is true: outputs that nothing outdated show what the registrar holds, or the
registrar holds what the config asks for.

### Listings and the server

`PagingInv` speaks about listings in progress, which the two properties do not:
what stayed is listed or still ahead unless something was deleted, and nothing is both
unless something was created. The lemmas `Inserted` and `Removed` say what
`InsertAt` and `RemoveAt` make of a sequence, `InsertedBehind` and
`RemovedBehind` what that does to the records ahead.

`ServerImplementsPaging` is a refinement: every action of `IaCServer` is a step of
`ListPaging` or leaves its variables alone, by which the theorems about listings
hold for the server. `ServerInv` says of a call past its check that the drivers
are there; they stay, since no step sets a field to nil. `ZonesInv` says that a
call has the zone it asked for: looked up, made, or given by id.

`TypesInv` adds to `TypeOK` what it depends on: requests may be made of what was
learnt, a call that works has a ref to work on, and a call that lists has
a listing of its zone. `ConfigInv` says that while no Initialize runs all four
fields are of the accepted config, and while one runs which fields it has set.
`DestroyInv` balances a Destroy: answered and open refs together are the refs of the
request, and what is answered as destroyed was deleted. `LearntInv` says that what an Import
returned stands for a zone that was there, with the config of its domain, and that a
zone that was there is held or gone.

### Only model-checked

The liveness properties `CallsReturn`, `Reconciles` and `Converges`: liveness
under fairness is out of the prover's reach. The four runs that
expect a violation are TLC's as well.

## Not modelled

* Data races as Go's memory model has them: `zones` is an interface of two
  words that Initialize writes without a lock, and a handler may see half of it.
  Fields are read and written as wholes here, and the check of three fields
  is one step.
* Tokens and timeouts of a config: a config is the account it names, or none.
* `OtherDriver`: to the server, the domain and the redirect driver answer as they
  like; what they do is in their own modules.
* A request that outlives its timeout in `IaCServer`: it has taken effect when
  the call fails, or never. `DNSDriver` and `RedirectDriver` have late ones.
* The pages in which zones are listed by the SDK's pager, the two retries of each
  page of records, DNSSEC status (its error is ignored). The DNS and the
  redirect driver's client retries no other request (`WithMaxRetries(0)`, dns.go:958).
  The registrar's client (domain.go:339) and that of EnumerateAll
  (iacserver.go:110) keep the SDK's own retries, which are not modelled: those of a
  listing change nothing, and a repeated Edit asks for a change that is asked for
  already, of which the model keeps one.
* The kinds of errors. The code takes any text with "not found" for a missing
  zone; `Fail` of `IaCServer` allows for that, and no property tells them apart.
* AdoptionRef, which no handler calls, and ResolveSizing, BootstrapStateBackend,
  FinalizeApply, Name, Version, Capabilities, SensitiveKeys: constants.
* The two status requests of the domain driver, whose errors are ignored and whose
  answers Diff does not read.
* The text of names, addresses and quoted strings; wording of errors; conversion
  of messages. An address of AAAA or the value of CAA has one spelling here.
* `cmd/workflow-plugin-cloudflare/main.go` starts the server and keeps no state.

## Plan

What is left, most useful first:

1. A caller that repeats a redirect's Create, as `DNSReconcile` does.
2. Data of records: spellings of addresses, nested quotes of TXT.
3. `DNSDriver` on listings in pages instead of one step, for calls that are disturbed.
4. Theorems: what several undisturbed callers one after another keep of
   `ZoneContract`; that a redirect's write leaves the ruleset it sent when nobody
   interferes; the safety part of `Reconciles`, that a zone in which the spec
   is in place is left as it is by another Create.
