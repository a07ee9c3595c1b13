----------------------------- MODULE IaCServer -----------------------------
(***************************************************************************)
(* cfIaCServer: the handlers of internal/iacserver.go and of               *)
(* internal/resourcedriver_server.go, which run beside each other on one   *)
(* object without a lock, down to the zones and listings that DNSDriver    *)
(* gets to.  What DNSDriver does to records is in the module of that name; *)
(* here it creates and deletes some.  The domain and the redirect driver   *)
(* answer as they like, but that domains are never created or deleted.     *)
(***************************************************************************)
EXTENDS ZoneLookup

CONSTANTS Configs,        \* provider configs: those that pass Validate,
          BadConfigs,     \* and others
          ConfigAccount,  \* the account_id of each
          Nil, Mixed,
          Requests,       \* what an engine asks, apart from what it has learnt
          FirstZones, FirstOrder, \* the zones at first, with their records
          MaxCalls,
          MaxUpsets  \* API calls that fail and edits in the dashboard

Ops == {"Initialize", "Plan", "Destroy", "Status", "Import", "EnumerateAll",
        "Create", "Read", "Update", "Delete", "Diff", "HealthCheck", "Scale"}

Request == [op : Ops, refs : Seq(ResourceRef), spec : ZoneSpec,
            config : Configs \cup BadConfigs]

ASSUME ServerAssumption ==
    /\ Nil \notin Configs /\ Mixed \notin Configs \cup {Nil}
    /\ Configs \cap BadConfigs = {} /\ Configs # {}
    /\ ConfigAccount \in [Configs -> Accounts \cup {NoAccount}]
    /\ Requests \subseteq Request
    /\ \A req \in Requests : req.op \in {"Initialize", "Plan", "EnumerateAll"}
                                 \/ req.refs # <<>>
    /\ \E req \in Requests : req.op = "Initialize"
    /\ FirstZones \subseteq ZoneIds
    /\ FirstOrder \in [ZoneIds -> Seq(Records)]
    /\ \A z \in ZoneIds : IsInjective(FirstOrder[z])
    /\ MaxCalls \in Nat /\ MaxUpsets \in Nat

VARIABLES dnsDriver, domainDriver, redirectDriver, zones, \* by their config
          pc,      \* where a call is; "ready" between two calls
          req,     \* the request of a call
          todo,    \* refs the loop of a call has yet to come to
          driver,  \* the config of the driver in use
          zid,     \* the zone id in use
          answer,  \* DestroyResult
          imported, enumerated, \* what the engine has learnt: resources, names
          fresh,   \* record ids that were never used
          current, \* history: the config of the last Initialize
          used,    \* history: the configs a call has used
          overlap, \* history: an Initialize has run beside the call
          removed, \* history: the zones a call has deleted
          calls, upsets

fieldVars == <<dnsDriver, domainDriver, redirectDriver, zones>>
learntVars == <<imported, enumerated>>
historyVars == <<current, used, overlap, removed>>
boundVars == <<calls, upsets>>
vars == <<pagingVars, zoneVars, fieldVars, pc, req, todo, driver, zid, answer,
          learntVars, fresh, historyVars, boundVars>>

serviceVars == <<pagingVars, zoneVars, fresh>>

-----------------------------------------------------------------------------
(* Requests *)

Fields == {"dnsDriver", "domainDriver", "redirectDriver", "zones"}

Initializing(c) == pc[c] \in Fields

\* Variant: only the first field that Initialize sets is looked at.
InitializedFirst == dnsDriver # Nil

\* What each handler but Initialize and EnumerateAll asks for first.
Initialized == dnsDriver # Nil /\ domainDriver # Nil /\ redirectDriver # Nil

NoRequest == CHOOSE r \in Requests : r.op = "Initialize"
NoAnswer == [destroyed |-> <<>>, errors |-> <<>>]

Ask(op, ref, spec) ==
    [op |-> op, refs |-> <<ref>>, config |-> CHOOSE k \in Configs : TRUE, spec |-> spec]

\* A name that was enumerated is imported; an imported resource is destroyed, or
\* updated by the config that came with it.
Learnt ==
    {Ask("Import", [type |-> "infra.dns", name |-> n, id |-> n],
         [domain |-> n, id |-> NoId, account |-> NoAccount]) : n \in enumerated}
    \cup {Ask(op, state.ref, state.spec) : op \in {"Destroy", "Update"}, state \in imported}

Arrive(c, r) ==
    /\ pc[c] = "ready"
    /\ calls < MaxCalls
    /\ calls' = calls + 1
    /\ req' = [req EXCEPT ![c] = r]
    /\ todo' = [todo EXCEPT ![c] = r.refs]
    /\ UNCHANGED <<serviceVars, fieldVars, driver, zid, answer, learntVars, current,
                   removed, upsets>>

Goto(c, label) == pc' = [pc EXCEPT ![c] = label]

\* Whether an Initialize overlaps a call that starts now.
NoteOverlap(c) == overlap' = [overlap EXCEPT ![c] = \E d \in Callers : Initializing(d)]

\* Variant: the DNS driver is made before the config is checked.
InitializeUnchecked(c, r) ==
    /\ r.op = "Initialize"
    /\ pc[c] = "ready" /\ calls < MaxCalls /\ calls' = calls + 1
    /\ req' = [req EXCEPT ![c] = r]
    /\ todo' = [todo EXCEPT ![c] = r.refs]
    /\ dnsDriver' = r.config
    /\ IF r.config \in Configs
       THEN /\ Goto(c, "domainDriver")
            /\ overlap' = [d \in Callers |->
                  d # c \/ \E e \in Callers : Initializing(e)]
       ELSE Goto(c, "return") /\ UNCHANGED overlap
    /\ UNCHANGED <<serviceVars, domainDriver, redirectDriver, zones, driver, zid,
                   answer, learntVars, current, used, removed, upsets>>

Initialize(c, r) ==
    /\ r.op = "Initialize"
    /\ Arrive(c, r)
    /\ UNCHANGED used
    /\ IF r.config \in Configs
       THEN /\ Goto(c, "dnsDriver")
            /\ overlap' = [d \in Callers |->
                  d # c \/ \E e \in Callers : Initializing(e)]
       ELSE Goto(c, "return") /\ UNCHANGED overlap

\* Plan compares configs and outputs with the drivers it finds; no API call.
Plan(c, r) ==
    /\ r.op = "Plan"
    /\ Arrive(c, r)
    /\ used' = [used EXCEPT ![c] =
          IF Initialized THEN {dnsDriver, domainDriver, redirectDriver} ELSE {}]
    /\ NoteOverlap(c)
    /\ Goto(c, "return")

EnumerateAll(c, r) ==
    /\ r.op = "EnumerateAll"
    /\ Arrive(c, r)
    /\ NoteOverlap(c)
    /\ IF zones = Nil
       THEN Goto(c, "return") /\ used' = used
       ELSE Goto(c, "ListZones") /\ used' = [used EXCEPT ![c] = {zones}]

\* Destroy, Status, Import, and the handlers of the driver's operations, which
\* refuse a request without a type.
StartCall(c, r) ==
    /\ r.op \notin {"Initialize", "Plan", "EnumerateAll"}
    /\ Arrive(c, r)
    /\ UNCHANGED used
    /\ NoteOverlap(c)
    /\ IF /\ Initialized
          /\ r.op \in {"Destroy", "Status", "Import"} \/ Head(r.refs).type # ""
       THEN Goto(c, "resourceDriver")
       ELSE Goto(c, "return")

-----------------------------------------------------------------------------
(* Initialize assigns field by field *)

Assign(c, field, next) ==
    /\ pc[c] = field
    /\ Goto(c, next)
    /\ UNCHANGED <<serviceVars, req, todo, driver, zid, answer, learntVars, used,
                   overlap, removed, boundVars>>

SetDNS(c) ==
    /\ Assign(c, "dnsDriver", "domainDriver")
    /\ dnsDriver' = req[c].config
    /\ UNCHANGED <<domainDriver, redirectDriver, zones, current>>

SetDomain(c) ==
    /\ Assign(c, "domainDriver", "redirectDriver")
    /\ domainDriver' = req[c].config
    /\ UNCHANGED <<dnsDriver, redirectDriver, zones, current>>

SetRedirect(c) ==
    /\ Assign(c, "redirectDriver", "zones")
    /\ redirectDriver' = req[c].config
    /\ UNCHANGED <<dnsDriver, domainDriver, zones, current>>

SetZones(c) ==
    /\ Assign(c, "zones", "return")
    /\ zones' = req[c].config
    /\ current' = IF overlap[c] THEN Mixed ELSE req[c].config
    /\ UNCHANGED <<dnsDriver, domainDriver, redirectDriver>>

-----------------------------------------------------------------------------
(* The operations of a call *)

Ref(c) == Head(todo[c])

Op(c) == CASE req[c].op = "Destroy"             -> "Delete"
           [] req[c].op \in {"Status", "Import"} -> "Read"
           [] OTHER                             -> req[c].op

\* Variant: a resource that cannot be deleted ends the loop of Destroy.
FinishAborting(c, ok) ==
    /\ IF req[c].op # "Destroy" THEN UNCHANGED answer
       ELSE IF ok THEN answer' = [answer EXCEPT ![c].destroyed = Append(@, Ref(c).name)]
       ELSE answer' = [answer EXCEPT ![c].errors = Append(@, Ref(c).name)]
    /\ todo' = [todo EXCEPT ![c] = IF ok THEN Tail(@) ELSE <<>>]
    /\ Goto(c, IF Tail(todo[c]) = <<>> \/ ~ok THEN "return" ELSE "resourceDriver")

\* An operation ends; Destroy and Status go on with the next ref.
Finish(c, ok) ==
    /\ IF req[c].op # "Destroy" THEN UNCHANGED answer
       ELSE IF ok THEN answer' = [answer EXCEPT ![c].destroyed = Append(@, Ref(c).name)]
       ELSE answer' = [answer EXCEPT ![c].errors = Append(@, Ref(c).name)]
    /\ todo' = [todo EXCEPT ![c] = Tail(@)]
    /\ Goto(c, IF Tail(todo[c]) = <<>> THEN "return" ELSE "resourceDriver")

Stay == UNCHANGED <<todo, answer>>

\* The operations that call no API: a Diff, and what the domain driver refuses.
CallsNoAPI(c) ==
    Op(c) = "Diff" \/ (Ref(c).type = "infra.domain" /\ Op(c) \in {"Create", "Delete"})

\* The driver's field is read for each ref anew.  A zone is looked up, unless it is
\* deleted by its id.
resourceDriver(c) ==
    LET type == Ref(c).type
        field == CASE type \in {"", "infra.dns"}     -> dnsDriver
                   [] type = "infra.domain"        -> domainDriver
                   [] type = "infra.http_redirect" -> redirectDriver
        byId == type \in {"", "infra.dns"} /\ Op(c) = "Delete" /\ Ref(c).id # NoId
    IN  /\ pc[c] = "resourceDriver"
        /\ \/ type \notin Types /\ Finish(c, FALSE) /\ UNCHANGED <<driver, used, zid>>
           \/ /\ type \in Types
              /\ driver' = [driver EXCEPT ![c] = field]
              /\ used' = [used EXCEPT ![c] = @ \cup {field}]
              /\ zid' = [zid EXCEPT ![c] = IF byId THEN Ref(c).id ELSE @]
              /\ \/ CallsNoAPI(c) /\ Finish(c, Op(c) = "Diff")
                 \/ /\ ~CallsNoAPI(c) /\ Stay
                    /\ Goto(c, IF byId THEN "DeleteZone"
                               ELSE IF type \in {"", "infra.dns"} THEN "GetZone"
                               ELSE "other")
        /\ UNCHANGED <<serviceVars, fieldVars, req, learntVars, current, overlap,
                       removed, boundVars>>

\* An operation of the domain or the redirect driver, as a whole.
OtherDriver(c) ==
    /\ pc[c] = "other"
    /\ \E ok \in BOOLEAN : Finish(c, ok)
    /\ UNCHANGED <<serviceVars, fieldVars, req, driver, zid, learntVars,
                   historyVars, boundVars>>

Account(c) == IF req[c].spec.account # NoAccount THEN req[c].spec.account
              ELSE ConfigAccount[driver[c]]

lookup(c) == GetZone(Wanted(Op(c), Ref(c), req[c].spec))

\* Variant: the zone's name is not compared with the config's domain.
NeverAnotherDomain(c, z) == FALSE

\* An Update is refused if the zone is that of another domain.
AnotherDomain(c, z) == Op(c) = "Update" /\ ZoneName[z] # req[c].spec.domain

FindZone(c) ==
    /\ pc[c] = "GetZone"
    /\ \E z \in lookup(c) :
          /\ zid' = [zid EXCEPT ![c] = z]
          /\ IF Op(c) = "HealthCheck" THEN Finish(c, TRUE) /\ UNCHANGED pagingVars
             ELSE IF Op(c) = "Delete"
                  THEN Goto(c, "DeleteZone") /\ Stay /\ UNCHANGED pagingVars
             ELSE IF AnotherDomain(c, z)
                  THEN Finish(c, FALSE) /\ UNCHANGED pagingVars
             ELSE /\ Goto(c, IF Op(c) \in {"Create", "Update"}
                             THEN "applyRecords" ELSE "readOutput")
                  /\ Stay
                  /\ BeginListing(c, z)
    /\ UNCHANGED <<zoneVars, fresh, fieldVars, req, driver, learntVars, historyVars,
                   boundVars>>

\* No such zone.  HealthCheck answers so, Create makes one in the account it has.
MissZone(c) ==
    /\ pc[c] = "GetZone"
    /\ lookup(c) = {}
    /\ IF Op(c) = "Create" /\ Account(c) # NoAccount
       THEN Goto(c, "CreateZone") /\ Stay
       ELSE Finish(c, Op(c) = "HealthCheck")
    /\ UNCHANGED <<serviceVars, fieldVars, req, driver, zid, learntVars, historyVars,
                   boundVars>>

MakeZone(c) ==
    LET made == Creatable(Account(c), req[c].spec.domain)
    IN  /\ pc[c] = "CreateZone"
        /\ \/ /\ made = {}
              /\ Finish(c, FALSE)
              /\ UNCHANGED <<zid, serviceVars>>
           \/ \E z \in made :
                 /\ held' = held \cup {z}
                 /\ zid' = [zid EXCEPT ![c] = z]
                 /\ BeginListing(c, z)
                 /\ Goto(c, "applyRecords") /\ Stay
                 /\ UNCHANGED <<gone, fresh>>
        /\ UNCHANGED <<fieldVars, req, driver, learntVars, historyVars, boundVars>>

RemoveZone(c) ==
    /\ pc[c] = "DeleteZone"
    /\ IF zid[c] \in held
       THEN /\ DeleteZone(zid[c])
            /\ removed' = [removed EXCEPT ![c] = @ \cup {zid[c]}]
            /\ Finish(c, TRUE)
       ELSE Finish(c, FALSE) /\ UNCHANGED <<pagingVars, zoneVars, removed>>
    /\ UNCHANGED <<fresh, fieldVars, req, driver, zid, learntVars, current, used,
                   overlap, boundVars>>

\* Variant: an import keeps the ProviderID it was asked for.
ImportedAsAsked(c) == [type |-> "infra.dns", name |-> Ref(c).name, id |-> Ref(c).id]

\* By what the engine knows an imported zone.
ImportedRef(c) == [type |-> "infra.dns", name |-> Ref(c).name, id |-> zid[c]]

importedAppliedConfig(c) ==
    [domain |-> ZoneName[zid[c]], id |-> zid[c], account |-> NoAccount]

ImportedState(c) == [ref |-> ImportedRef(c), spec |-> importedAppliedConfig(c)]

\* A page of a listing.  After the last one applyRecords writes, and a read ends;
\* a zone that is gone has no pages.
ReadPage(c) ==
    /\ pc[c] \in {"applyRecords", "readOutput"}
    /\ IF zid[c] \notin held
       THEN EndListing(c) /\ Finish(c, FALSE) /\ UNCHANGED imported
       ELSE \E counted \in BOOLEAN :
            /\ FetchPage(c, counted)
            /\ IF ~LastPage(c, counted) THEN UNCHANGED <<pc, imported>> /\ Stay
               ELSE IF pc[c] = "applyRecords"
                    THEN Goto(c, "writeRecords") /\ Stay /\ UNCHANGED imported
               ELSE /\ Finish(c, TRUE)
                    /\ imported' = IF req[c].op = "Import"
                                   THEN imported \cup {ImportedState(c)} ELSE imported
    /\ UNCHANGED <<zoneVars, fresh, fieldVars, req, driver, zid, enumerated,
                   historyVars, boundVars>>

\* The changes of applyRecords: any records are created, and any deleted that
\* were listed.
WriteRecord(c) ==
    /\ pc[c] = "writeRecords" /\ zid[c] \in held
    /\ \/ \E r \in fresh, i \in 1..(Len(order[zid[c]]) + 1) :
             CreateRecord(zid[c], i, r) /\ fresh' = fresh \ {r}
       \/ \E i \in DOMAIN order[zid[c]] :
             /\ order[zid[c]][i] \in scan[c].listed
             /\ DeleteRecord(zid[c], i)
             /\ UNCHANGED fresh
    /\ UNCHANGED <<zoneVars, fieldVars, pc, req, todo, driver, zid, answer,
                   learntVars, historyVars, boundVars>>

\* A listed record, or the zone, is no longer there to be changed.
MissRecord(c) ==
    /\ pc[c] = "writeRecords"
    /\ zid[c] \notin held \/ ~(scan[c].listed \subseteq Range(order[zid[c]]))
    /\ Finish(c, FALSE)
    /\ UNCHANGED <<serviceVars, fieldVars, req, driver, zid, learntVars, historyVars,
                   boundVars>>

\* Variant: the output is made of the records that were listed before.
EndWritesUnread(c) ==
    /\ pc[c] = "writeRecords"
    /\ Goto(c, "readOutput") /\ Stay
    /\ UNCHANGED <<pagingVars, zoneVars, fresh, fieldVars, req, driver, zid, learntVars,
                   historyVars, boundVars>>

\* readOutput lists the records again.
EndWrites(c) ==
    /\ pc[c] = "writeRecords"
    /\ BeginListing(c, zid[c])
    /\ Goto(c, "readOutput") /\ Stay
    /\ UNCHANGED <<zoneVars, fresh, fieldVars, req, driver, zid, learntVars,
                   historyVars, boundVars>>

\* cfProvider.EnumerateAll: each zone has its name for a ProviderID.
ListZones(c) ==
    /\ pc[c] = "ListZones"
    /\ enumerated' = enumerated \cup {ZoneName[z] : z \in held}
    /\ Goto(c, "return")
    /\ UNCHANGED <<serviceVars, fieldVars, req, todo, driver, zid, answer, imported,
                   historyVars, boundVars>>

\* An API call fails, or its time is up; what it asked for may have been done.
\* The text of the error may be one that Create takes for a missing zone.
Fail(c) ==
    /\ pc[c] \in {"GetZone", "CreateZone", "DeleteZone", "applyRecords",
                  "writeRecords", "readOutput", "ListZones"}
    /\ upsets < MaxUpsets
    /\ upsets' = upsets + 1
    /\ IF pc[c] = "ListZones" THEN Goto(c, "return") /\ Stay
       ELSE \/ Finish(c, pc[c] = "GetZone" /\ Op(c) = "HealthCheck")
            \/ /\ pc[c] = "GetZone" /\ Op(c) = "Create" /\ Account(c) # NoAccount
               /\ Goto(c, "CreateZone") /\ Stay
    /\ \/ UNCHANGED <<pagingVars, zoneVars>>
       \/ /\ pc[c] = "CreateZone"
          /\ \E z \in Creatable(Account(c), req[c].spec.domain) : held' = held \cup {z}
          /\ UNCHANGED <<gone, pagingVars>>
       \/ /\ pc[c] = "DeleteZone" /\ zid[c] \in held
          /\ DeleteZone(zid[c])
    /\ UNCHANGED <<fresh, fieldVars, req, driver, zid, learntVars, historyVars,
                   calls>>

\* A handler returns, and its variables are gone.
Return(c) ==
    /\ pc[c] = "return"
    /\ Goto(c, "ready")
    /\ req' = [req EXCEPT ![c] = NoRequest]
    /\ todo' = [todo EXCEPT ![c] = <<>>]
    /\ driver' = [driver EXCEPT ![c] = Nil]
    /\ zid' = [zid EXCEPT ![c] = NoId]
    /\ answer' = [answer EXCEPT ![c] = NoAnswer]
    /\ EndListing(c)
    /\ used' = [used EXCEPT ![c] = {}]
    /\ overlap' = [overlap EXCEPT ![c] = FALSE]
    /\ removed' = [removed EXCEPT ![c] = {}]
    /\ UNCHANGED <<zoneVars, fresh, fieldVars, learntVars, current, boundVars>>

-----------------------------------------------------------------------------
(* The dashboard *)

Dashboard ==
    /\ upsets < MaxUpsets
    /\ upsets' = upsets + 1
    /\ \E z \in held :
          \/ /\ \E r \in fresh, i \in 1..(Len(order[z]) + 1) :
                   CreateRecord(z, i, r) /\ fresh' = fresh \ {r}
             /\ UNCHANGED zoneVars
          \/ /\ \E i \in DOMAIN order[z] : DeleteRecord(z, i)
             /\ UNCHANGED <<fresh, zoneVars>>
          \/ DeleteZone(z) /\ UNCHANGED fresh
    /\ UNCHANGED <<fieldVars, pc, req, todo, driver, zid, answer, learntVars,
                   historyVars, calls>>

-----------------------------------------------------------------------------

Start(c, r) == Initialize(c, r) \/ Plan(c, r) \/ EnumerateAll(c, r) \/ StartCall(c, r)

Step(c) ==
    \/ SetDNS(c) \/ SetDomain(c) \/ SetRedirect(c) \/ SetZones(c)
    \/ resourceDriver(c) \/ OtherDriver(c)
    \/ FindZone(c) \/ MissZone(c) \/ MakeZone(c) \/ RemoveZone(c)
    \/ ReadPage(c) \/ WriteRecord(c) \/ MissRecord(c) \/ EndWrites(c) \/ ListZones(c)
    \/ Return(c)

Init ==
    /\ order = FirstOrder
    /\ scan = [c \in Callers |-> NoListing]
    /\ held = FirstZones /\ gone = {}
    /\ dnsDriver = Nil /\ domainDriver = Nil /\ redirectDriver = Nil /\ zones = Nil
    /\ pc = [c \in Callers |-> "ready"]
    /\ req = [c \in Callers |-> NoRequest]
    /\ todo = [c \in Callers |-> <<>>]
    /\ driver = [c \in Callers |-> Nil]
    /\ zid = [c \in Callers |-> NoId]
    /\ answer = [c \in Callers |-> NoAnswer]
    /\ imported = {} /\ enumerated = {}
    /\ fresh = Records \ UNION {Range(FirstOrder[z]) : z \in ZoneIds}
    /\ current = Nil
    /\ used = [c \in Callers |-> {}]
    /\ overlap = [c \in Callers |-> FALSE]
    /\ removed = [c \in Callers |-> {}]
    /\ calls = 0 /\ upsets = 0

Next ==
    \/ \E c \in Callers :
          \/ \E r \in Requests \cup Learnt : Start(c, r)
          \/ Step(c) \/ Fail(c)
    \/ Dashboard

Spec == Init /\ [][Next]_vars

=============================================================================
