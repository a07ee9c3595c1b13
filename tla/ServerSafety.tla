---------------------------- MODULE ServerSafety ----------------------------
(***************************************************************************)
(* What the handlers of the server owe their callers, whatever else runs   *)
(* on the same object and on the same zones.                               *)
(***************************************************************************)
EXTENDS IaCServer

\* Every variable holds values of its kind.
TypeOK ==
    /\ PagingTypeOK
    /\ held \subseteq ZoneIds /\ gone \subseteq ZoneIds /\ held \cap gone = {}
    /\ {dnsDriver, domainDriver, redirectDriver, zones} \subseteq Configs \cup {Nil}
    /\ \A c \in Callers :
          /\ req[c] \in Requests \cup Learnt
          /\ pc[c] \in {"ready", "return", "resourceDriver", "other", "GetZone", "CreateZone",
                        "DeleteZone", "applyRecords", "writeRecords", "readOutput",
                        "ListZones"} \cup Fields
          /\ pc[c] \in {"applyRecords", "readOutput", "writeRecords"} =>
                scan[c].zone = zid[c]
          /\ pc[c] \in {"applyRecords", "readOutput"} => scan[c].status = "on"
          /\ zid[c] \in ProviderIDs
          /\ pc[c] \in {"ready", "ListZones", "return"} \cup Fields \/ todo[c] # <<>>
    /\ imported \subseteq [ref : ResourceRef, spec : ZoneSpec]
    /\ enumerated \subseteq Names
    /\ fresh \subseteq Records

-----------------------------------------------------------------------------
(* The object that all handlers share *)

\* No handler works with a driver or a lister that is not there, though each
\* field is read again after the check and Initialize sets them one by one
\* (iacserver.go:97-101, 141, 248, 269; resourcedriver_server.go:17).
NoNilDriver == \A c \in Callers : Nil \notin used[c]

\* A call beside which no Initialize runs uses the drivers of one config, that of
\* the last Initialize that succeeded: one that fails changes nothing.  Two
\* Initializes at once may leave a mixture, until the next (iacserver.go:85-103).
OneConfigPerCall ==
    \A c \in Callers :
        ~overlap[c] /\ current # Mixed => used[c] \subseteq {current}

-----------------------------------------------------------------------------
(* Destroy *)

Count(s, x) == Cardinality({i \in DOMAIN s : s[i] = x})
Named(refs) == [i \in DOMAIN refs |-> refs[i].name]

Destroyed(c) == req[c].op = "Destroy" /\ pc[c] = "return" /\ todo[c] = <<>>

\* The zone that a ref of a Destroy stands for was deleted by this call.
Deleted(c, ref) ==
    \/ ref.type = "infra.http_redirect"
    \/ /\ ref.type \in {"", "infra.dns"}
       /\ \E z \in removed[c] :
             ref.id = z \/ (ref.id = NoId /\ ZoneName[z] = ref.name)

\* Destroy answers for each ref once, as destroyed or with an error, whichever of
\* them fail.  What it reports as destroyed it has deleted, and what it deleted
\* it reports (iacserver.go:147-158).
DestroyAccounts ==
    \A c \in Callers : Destroyed(c) =>
        LET refs == req[c].refs
        IN  /\ \A n \in Names \cup Labels \cup ZoneIds :
                  Count(answer[c].destroyed, n) + Count(answer[c].errors, n)
                      = Count(Named(refs), n)
            /\ \A n \in Range(answer[c].destroyed) :
                  \E i \in DOMAIN refs : refs[i].name = n /\ Deleted(c, refs[i])
            /\ \A z \in removed[c] :
                  \E i \in DOMAIN refs :
                      /\ refs[i].name \in Range(answer[c].destroyed)
                      /\ refs[i].id \in {z, NoId}

-----------------------------------------------------------------------------
(* Zones and references *)

\* Records are only written to the zone of the config's domain, unless a Create
\* gives a zone_id, and a zone that is deleted is the one the ref names: by
\* its id, or by its name if it has none (dns.go:171-206, 258-274).
WritesNamedZone ==
    \A c \in Callers :
        LET z == zid[c]
            s == req[c].spec
        IN  /\ pc[c] \in {"applyRecords", "writeRecords"} =>
                  ZoneName[z] = s.domain \/ (Op(c) = "Create" /\ s.id = z)
            /\ pc[c] = "DeleteZone" =>
                  \/ z = Ref(c).id
                  \/ Ref(c).id = NoId /\ ZoneName[z] = Ref(c).name

GivesUp(c) == pc'[c] = "return" /\ upsets' = upsets

\* A zone that EnumerateAll has listed can be imported by what it was listed
\* with, its name, as long as there is a zone of that name
\* (iacserver.go:416-418 and 432, domainAndZoneIDFromRef of dns.go).
EnumeratedImportable ==
    [][\A c \in Callers :
         req[c].op = "Import" /\ pc[c] = "GetZone" /\ GivesUp(c)
         /\ Ref(c).type \in {"", "infra.dns"} /\ Ref(c).id \in Names
            => ~\E z \in held : ZoneName[z] = Ref(c).id]_vars

\* A zone that was imported, by its name or by its id, is found by the ref that
\* the import gave until it is deleted: no Destroy, and no Update by the config
\* that came with it, takes it for missing or for the zone of another domain
\* (Import of iacserver.go, dnsOutput of dns.go).
ImportedReachable ==
    [][\A c \in Callers :
         /\ pc[c] \in {"GetZone", "DeleteZone"} /\ req[c].op \in {"Destroy", "Update"}
         /\ GivesUp(c) /\ todo[c] # <<>>
         /\ \E state \in imported :
               Ref(c) = state.ref /\ (req[c].op = "Update" => req[c].spec = state.spec)
         /\ req[c].op = "Destroy" => answer'[c].errors # answer[c].errors
         => Ref(c).id \in gone]_vars

=============================================================================
