------------------------------- MODULE Domains -------------------------------
(***************************************************************************)
(* The managed domain of each project                                      *)
(* (backend/internal/service/project_domain_service.go): a row with a      *)
(* hostname, kept in step with an A record at the DNS provider             *)
(* (project_domain_dns.go).  A call reads the row, asks the provider, and  *)
(* stores the whole row; the three steps of two calls may interleave, and  *)
(* each may fail, so that the record is no longer what the row says.       *)
(***************************************************************************)
EXTENDS Naturals, Sequences

CONSTANTS Projects,
          DomainCalls,    \* calls that may be under way at the same time
          Hosts,          \* hostnames that may be chosen or generated
          Addresses,      \* public addresses of the targets
          MaxDomainCalls  \* bound on the calls and changes of address

VARIABLES rowOf,      \* project -> its row, <<>> before the first allocation
          records,    \* the A records, in the order they were created: [host, ip]
          addressOf,  \* project -> the public address of its primary target, or "none"
          domainCalls, domainBudget,
          domainTorn  \* history: the projects whose record was last written by a call that
                      \* overlapped another one of the project, or whose row was not stored

domainVars == <<rowOf, records, addressOf, domainCalls, domainBudget, domainTorn>>

IdleDomainCall == [pc |-> "idle"]
Spend == domainBudget < MaxDomainCalls /\ domainBudget' = domainBudget + 1

GetByHostname(h) == {p \in Projects : rowOf[p] # <<>> /\ rowOf[p][1].host = h}

UnderWay(p) == {d \in DomainCalls : domainCalls[d] # IdleDomainCall /\ domainCalls[d].p = p}

(* Begins a call that will store `row` for p; ip is the address read here. *)
(* `wrote` and `alone` are history: whether it wrote the record, and       *)
(* whether no other call of the project has been under way with it.        *)
BeginCall(d, p, row) ==
    /\ domainCalls[d] = IdleDomainCall /\ Spend
    /\ domainCalls' = [e \in DomainCalls |->
            CASE e = d -> [pc |-> "sync", p |-> p, row |-> row, ip |-> addressOf[p],
                           fresh |-> rowOf[p] = <<>>, wrote |-> FALSE, alone |-> UnderWay(p) = {}]
              [] e # d /\ e \in UnderWay(p) -> [domainCalls[e] EXCEPT !.alone = FALSE]
              [] OTHER -> domainCalls[e]]
    /\ domainTorn' = IF UnderWay(p) = {} THEN domainTorn ELSE domainTorn \cup {p}
    /\ UNCHANGED <<rowOf, records, addressOf>>

(* ensureManagedDomain: the first call generates a hostname no row has.    *)
(* The plan of every rollout makes this call, but only with an address.    *)
EnsureManagedDomain(d, p) ==
    \/ rowOf[p] # <<>> /\ BeginCall(d, p, rowOf[p][1])
    \/ /\ rowOf[p] = <<>>
       /\ \E h \in Hosts : GetByHostname(h) = {} /\ BeginCall(d, p,
              [host |-> h, status |-> "pending", ip |-> "none", record |-> 0, by |-> "generated"])

(* Allocate with regenerate: another generated hostname, nothing else.     *)
Regenerate(d, p) ==
    /\ rowOf[p] # <<>>
    /\ \E h \in Hosts : GetByHostname(h) = {} /\
           BeginCall(d, p, [rowOf[p][1] EXCEPT !.host = h, !.by = "generated"])

renameKeepsStatus(d, p) ==
    /\ rowOf[p] # <<>>
    /\ \E h \in Hosts : GetByHostname(h) \subseteq {p} /\
           BeginCall(d, p, [rowOf[p][1] EXCEPT !.host = h, !.by = "rename"])

(* Rename: a hostname no other project has; the row is pending again.      *)
Rename(d, p) ==
    /\ rowOf[p] # <<>>
    /\ \E h \in Hosts : GetByHostname(h) \subseteq {p} /\
           BeginCall(d, p, [rowOf[p][1] EXCEPT !.host = h, !.by = "rename", !.status = "pending"])

(* UpsertARecord: the known record is rewritten, else one is created.      *)
UpsertARecord(row, ip) ==
    IF row.record # 0 THEN [records EXCEPT ![row.record] = [host |-> row.host, ip |-> ip]]
    ELSE Append(records, [host |-> row.host, ip |-> ip])

(* syncManagedDomain: without an address the row waits; an active row that *)
(* was synced with this address needs nothing; a failure is kept as        *)
(* status, also when the provider did what it was asked and the answer was *)
(* lost.                                                                   *)
Settled(row, ip) == row.status = "active" /\ row.ip = ip /\ row.record # 0

syncManagedDomain(d) ==
    LET c == domainCalls[d]
        store(row, wrote) == domainCalls' = [domainCalls EXCEPT ![d] =
                                 [@ EXCEPT !.pc = "store", !.row = row, !.wrote = wrote]]
    IN  /\ c.pc = "sync"
        /\ \/ /\ c.ip = "none"
              /\ store([c.row EXCEPT !.status = "pending", !.ip = "none"], FALSE)
              /\ UNCHANGED records
           \/ c.ip # "none" /\ Settled(c.row, c.ip) /\ store(c.row, FALSE) /\ UNCHANGED records
           \/ /\ c.ip # "none" /\ ~Settled(c.row, c.ip)
              /\ \/ store([c.row EXCEPT !.status = "error"], FALSE) /\ UNCHANGED records
                 \/ /\ records' = UpsertARecord(c.row, c.ip)
                    /\ \/ store([c.row EXCEPT !.status = "error"], TRUE)
                       \/ store([c.row EXCEPT !.status = "active", !.ip = c.ip,
                                 !.record = IF @ = 0 THEN Len(records) + 1 ELSE @], TRUE)
        /\ UNCHANGED <<rowOf, addressOf, domainBudget, domainTorn>>

(* Create or Save, which may fail: hostnames are unique, and a project has *)
(* one row.                                                                *)
StoreRow(d) ==
    LET c == domainCalls[d]
        fits == GetByHostname(c.row.host) \subseteq {c.p} /\ (c.fresh => rowOf[c.p] = <<>>)
    IN  /\ c.pc = "store"
        /\ \/ /\ fits
              /\ rowOf' = [rowOf EXCEPT ![c.p] = <<c.row>>]
              /\ domainTorn' = IF c.wrote /\ c.alone THEN domainTorn \ {c.p} ELSE domainTorn
           \/ /\ domainTorn' = IF c.wrote THEN domainTorn \cup {c.p} ELSE domainTorn
              /\ UNCHANGED rowOf
        /\ domainCalls' = [domainCalls EXCEPT ![d] = IdleDomainCall]
        /\ UNCHANGED <<records, addressOf, domainBudget>>

(* Another primary binding, or the target's address changes.               *)
TargetMoves(p) == \E a \in Addresses \cup {"none"} :
    /\ Spend /\ a # addressOf[p]
    /\ addressOf' = [addressOf EXCEPT ![p] = a]
    /\ UNCHANGED <<rowOf, records, domainCalls, domainTorn>>

DomainInit ==
    /\ rowOf = [p \in Projects |-> <<>>] /\ records = <<>>
    /\ addressOf \in [Projects -> Addresses \cup {"none"}]
    /\ domainCalls = [d \in DomainCalls |-> IdleDomainCall] /\ domainBudget = 0 /\ domainTorn = {}

DomainNext ==
    \/ \E d \in DomainCalls, p \in Projects :
           EnsureManagedDomain(d, p) \/ Regenerate(d, p) \/ Rename(d, p)
    \/ \E d \in DomainCalls : syncManagedDomain(d) \/ StoreRow(d)
    \/ \E p \in Projects : TargetMoves(p)

DomainSpec == DomainInit /\ [][DomainNext]_domainVars

-----------------------------------------------------------------------------
(* Properties. *)

Published(row) ==
    row.record \in DOMAIN records /\ records[row.record] = [host |-> row.host, ip |-> row.ip]

Storing(p) == \E d \in UnderWay(p) : domainCalls[d].pc = "store"

(* A hostname the owner gave, once shown as active, is the name of the     *)
(* project's own record, with the address it was last synced to, whatever  *)
(* addresses, failures of the provider and generated names came between -  *)
(* unless the record was last written by a call that overlapped another    *)
(* call of the project, or whose row could not be stored.                  *)
RenamedIsPublished ==
    \A p \in Projects \ domainTorn :
        rowOf[p] # <<>> /\ ~Storing(p) /\ rowOf[p][1].by = "rename" /\ rowOf[p][1].status = "active" =>
            /\ Published(rowOf[p][1])
            /\ \A q \in Projects \ {p} : rowOf[q] # <<>> => rowOf[q][1].record # rowOf[p][1].record

(* "Đồng bộ lại DNS", "Đã đồng bộ lại domain": whatever way a hostname     *)
(* came about, an active one is published.                                 *)
ActiveIsPublished ==
    \A p \in Projects \ domainTorn :
        rowOf[p] # <<>> /\ ~Storing(p) /\ rowOf[p][1].status = "active" => Published(rowOf[p][1])

(* A stored rename is published, whatever failed after it.                 *)
RenamedStaysPublished ==
    \A p \in Projects :
        rowOf[p] # <<>> /\ UnderWay(p) = {} /\ rowOf[p][1].by = "rename" /\ rowOf[p][1].status = "active" =>
            Published(rowOf[p][1])

=============================================================================
