---------------------------- MODULE PublicAddress ----------------------------
(***************************************************************************)
(* The public addresses of a project's deployments: for a rollout's plan,  *)
(* and for every page that shows deployments, the managed domain is made   *)
(* to point at the target of that deployment (public_domain_resolver.go,   *)
(* project_domain_service.go), and a page then asks every URL whether it   *)
(* answers with a trusted certificate (deployment_service.go,              *)
(* public_url_tls_verifier.go).                                            *)
(*                                                                         *)
(* The domain is one hostname with one A record; how it gets its name is   *)
(* the matter of Domains.                                                  *)
(***************************************************************************)
EXTENDS Naturals, Sequences

CONSTANTS Targets,      \* instances or clusters deployments are bound to
          PublicIPs,    \* valid public addresses
          Revised,      \* the public services of a revision: Seq of [path, placed]
          MaxPlanned,   \* bound on rollouts
          MaxEvents     \* bound on pages, allocations and changes of the outside

VARIABLES planned,   \* the deployments in the order they were made: [target, services]
          targetIP,  \* target -> its public address, or "none"
          primary,   \* the target of the primary binding
          row,       \* the domain: [status, ip]
          record,    \* the address of the A record, or "none"
          answers,   \* address -> what HTTPS finds there: "ready" | "error" | "pending"
          page,      \* the page being built: [at, last, urls, todo, seen, shown]
          followed,  \* history: nothing but pages came since a successful allocation
          events

addressVars == <<planned, targetIP, primary, row, record, answers, page, followed, events>>

NoPage == [at |-> 0, last |-> 0, urls |-> {}, todo |-> {}, seen |-> {}, shown |-> {}]
Happens == events < MaxEvents /\ events' = events + 1

-----------------------------------------------------------------------------
(* resolveTargetPublicIP: where a service is placed decides, else the      *)
(* target of the binding; the first service with an address decides.       *)
resolveTargetPublicIP(d, s) == targetIP[IF s.placed \in Targets THEN s.placed ELSE d.target]

Reachable(d) == SelectSeq(d.services, LAMBDA s : resolveTargetPublicIP(d, s) # "none")

(* Paths under the domain, one URL for each.                               *)
collectPublicURLs(d) ==
    IF Reachable(d) = <<>> THEN {} ELSE {d.services[i].path : i \in DOMAIN d.services}

(* ensureManagedDomain with an address: an active row that was synced with *)
(* it needs nothing; otherwise the record is written, which may fail.      *)
EnsureManagedDomain(ip) ==
    \/ row = [status |-> "active", ip |-> ip] /\ UNCHANGED <<row, record>>
    \/ /\ row # [status |-> "active", ip |-> ip]
       /\ \/ row' = [status |-> "active", ip |-> ip] /\ record' = ip
          \/ row' = [row EXCEPT !.status = "error"] /\ UNCHANGED record

Resolve(d) ==
    IF Reachable(d) = <<>> THEN UNCHANGED <<row, record>>
    ELSE EnsureManagedDomain(resolveTargetPublicIP(d, Head(Reachable(d))))

-----------------------------------------------------------------------------
(* Rollouts, and the button that allocates the domain or syncs it again.   *)

PlanRollout == \E t \in Targets, services \in Revised :
    /\ Len(planned) < MaxPlanned
    /\ planned' = Append(planned, [target |-> t, services |-> services])
    /\ Resolve([target |-> t, services |-> services])
    /\ followed' = FALSE
    /\ UNCHANGED <<targetIP, primary, answers, page, events>>

Allocate ==
    /\ Happens
    /\ IF targetIP[primary] = "none"
       THEN row' = [status |-> "pending", ip |-> "none"] /\ UNCHANGED record
       ELSE EnsureManagedDomain(targetIP[primary])
    /\ followed' = (row'.status = "active")
    /\ UNCHANGED <<planned, targetIP, primary, answers, page>>

-----------------------------------------------------------------------------
(* Pages: the list shows all deployments, the newest first, the detail     *)
(* one.  Answers are remembered while one page is built.  The URLs of a    *)
(* deployment are asked one after the other; in which order is left open.  *)

Open(from, to) ==
    /\ Happens
    /\ page' = [NoPage EXCEPT !.at = from, !.last = to, !.todo = {"resolve"}]
    /\ UNCHANGED <<planned, targetIP, primary, row, record, answers, followed>>

OpenPage ==
    /\ page.at = 0 /\ planned # <<>>
    /\ \/ Open(Len(planned), 1)                    \* List
       \/ \E i \in DOMAIN planned : Open(i, i)     \* Get

(* resolveDeploymentPublicDomains *)
ShowDeployment ==
    /\ page.at # 0 /\ page.todo = {"resolve"}
    /\ Resolve(planned[page.at])
    /\ LET urls == collectPublicURLs(planned[page.at]) IN
       page' = [page EXCEPT !.todo = urls, !.urls = urls]
    /\ UNCHANGED <<planned, targetIP, primary, answers, followed, events>>

(* Observe: the name, the connection, the certificate. *)
Observe == IF record = "none" THEN "pending" ELSE answers[record]

Remembered(u) == \E o \in page.seen : o.url = u

(* Slip: every deployment's URLs are asked again. *)
AlwaysObserved(u) ==
    /\ u \in page.todo /\ u # "resolve"
    /\ page' = [page EXCEPT !.todo = @ \ {u}, !.seen =
            {o \in @ : o.url # u} \cup {[url |-> u, status |-> Observe]}]

ObservedOnce(u) ==
    /\ u \in page.todo /\ u # "resolve"
    /\ page' = [page EXCEPT !.todo = @ \ {u}, !.seen =
            IF Remembered(u) THEN @ ELSE @ \cup {[url |-> u, status |-> Observe]}]

ObserveURL ==
    /\ page.at # 0
    /\ \E u \in page.todo : ObservedOnce(u)
    /\ UNCHANGED <<planned, targetIP, primary, row, record, answers, followed, events>>

(* summarizePublicURLObservations: ready if any is, else an error if any   *)
(* is, else pending.                                                       *)
summarizePublicURLObservations(statuses) ==
    IF "ready" \in statuses THEN "ready"
    ELSE IF "error" \in statuses THEN "error"
    ELSE IF "pending" \in statuses THEN "pending" ELSE ""

ShownDeployment ==
    LET observed == {o \in page.seen : o.url \in page.urls}
    IN  [urls   |-> page.urls,
         ready  |-> {o.url : o \in {x \in observed : x.status = "ready"}},
         status |-> summarizePublicURLObservations({o.status : o \in observed})]

DeploymentShown ==
    /\ page.at # 0 /\ page.todo = {}
    /\ LET shown == page.shown \cup {ShownDeployment} IN
       page' = IF page.at = page.last THEN [NoPage EXCEPT !.shown = shown]
               ELSE [page EXCEPT !.at = @ - 1, !.todo = {"resolve"}, !.shown = shown]
    /\ UNCHANGED <<planned, targetIP, primary, row, record, answers, followed, events>>

-----------------------------------------------------------------------------
(* The outside. *)

TargetChanges ==
    /\ Happens /\ followed' = FALSE
    /\ \/ \E t \in Targets, ip \in PublicIPs \cup {"none"} :
             ip # targetIP[t] /\ targetIP' = [targetIP EXCEPT ![t] = ip] /\ UNCHANGED primary
       \/ \E t \in Targets \ {primary} : primary' = t /\ UNCHANGED targetIP
    /\ UNCHANGED <<planned, row, record, answers, page>>

HostChanges ==
    /\ Happens
    /\ \E ip \in PublicIPs, a \in {"ready", "error", "pending"} :
         a # answers[ip] /\ answers' = [answers EXCEPT ![ip] = a]
    /\ UNCHANGED <<planned, targetIP, primary, row, record, page, followed>>

AddressInit ==
    /\ planned = <<>> /\ targetIP \in [Targets -> PublicIPs] /\ primary \in Targets
    /\ row = [status |-> "pending", ip |-> "none"] /\ record = "none"
    /\ answers = [ip \in PublicIPs |-> "pending"]
    /\ page = NoPage /\ followed = FALSE /\ events = 0

AddressNext ==
    \/ PlanRollout \/ Allocate
    \/ OpenPage \/ ShowDeployment \/ ObserveURL \/ DeploymentShown
    \/ TargetChanges \/ HostChanges

AddressSpec == AddressInit /\ [][AddressNext]_addressVars

-----------------------------------------------------------------------------
(* One page does not contradict itself: two deployments that share a URL   *)
(* show it both as ready or both as not, however the host and the record   *)
(* change while the page is built; and what is shown as ready has a URL.   *)
OneAnswerPerPage ==
    \A a, b \in page.shown :
        /\ a.ready \cap b.urls = b.ready \cap a.urls
        /\ a.status = "ready" <=> a.ready # {}

(* "expected sync to target public ip": once the domain was allocated for  *)
(* the primary target, it points there until something is deployed or the  *)
(* target changes; looking at deployments does not move it.                *)
DomainStaysOnTarget == followed => record = targetIP[primary]
=============================================================================
