----------------------------- MODULE RepoLinks ------------------------------
(***************************************************************************)
(* Which project a GitHub repository's events belong to: the installation  *)
(* records of the users (service/github_installation_service.go) and the   *)
(* links from projects to a repository and branch                          *)
(* (service/project_repo_link_service.go).                                 *)
(*                                                                         *)
(* One repository and one installation of the GitHub app on it.  A user's  *)
(* record of the installation says whether it is revoked and whether the   *)
(* repository is in its scope.  A link is the branch a project tracks.     *)
(***************************************************************************)
EXTENDS Naturals, FiniteSets

CONSTANTS Projects,    \* projects
          Owners,      \* users
          OwnerOf,     \* the user a project belongs to
          Branches,    \* branches of the repository
          SyncCalls    \* syncs of installations that may run at once

VARIABLES
    github,    \* user -> what GitHub would list: [installed, inScope]
    record,    \* user -> the installation's row: [known, revoked, inScope]
    syncing,   \* sync -> [user, seen, current]: the list it read and whether it still is
               \* what GitHub would list; user is None when the call is over
    linking,   \* project -> the branch a running LinkRepository checked, or None
    tracked,   \* project -> the branch of its link, or None
    synced     \* users whose row was last written from a list that still is GitHub's

linkVars == <<github, record, syncing, linking, tracked, synced>>

None    == "none"
NoSync  == [user |-> None, seen |-> [installed |-> FALSE, inScope |-> FALSE], current |-> FALSE]
Unknown == [known |-> FALSE, revoked |-> FALSE, inScope |-> FALSE]

LinksInit ==
    /\ github  = [u \in Owners |-> [installed |-> TRUE, inScope |-> TRUE]]
    /\ record  = [u \in Owners |-> Unknown]
    /\ syncing = [c \in SyncCalls |-> NoSync]
    /\ linking = [p \in Projects |-> None]
    /\ tracked = [p \in Projects |-> None]
    /\ synced = {}

\* The user changes the installation at GitHub.
ChangeInstallation(u) ==
    /\ \E i, s \in BOOLEAN : github' = [github EXCEPT ![u] = [installed |-> i, inScope |-> i /\ s]]
    /\ syncing' = [c \in SyncCalls |->
          [syncing[c] EXCEPT !.current = @ /\ syncing[c].user # u]]
    /\ synced' = synced \ {u}
    /\ UNCHANGED <<record, linking, tracked>>

\* SyncInstallations asks GitHub: from the user's own page, and at every login
\* with GitHub, so that the syncs of a user may run at once.
SyncList(c, u) ==
    /\ syncing[c].user = None
    /\ syncing' = [syncing EXCEPT ![c] = [user |-> u, seen |-> github[u], current |-> TRUE]]
    /\ UNCHANGED <<github, record, linking, tracked, synced>>

\* GitHub or the database fails.
SyncFails(c) ==
    /\ syncing[c].user # None
    /\ syncing' = [syncing EXCEPT ![c] = NoSync]
    /\ UNCHANGED <<github, record, linking, tracked, synced>>

\* The row an installation's list makes of the one before.
Listed(seen, row) ==
    IF seen.installed THEN [known |-> TRUE, revoked |-> FALSE, inScope |-> seen.inScope]
    ELSE [row EXCEPT !.revoked = @ \/ row.known]

WriteRow(c, row) ==
    /\ record' = [record EXCEPT ![syncing[c].user] = row]
    /\ synced' = IF syncing[c].current THEN synced \cup {syncing[c].user}
                 ELSE synced \ {syncing[c].user}
    /\ syncing' = [syncing EXCEPT ![c] = NoSync]
    /\ UNCHANGED <<github, linking, tracked>>

\* Slip: installations that are no longer listed are left as they are.
SyncInstallationsNoRevoke(c) ==
    /\ syncing[c].user # None
    /\ WriteRow(c, IF syncing[c].seen.installed THEN Listed(syncing[c].seen, record[syncing[c].user])
                   ELSE record[syncing[c].user])

\* The listed installation is upserted, and one that is not listed is revoked
\* (Upsert and RevokeMissing; with one installation only one of them applies).
\* Whichever sync writes last decides, be its list older than another's.
SyncInstallations(c) ==
    /\ syncing[c].user # None
    /\ WriteRow(c, Listed(syncing[c].seen, record[syncing[c].user]))

\* resolveInstallationRepository
Accessible(p) ==
    LET r == record[OwnerOf[p]] IN r.known /\ ~r.revoked /\ r.inScope

\* GetByRepoBranch: links of one installation record (one user) conflict.
Conflict(p, b) ==
    \E q \in Projects \ {p} : OwnerOf[q] = OwnerOf[p] /\ tracked[q] = b

\* LinkRepository up to its write: access, then the conflict check.
LinkCheck(p, b) ==
    /\ linking[p] = None
    /\ Accessible(p) /\ ~Conflict(p, b)
    /\ linking' = [linking EXCEPT ![p] = b]
    /\ UNCHANGED <<github, record, syncing, tracked, synced>>

\* The upsert on project_id; the unique index on the route makes it fail when
\* another project took the branch meanwhile.
LinkRepository(p) ==
    /\ linking[p] # None
    /\ tracked' = IF Conflict(p, linking[p]) THEN tracked
                  ELSE [tracked EXCEPT ![p] = linking[p]]
    /\ linking' = [linking EXCEPT ![p] = None]
    /\ UNCHANGED <<github, record, syncing, synced>>

\* The projects a webhook of the branch may be routed to.  The lookup takes any
\* one of them (Limit(1) without an order); the link outlives its repository's
\* presence in the scope.
LookupWebhookRoute(b) ==
    {p \in Projects : tracked[p] = b /\ record[OwnerOf[p]].known
                         /\ ~record[OwnerOf[p]].revoked}

LinksNext ==
    \/ \E u \in Owners : ChangeInstallation(u) \/ \E c \in SyncCalls : SyncList(c, u)
    \/ \E c \in SyncCalls : SyncInstallations(c) \/ SyncFails(c)
    \/ \E p \in Projects : LinkRepository(p) \/ \E b \in Branches : LinkCheck(p, b)

\* While the sync that wrote a user's record last had listed GitHub's present
\* state, an uninstalled app routes no event to the user's projects and an
\* installed one routes them all, whichever other syncs failed, wrote before or
\* are still under way (SyncInstallations, LookupWebhookRoute).
SyncedRoutes ==
    \A u \in synced : \A p \in Projects : OwnerOf[p] = u /\ tracked[p] # None =>
        (p \in LookupWebhookRoute(tracked[p]) <=> github[u].installed)

\* A branch of a repository has at most one project of a user, whatever
\* links are made at the same time: an event is built for one of them only.
OneRoutePerUser ==
    \A p, q \in Projects :
        OwnerOf[p] = OwnerOf[q] /\ tracked[p] = tracked[q] /\ tracked[p] # None => p = q
=============================================================================
