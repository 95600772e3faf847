-------------------------------- MODULE Mesh --------------------------------
(***************************************************************************)
(* The private overlay of a distributed binding on one agent (runtime/     *)
(* mesh_manager.go, mesh_service.go) and what dependencies resolve to over *)
(* it (resolution.go).  The foundation of a release, ensure_mesh_peer and  *)
(* sync_overlay_routes each read the live files, work on their copy and    *)
(* write the files back one after the other; nothing keeps them apart, so  *)
(* they may overlap, and each may fail or die between two steps.           *)
(*                                                                         *)
(* A route goes from one peer to another; the local peer is always active. *)
(* The agent never makes a peer degraded, so that state is left out.       *)
(***************************************************************************)
EXTENDS FiniteSets, Naturals

CONSTANTS RemotePeers,
          MeshCalls,       \* the calls in progress at a time
          MaxMeshCalls,    \* bound on calls
          MaxMeshFaults    \* bound on failing and dying calls

ASSUME MeshAssumption ==
    /\ "local" \notin RemotePeers
    /\ MaxMeshCalls \in Nat /\ MaxMeshFaults \in Nat

VARIABLES
    msState,     \* live/state.json: [peers, routes]
    msCache,     \* live/service-metadata.json: the routes' statuses
    msReport,    \* live/overlay-routes.json: the routes' statuses
    msWg,        \* the peers with a WireGuard interface
    msCall,      \* call -> [kind, step, read, cache, peers]
    msWasUp,     \* history: the peers whose interface once came up
    msUsed       \* [calls, faults] so far

meshVars == <<msState, msCache, msReport, msWg, msCall, msWasUp, msUsed>>

AllPeers    == RemotePeers \cup {"local"}
MeshRoutes  == {r \in AllPeers \X AllPeers : r[1] # r[2]}
NoFile      == [exists |-> FALSE, peers |-> [p \in {} |-> ""], routes |-> [r \in {} |-> ""]]
NoStatuses  == [exists |-> FALSE, routes |-> [r \in {} |-> ""]]
NoMeshCall  == [kind |-> "none", step |-> "none", read |-> NoFile, cache |-> NoStatuses, peers |-> {}]

MeshInit ==
    /\ msState = NoFile /\ msCache = NoStatuses /\ msReport = NoStatuses
    /\ msWg = {} /\ msWasUp = {} /\ msUsed = [calls |-> 0, faults |-> 0]
    /\ msCall = [c \in MeshCalls |-> NoMeshCall]

MeshFault == msUsed.faults < MaxMeshFaults /\ msUsed' = [msUsed EXCEPT !.faults = @ + 1]
StartCall(c, call) ==
    /\ msCall[c].kind = "none" /\ msUsed.calls < MaxMeshCalls
    /\ msUsed' = [msUsed EXCEPT !.calls = @ + 1]
    /\ msCall' = [msCall EXCEPT ![c] = call]
    /\ UNCHANGED <<msState, msCache, msReport, msWg, msWasUp>>
MoveTo(c, step) == msCall' = [msCall EXCEPT ![c] = IF step = "end" THEN NoMeshCall ELSE [@ EXCEPT !.step = step]]

PeerState(snapshot, p) ==
    CASE p = "local" -> "active"
      [] p \in DOMAIN snapshot.peers -> snapshot.peers[p]
      [] OTHER -> "absent"

\* buildMeshFoundationData, buildMeshMembership: the peers services are placed on,
\* all planned whatever they were before, and a planned route between any two.
Foundation(placed) ==
    [exists |-> TRUE, peers  |-> [p \in placed |-> "planned"],
     routes |-> [r \in {x \in MeshRoutes : {x[1], x[2]} \subseteq placed \cup {"local"}} |-> "planned"]]

\* SyncOverlayRoutes: a route is what its two peers allow.
SyncedStatus(snapshot, r) ==
    LET source == PeerState(snapshot, r[1])  target == PeerState(snapshot, r[2])
    IN  IF source = "active" /\ target = "active" THEN "verified" ELSE "blocked"

SyncedRoutes(snapshot) ==
    [snapshot EXCEPT !.routes = [r \in DOMAIN snapshot.routes |-> SyncedStatus(snapshot, r)]]

\* ensure_mesh_peer for some remote peers or all of them; it needs the live files.
EnsurePeerCall(c) ==
    /\ msState.exists /\ msCache.exists
    /\ \E kind \in {"ensure", "leave"}, S \in {DOMAIN msState.peers} \cup {{p} : p \in DOMAIN msState.peers} :
          StartCall(c, [kind |-> kind, step |-> "peers", read |-> msState, cache |-> msCache, peers |-> S])

SyncCall(c) ==
    /\ msState.exists /\ msCache.exists
    /\ StartCall(c, [kind |-> "sync", step |-> "state", read |-> SyncedRoutes(msState),
                     cache |-> [exists |-> TRUE, routes |-> SyncedRoutes(msState).routes], peers |-> {}])

\* BuildFoundation, on preparing a release.
FoundationCall(c) ==
    \E placed \in SUBSET RemotePeers :
       StartCall(c, [kind |-> "foundation", step |-> "state", read |-> Foundation(placed),
                     cache |-> [exists |-> TRUE, routes |-> Foundation(placed).routes], peers |-> {}])

\* The copy of a call once the peers in S have the state.
Marked(c, S, state) ==
    [msCall EXCEPT ![c].read.peers = [p \in DOMAIN @ |-> IF p \in S THEN state ELSE @[p]],
                   ![c].step = "state"]

\* Slip: a peer is marked active although its interface did not come up.
ensureIgnoringFailure(c) ==
    /\ msCall[c].kind = "ensure" /\ msCall[c].step = "peers"
    /\ \E up \in SUBSET msCall[c].peers :
          /\ msWg' = msWg \cup up /\ msWasUp' = msWasUp \cup up
          /\ msCall' = Marked(c, msCall[c].peers, "active")
    /\ UNCHANGED <<msState, msCache, msReport, msUsed>>

\* ensureWireGuardPeer for one peer after the other: wg-quick down and up.  One that
\* fails ends the call; the peers before it stay up, in no file.
ensureWireGuardPeers(c) ==
    /\ msCall[c].kind = "ensure" /\ msCall[c].step = "peers"
    /\ \E up \in SUBSET msCall[c].peers :
          /\ msWg' = msWg \cup up /\ msWasUp' = msWasUp \cup up
          /\ IF up = msCall[c].peers
             THEN msCall' = Marked(c, up, "active") /\ UNCHANGED msUsed
             ELSE MoveTo(c, "end") /\ MeshFault
    /\ UNCHANGED <<msState, msCache, msReport>>

\* removeWireGuardPeer: a failing wg-quick down is logged, the files are removed.
removeWireGuardPeers(c) ==
    /\ msCall[c].kind = "leave" /\ msCall[c].step = "peers"
    /\ msWg' = msWg \ msCall[c].peers
    /\ msCall' = Marked(c, msCall[c].peers, "removed")
    /\ UNCHANGED <<msState, msCache, msReport, msWasUp, msUsed>>

WriteState(c) ==
    /\ msCall[c].step = "state" /\ msState' = msCall[c].read
    /\ MoveTo(c, "cache")
    /\ UNCHANGED <<msCache, msReport, msWg, msWasUp, msUsed>>

WriteCache(c) ==
    /\ msCall[c].step = "cache" /\ msCache' = msCall[c].cache
    /\ MoveTo(c, IF msCall[c].kind = "sync" THEN "report" ELSE "end")
    /\ UNCHANGED <<msState, msReport, msWg, msWasUp, msUsed>>

WriteReport(c) ==
    /\ msCall[c].step = "report" /\ msReport' = msCall[c].cache
    /\ MoveTo(c, "end")
    /\ UNCHANGED <<msState, msCache, msWg, msWasUp, msUsed>>

\* A write fails, or the agent dies with all its calls.
CallDies ==
    /\ MeshFault
    /\ \E c \in MeshCalls : msCall[c].kind # "none"
                            /\ msCall' \in {[msCall EXCEPT ![c] = NoMeshCall], [d \in MeshCalls |-> NoMeshCall]}
    /\ UNCHANGED <<msState, msCache, msReport, msWg, msWasUp>>

MeshNext ==
    \/ \E c \in MeshCalls :
          \/ EnsurePeerCall(c) \/ SyncCall(c) \/ FoundationCall(c)
          \/ ensureWireGuardPeers(c) \/ removeWireGuardPeers(c)
          \/ WriteState(c) \/ WriteCache(c) \/ WriteReport(c)
    \/ CallDies

MeshSpec == MeshInit /\ [][MeshNext]_meshVars

\* ResolveDependency: the route report if there is one, else the snapshot's routes;
\* without the route there, what the metadata says of it.
Resolved(r) ==
    LET routes == IF msReport.exists THEN msReport.routes ELSE msState.routes
    IN  IF r \in DOMAIN routes THEN routes[r]
        ELSE IF r \in DOMAIN msCache.routes THEN msCache.routes[r] ELSE "planned"

\* ResolvePublicService: what the snapshot says of the peer.
ResolvedPublic(p) ==
    LET state == PeerState(msState, p)
    IN  CASE state = "active" -> "verified" [] state = "removed" -> "blocked" [] OTHER -> "planned"

\* A dependency or a public service resolves to a verified route only over peers
\* whose interface came up at some time, however the calls that write the live files
\* overlap, fail or die (ResolveDependency, ResolvePublicService).
VerifiedWasUp ==
    /\ \A r \in MeshRoutes : Resolved(r) = "verified" => {r[1], r[2]} \ {"local"} \subseteq msWasUp
    /\ \A p \in RemotePeers : ResolvedPublic(p) = "verified" => p \in msWasUp
=============================================================================
