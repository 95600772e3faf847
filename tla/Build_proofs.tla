----------------------------- MODULE Build_proofs -----------------------------
(***************************************************************************)
(* Builds, for every value of the constants: which project a push or a     *)
(* pull request reaches, what becomes of a delivery, and the port a built  *)
(* service is started with.                                                *)
(***************************************************************************)
EXTENDS MCBuild, FiniteSetTheorems, SequenceTheorems, TLAPS

-----------------------------------------------------------------------------
Seen      == [installed : BOOLEAN, inScope : BOOLEAN]
Installed == [known : BOOLEAN, revoked : BOOLEAN, inScope : BOOLEAN]
Sync      == [user : Owners \cup {None}, seen : Seen, current : BOOLEAN]
Tracks    == [Projects -> Branches \cup {None, Tracked}]
Routes(u) == record[u].known /\ ~record[u].revoked

LinksTyped ==
    /\ github \in [Owners -> Seen]
    /\ record \in [Owners -> Installed]
    /\ syncing \in [SyncCalls -> Sync]
    /\ linking \in Tracks
    /\ tracked \in Tracks
    /\ synced \subseteq Owners

\* A list that is current is GitHub's state, and the row written from one last
\* routes events as GitHub's state says.
SnapshotsTrue ==
    /\ \A c \in SyncCalls : syncing[c].current =>
          syncing[c].user \in Owners /\ syncing[c].seen = github[syncing[c].user]
    /\ \A u \in synced : Routes(u) <=> github[u].installed

LinksInv == LinksTyped /\ SnapshotsTrue /\ OneRoutePerUser

LEMMA LinksStart == LinksInit \/ LinksReady => LinksInv
  <1>0. NoSync \in Sync /\ ~NoSync.current  BY DEF NoSync, Sync, Seen
  <1>1. LinksInit => LinksTyped
    BY <1>0 DEF LinksInit, LinksTyped, Seen, Installed, Tracks, Unknown
  <1>2. LinksInit => SnapshotsTrue /\ OneRoutePerUser
    BY <1>0 DEF LinksInit, SnapshotsTrue, OneRoutePerUser
  <1>3. LinksReady => LinksTyped
    BY <1>0 DEF LinksReady, LinksTyped, Seen, Installed, Tracks
  <1>4. LinksReady => SnapshotsTrue
    BY <1>0 DEF LinksReady, SnapshotsTrue, Routes
  <1>5. LinksReady => OneRoutePerUser
    <2> SUFFICES ASSUME LinksReady, NEW p \in Projects, NEW q \in Projects,
                        tracked[p] = tracked[q], tracked[p] # None
                 PROVE  p = q
      BY DEF OneRoutePerUser
    <2> DEFINE first == CHOOSE r \in Projects : TRUE
    <2>1. tracked = [r \in Projects |-> IF r = first THEN Tracked ELSE None]
      BY DEF LinksReady
    <2> HIDE DEF first
    <2> QED BY <2>1
  <1> QED BY <1>1, <1>2, <1>3, <1>4, <1>5 DEF LinksInv

LEMMA ChangeKeeps ==
  ASSUME LinksInv, NEW u \in Owners, ChangeInstallation(u)
  PROVE  LinksInv'
  <1>1. github' \in [Owners -> Seen] /\ \A v \in Owners \ {u} : github'[v] = github[v]
    BY DEF LinksInv, LinksTyped, ChangeInstallation, Seen
  <1>2. ASSUME NEW c \in SyncCalls
        PROVE  /\ syncing'[c] \in Sync
               /\ syncing'[c].user = syncing[c].user /\ syncing'[c].seen = syncing[c].seen
               /\ syncing'[c].current => syncing[c].current /\ syncing[c].user # u
    <2>1. syncing[c] \in Sync  BY DEF LinksInv, LinksTyped
    <2>2. syncing'[c] = [syncing[c] EXCEPT !.current = @ /\ syncing[c].user # u]
      BY DEF ChangeInstallation
    <2> QED BY <2>1, <2>2 DEF Sync
  <1>3. syncing' \in [SyncCalls -> Sync]  BY <1>2 DEF ChangeInstallation
  <1>4. synced' = synced \ {u} /\ UNCHANGED <<record, linking, tracked>>
    BY DEF ChangeInstallation
  <1>5. SnapshotsTrue'
    BY <1>1, <1>2, <1>4 DEF LinksInv, LinksTyped, SnapshotsTrue, Routes
  <1> QED BY <1>1, <1>3, <1>4, <1>5 DEF LinksInv, LinksTyped, OneRoutePerUser

\* A sync that reads its list, and one that ends without writing.
LEMMA SyncStepKeeps ==
  ASSUME LinksInv, NEW c \in SyncCalls, NEW s \in Sync, syncing' = [syncing EXCEPT ![c] = s],
         s.current => s.user \in Owners /\ s.seen = github[s.user],
         UNCHANGED <<github, record, linking, tracked, synced>>
  PROVE  LinksInv'
  <1>1. syncing' \in [SyncCalls -> Sync]  BY DEF LinksInv, LinksTyped
  <1>2. \A d \in SyncCalls : syncing'[d] = IF d = c THEN s ELSE syncing[d]
    BY DEF LinksInv, LinksTyped
  <1>3. SnapshotsTrue'  BY <1>2 DEF LinksInv, LinksTyped, SnapshotsTrue, Routes
  <1> QED BY <1>1, <1>3 DEF LinksInv, LinksTyped, OneRoutePerUser

LEMMA ListKeeps ==
  ASSUME LinksInv, NEW c \in SyncCalls, NEW u \in Owners, SyncList(c, u)
  PROVE  LinksInv'
  <1>1. PICK s : s = [user |-> u, seen |-> github[u], current |-> TRUE]  OBVIOUS
  <1>2. github[u] \in Seen  BY DEF LinksInv, LinksTyped
  <1>3. s \in Sync /\ s.user = u /\ s.seen = github[u]  BY <1>1, <1>2 DEF Sync
  <1>4. syncing' = [syncing EXCEPT ![c] = s]
        /\ UNCHANGED <<github, record, linking, tracked, synced>>
    BY <1>1 DEF SyncList
  <1> QED BY <1>3, <1>4, SyncStepKeeps

LEMMA FailureKeeps ==
  ASSUME LinksInv, NEW c \in SyncCalls, SyncFails(c)
  PROVE  LinksInv'
  <1>1. NoSync \in Sync /\ ~NoSync.current  BY DEF NoSync, Sync, Seen
  <1>2. syncing' = [syncing EXCEPT ![c] = NoSync]
        /\ UNCHANGED <<github, record, linking, tracked, synced>>
    BY DEF SyncFails
  <1> QED BY <1>1, <1>2, SyncStepKeeps

LEMMA SyncKeeps ==
  ASSUME LinksInv, NEW c \in SyncCalls, SyncInstallations(c)
  PROVE  LinksInv'
  <1>a. PICK u \in Owners : u = syncing[c].user
    BY DEF SyncInstallations, LinksInv, LinksTyped, Sync
  <1>b. PICK seen \in Seen : seen = syncing[c].seen
    BY DEF LinksInv, LinksTyped, Sync
  <1>c. record[u] \in Installed  BY DEF LinksInv, LinksTyped
  <1>d. /\ Listed(seen, record[u]) \in Installed
        /\ Listed(seen, record[u]).known /\ ~Listed(seen, record[u]).revoked <=> seen.installed
    BY ONLY <1>c, seen \in Seen DEF Seen, Installed, Listed
  <1>1. PICK new : /\ record' = [record EXCEPT ![u] = new]
                   /\ new \in Installed
                   /\ new.known /\ ~new.revoked <=> seen.installed
    BY <1>a, <1>b, <1>d DEF SyncInstallations, WriteRow
  <1>2. record' \in [Owners -> Installed]  BY <1>1 DEF LinksInv, LinksTyped
  <1>3. \A v \in Owners : record'[v] = IF v = u THEN new ELSE record[v]
    BY <1>1 DEF LinksInv, LinksTyped
  <1>4. /\ syncing' = [syncing EXCEPT ![c] = NoSync]
        /\ UNCHANGED <<github, linking, tracked>>
        /\ synced' \subseteq synced \cup {u}
        /\ u \in synced' => syncing[c].current
    BY <1>a DEF SyncInstallations, WriteRow
  <1>5. NoSync \in Sync /\ ~NoSync.current  BY DEF NoSync, Sync, Seen
  <1>6. /\ syncing' \in [SyncCalls -> Sync]
        /\ \A d \in SyncCalls : syncing'[d] = IF d = c THEN NoSync ELSE syncing[d]
    BY <1>4, <1>5 DEF LinksInv, LinksTyped
  <1>7. u \in synced' => (new.known /\ ~new.revoked <=> github[u].installed)
    BY <1>a, <1>b, <1>1, <1>4 DEF LinksInv, SnapshotsTrue
  <1>8. SnapshotsTrue'
    <2>1. \A d \in SyncCalls : (syncing[d].current =>
            syncing[d].user \in Owners /\ syncing[d].seen = github[syncing[d].user])'
      BY <1>4, <1>5, <1>6 DEF LinksInv, SnapshotsTrue
    <2>2. \A v \in synced' : Routes(v)' <=> github'[v].installed
      BY <1>3, <1>4, <1>7 DEF LinksInv, LinksTyped, SnapshotsTrue, Routes
    <2> QED BY <2>1, <2>2 DEF SnapshotsTrue
  <1> QED BY <1>2, <1>4, <1>6, <1>8 DEF LinksInv, LinksTyped, OneRoutePerUser

\* What moves a link keeps the routes apart: the write is refused when another
\* project of the user has the branch.
LEMMA RouteKeeps ==
  ASSUME LinksInv, NEW p \in Projects, NEW b \in Branches \cup {None, Tracked}, ~Conflict(p, b),
         tracked' = [tracked EXCEPT ![p] = b]
  PROVE  OneRoutePerUser' /\ tracked' \in Tracks
  BY DEF LinksInv, LinksTyped, OneRoutePerUser, Conflict, Tracks

LEMMA LinkKeeps ==
  ASSUME LinksInv, NEW p \in Projects,
         LinkRepository(p) \/ \E b \in Branches : LinkCheck(p, b)
  PROVE  LinksInv'
  <1>1. UNCHANGED <<github, record, syncing, synced>>  BY DEF LinkRepository, LinkCheck
  <1>2. SnapshotsTrue'  BY <1>1 DEF SnapshotsTrue, Routes, LinksInv
  <1>3. linking' \in Tracks
    BY DEF LinksInv, LinksTyped, LinkRepository, LinkCheck, Tracks
  <1>4. OneRoutePerUser' /\ tracked' \in Tracks
    <2>1. CASE tracked' = tracked
      BY <2>1 DEF LinksInv, LinksTyped, OneRoutePerUser
    <2>2. CASE tracked' # tracked
      <3>1. ~Conflict(p, linking[p]) /\ tracked' = [tracked EXCEPT ![p] = linking[p]]
        BY <2>2 DEF LinkRepository, LinkCheck
      <3>2. linking[p] \in Branches \cup {None, Tracked}  BY DEF LinksInv, LinksTyped, Tracks
      <3> QED BY <3>1, <3>2, RouteKeeps
    <2> QED BY <2>1, <2>2
  <1> QED BY <1>1, <1>2, <1>3, <1>4 DEF LinksInv, LinksTyped

LEMMA RelinkKeeps == LinksInv /\ Relink => LinksInv'
  <1> SUFFICES ASSUME LinksInv, Relink PROVE LinksInv'
    OBVIOUS
  <1>1. PICK p \in Projects, b \in Branches :
          ~Conflict(p, b) /\ tracked' = [tracked EXCEPT ![p] = b]
    BY DEF Relink
  <1>2. UNCHANGED <<github, record, syncing, linking, synced>>  BY DEF Relink
  <1>3. OneRoutePerUser' /\ tracked' \in Tracks  BY <1>1, RouteKeeps
  <1>4. SnapshotsTrue'  BY <1>2 DEF SnapshotsTrue, Routes, LinksInv
  <1> QED BY <1>2, <1>3, <1>4 DEF LinksInv, LinksTyped

LEMMA LinksFrame == LinksInv /\ UNCHANGED linkVars => LinksInv'
  BY DEF LinksInv, LinksTyped, SnapshotsTrue, Routes, OneRoutePerUser, linkVars

LEMMA LinksAgree == LinksInv => SyncedRoutes
  BY DEF LinksInv, LinksTyped, SnapshotsTrue, Routes, SyncedRoutes, LookupWebhookRoute, Installed,
         Seen

-----------------------------------------------------------------------------
Row == [pr : PRs, status : PreviewStatuses \cup {"destroyed"}, stale : BOOLEAN,
        reason : {"", "request", "stale_preview_auto_cleanup"}]
CreationPcs == {"idle", "checked", "revised", "deployed"}
Creating(c) == creating[c].pc # "idle"

PreviewsTyped ==
    /\ previews \in Seq(Row)
    /\ creating \in [Creations -> [pc : CreationPcs, pr : PRs \cup {FirstPR}]]
    /\ \A c \in Creations : Creating(c) => creating[c].pr \in PRs

\* A row that is not live has a reason, and of two rows of a pull request one has,
\* unless two creations ran at once.
ReasonsGiven ==
    /\ \A i \in DOMAIN previews : ~Live(i) => previews[i].reason # ""
    /\ \A i, j \in DOMAIN previews :
          i # j /\ previews[i].pr = previews[j].pr /\ previews[i].pr \notin crossed =>
             \E k \in DOMAIN previews :
                 previews[k].pr = previews[i].pr /\ previews[k].reason # ""

\* A creation that is under way alone found no row or one with a reason; two of a
\* pull request are known.
CreationsAlone ==
    /\ \A c \in Creations : Creating(c) /\ creating[c].pr \notin crossed =>
          \A i \in DOMAIN previews : previews[i].pr = creating[c].pr =>
             \E k \in DOMAIN previews :
                 previews[k].pr = creating[c].pr /\ previews[k].reason # ""
    /\ \A c, d \in Creations : c # d /\ Creating(c) /\ Creating(d) /\ creating[c].pr = creating[d].pr
          => creating[c].pr \in crossed

PreviewsInv == PreviewsTyped /\ ReasonsGiven /\ CreationsAlone

\* A step that changes no row's pull request and takes no reason away, and gives one
\* to every row that stops being live.
LEMMA RowsKept ==
  ASSUME PreviewsInv, previews' \in Seq(Row), UNCHANGED <<creating, crossed>>,
         Len(previews') = Len(previews),
         \A i \in DOMAIN previews :
             /\ previews'[i].pr = previews[i].pr
             /\ previews[i].reason # "" => previews'[i].reason # ""
             /\ Live(i)' \/ ~Live(i) \/ previews'[i].reason # ""
  PROVE  PreviewsInv'
  <1>1. DOMAIN previews' = DOMAIN previews  BY LenProperties DEF PreviewsInv, PreviewsTyped
  <1>2. PreviewsTyped'  BY DEF PreviewsInv, PreviewsTyped, Creating
  <1>3. \A i \in DOMAIN previews : previews'[i].status = "destroyed" => previews'[i].reason # ""
    BY DEF PreviewsInv, ReasonsGiven, Live
  <1>a. ASSUME NEW pr, NEW k \in DOMAIN previews, previews[k].pr = pr, previews[k].reason # ""
        PROVE  \E l \in DOMAIN previews : previews'[l].pr = pr /\ previews'[l].reason # ""
    BY <1>a
  <1>4. ASSUME NEW i \in DOMAIN previews, NEW j \in DOMAIN previews,
               i # j, previews'[i].pr = previews'[j].pr, previews'[i].pr \notin crossed
        PROVE  \E k \in DOMAIN previews : previews'[k].pr = previews'[i].pr /\ previews'[k].reason # ""
    <2>1. previews[i].pr = previews[j].pr /\ previews'[i].pr = previews[i].pr  BY <1>4
    <2>2. PICK k \in DOMAIN previews : previews[k].pr = previews[i].pr /\ previews[k].reason # ""
      BY <1>4, <2>1 DEF PreviewsInv, ReasonsGiven
    <2> QED BY <1>a, <2>1, <2>2
  <1>5. ReasonsGiven'  BY <1>1, <1>3, <1>4 DEF ReasonsGiven, Live
  <1>6. ASSUME NEW c \in Creations, Creating(c), creating[c].pr \notin crossed,
               NEW i \in DOMAIN previews, previews'[i].pr = creating[c].pr
        PROVE  \E k \in DOMAIN previews :
                   previews'[k].pr = creating[c].pr /\ previews'[k].reason # ""
    <2>1. previews[i].pr = creating[c].pr  BY <1>6
    <2>2. PICK k \in DOMAIN previews : previews[k].pr = creating[c].pr /\ previews[k].reason # ""
      BY <1>6, <2>1 DEF PreviewsInv, CreationsAlone
    <2> QED BY <1>a, <2>2
  <1>7. CreationsAlone'  BY <1>1, <1>6 DEF PreviewsInv, CreationsAlone, Creating
  <1> QED BY <1>2, <1>5, <1>7 DEF PreviewsInv

LEMMA RowWritten ==
  ASSUME PreviewsInv, NEW i \in DOMAIN previews, NEW new \in Row,
         previews' = [previews EXCEPT ![i] = new], UNCHANGED <<creating, crossed>>,
         new.pr = previews[i].pr, previews[i].reason # "" => new.reason # "",
         new.status # "destroyed" \/ new.reason # ""
  PROVE  PreviewsInv'
  <1>1. /\ previews' \in Seq(Row) /\ Len(previews') = Len(previews)
        /\ \A j \in DOMAIN previews : previews'[j] = IF j = i THEN new ELSE previews[j]
    <2>1. previews \in Seq(Row) /\ DOMAIN previews = 1..Len(previews)
      BY LenProperties DEF PreviewsInv, PreviewsTyped
    <2> QED BY <2>1, ExceptSeq
  <1>3. \A j \in DOMAIN previews :
             /\ previews'[j].pr = previews[j].pr
             /\ previews[j].reason # "" => previews'[j].reason # ""
             /\ Live(j)' \/ ~Live(j) \/ previews'[j].reason # ""
    BY <1>1 DEF Live
  <1> QED BY <1>1, <1>3, RowsKept

\* A creation whose checks succeed.
LEMMA CheckKeeps ==
  ASSUME PreviewsInv, NEW c \in Creations, NEW pr \in PRs, CreateCheck(c, pr)
  PROVE  PreviewsInv'
  <1>1. UNCHANGED previews /\ crossed \subseteq crossed'  BY DEF CreateCheck
  <1>2. creating' = [creating EXCEPT ![c] = [pc |-> "checked", pr |-> pr]]  BY DEF CreateCheck
  <1>3. /\ \A d \in Creations : d # c => creating'[d] = creating[d]
        /\ creating'[c].pc = "checked" /\ creating'[c].pr = pr
        /\ creating' \in [Creations -> [pc : CreationPcs, pr : PRs \cup {FirstPR}]]
    BY <1>2 DEF PreviewsInv, PreviewsTyped, CreationPcs
  <1>4. \A i \in DOMAIN previews : previews[i].pr = pr =>
           \E k \in DOMAIN previews : previews[k].pr = pr /\ previews[k].reason # ""
    <2>1. PICK i \in GetByPRNumber(pr) : IF i = 0 THEN TRUE ELSE ~Live(i)
      BY Zenon DEF CreateCheck
    <2>2. 0 \notin DOMAIN previews  BY LenProperties DEF PreviewsInv, PreviewsTyped
    <2>3. CASE Rows(pr) = {}  BY <2>3 DEF Rows
    <2>4. CASE Rows(pr) # {}
      <3>1. i \in DOMAIN previews /\ previews[i].pr = pr  BY <2>1, <2>4 DEF GetByPRNumber, Rows
      <3>2. ~Live(i)  BY <2>1, <2>2, <3>1
      <3> QED BY <3>1, <3>2 DEF PreviewsInv, ReasonsGiven
    <2> QED BY <2>3, <2>4
  <1>5. \A d \in Creations : d # c /\ Creating(d) /\ creating[d].pr = pr => pr \in crossed'
    BY DEF CreateCheck, Creating
  <1>6. PreviewsTyped'  BY <1>1, <1>3 DEF PreviewsInv, PreviewsTyped, Creating
  <1>7. ReasonsGiven'  BY <1>1 DEF PreviewsInv, ReasonsGiven, Live
  <1>8. CreationsAlone'
    <2>1. ASSUME NEW d \in Creations, Creating(d)', creating'[d].pr \notin crossed',
                 NEW i \in DOMAIN previews, previews[i].pr = creating'[d].pr
          PROVE  \E k \in DOMAIN previews :
                     previews[k].pr = creating'[d].pr /\ previews[k].reason # ""
      <3>1. CASE d = c  BY <1>3, <1>4, <2>1, <3>1
      <3>2. CASE d # c
        <4>1. Creating(d) /\ creating[d].pr \notin crossed /\ creating'[d] = creating[d]
          BY <1>1, <1>3, <2>1, <3>2 DEF Creating
        <4> QED BY <2>1, <4>1 DEF PreviewsInv, CreationsAlone
      <3> QED BY <3>1, <3>2
    <2>2. ASSUME NEW d \in Creations, NEW e \in Creations, d # e, Creating(d)', Creating(e)',
                 creating'[d].pr = creating'[e].pr
          PROVE  creating'[d].pr \in crossed'
      <3>1. CASE d = c  BY <1>3, <1>5, <2>2, <3>1 DEF Creating
      <3>2. CASE e = c  BY <1>3, <1>5, <2>2, <3>2 DEF Creating
      <3>3. CASE d # c /\ e # c
        BY <1>1, <1>3, <2>2, <3>3 DEF PreviewsInv, CreationsAlone, Creating
      <3> QED BY <3>1, <3>2, <3>3
    <2> QED BY <1>1, <2>1, <2>2 DEF CreationsAlone
  <1> QED BY <1>6, <1>7, <1>8 DEF PreviewsInv

\* A creation that goes a step further, or ends without a row.
LEMMA CreationStepKeeps ==
  ASSUME PreviewsInv, NEW c \in Creations, Creating(c), NEW to \in CreationPcs,
         creating' = [creating EXCEPT ![c].pc = to], UNCHANGED <<previews, crossed>>
  PROVE  PreviewsInv'
  <1>1. /\ \A d \in Creations : d # c => creating'[d] = creating[d]
        /\ creating'[c].pr = creating[c].pr
        /\ creating' \in [Creations -> [pc : CreationPcs, pr : PRs \cup {FirstPR}]]
    BY DEF PreviewsInv, PreviewsTyped
  <1>2. \A d \in Creations : creating'[d].pr = creating[d].pr /\ (Creating(d)' => Creating(d))
    BY <1>1 DEF Creating
  <1>3. PreviewsTyped'  BY <1>1, <1>2 DEF PreviewsInv, PreviewsTyped
  <1>4. ReasonsGiven'  BY DEF PreviewsInv, ReasonsGiven, Live
  <1>a. UNCHANGED previews /\ UNCHANGED crossed  OBVIOUS
  <1>5. CreationsAlone'
    <2>1. ASSUME NEW d \in Creations, Creating(d)', creating'[d].pr \notin crossed,
                 NEW i \in DOMAIN previews, previews[i].pr = creating'[d].pr
          PROVE  \E k \in DOMAIN previews :
                     previews[k].pr = creating'[d].pr /\ previews[k].reason # ""
      BY <1>2, <2>1 DEF PreviewsInv, CreationsAlone
    <2>2. ASSUME NEW d \in Creations, NEW e \in Creations, d # e, Creating(d)', Creating(e)',
                 creating'[d].pr = creating'[e].pr
          PROVE  creating'[d].pr \in crossed
      BY <1>2, <2>2 DEF PreviewsInv, CreationsAlone
    <2> QED BY <1>a, <2>1, <2>2 DEF CreationsAlone
  <1> QED BY <1>3, <1>4, <1>5 DEF PreviewsInv

LEMMA CreateKeeps ==
  ASSUME PreviewsInv, NEW c \in Creations, CreateFromPR(c)
  PROVE  PreviewsInv'
  <1>a. PICK pr \in PRs : pr = creating[c].pr
    BY DEF CreateFromPR, PreviewsInv, PreviewsTyped, Creating
  <1>1. PICK new : /\ previews' = Append(previews, new)
                   /\ new = [pr |-> pr, status |-> "provisioning",
                             stale |-> FALSE, reason |-> ""]
    BY <1>a, Zenon DEF CreateFromPR
  <1>b. new \in Row /\ new.pr = pr /\ new.status # "destroyed"
    BY <1>1 DEF Row, PreviewStatuses
  <1>c. previews \in Seq(Row)  BY DEF PreviewsInv, PreviewsTyped
  <1>d. previews' = Append(previews, new)  BY <1>1
  <1>2. previews' \in Seq(Row)  BY <1>c, <1>d, <1>b, AppendProperties
  <1>3. DOMAIN previews' = DOMAIN previews \cup {Len(previews) + 1}
        /\ previews'[Len(previews) + 1] = new
        /\ \A i \in DOMAIN previews : previews'[i] = previews[i]
        /\ Len(previews) + 1 \notin DOMAIN previews
    BY <1>b, <1>c, <1>d, <1>2, LenProperties, AppendProperties
  <1>4. /\ \A d \in Creations : d # c => creating'[d] = creating[d]
        /\ creating'[c].pc = "idle"
        /\ creating' \in [Creations -> [pc : CreationPcs, pr : PRs \cup {FirstPR}]]
        /\ crossed' = crossed
    BY DEF CreateFromPR, PreviewsInv, PreviewsTyped, CreationPcs
  <1>5. pr \notin crossed => \A i \in DOMAIN previews : previews[i].pr = pr =>
           \E k \in DOMAIN previews : previews[k].pr = pr /\ previews[k].reason # ""
    BY <1>a DEF CreateFromPR, PreviewsInv, CreationsAlone, Creating
  <1>6. PreviewsTyped'  BY <1>2, <1>4 DEF PreviewsInv, PreviewsTyped, Creating
  <1>7. ReasonsGiven'
    <2> HIDE DEF CreateFromPR
    <2> DEFINE m == Len(previews) + 1
    <2>1. \A i \in DOMAIN previews' : ~Live(i)' => previews'[i].reason # ""
      BY <1>b, <1>3 DEF PreviewsInv, ReasonsGiven, Live
    <2>2. ASSUME NEW i \in DOMAIN previews', NEW j \in DOMAIN previews',
                 i # j, previews'[i].pr = previews'[j].pr, previews'[i].pr \notin crossed
          PROVE  \E k \in DOMAIN previews' : previews'[k].pr = previews'[i].pr
                                            /\ previews'[k].reason # ""
      <3>1. CASE i \in DOMAIN previews /\ j \in DOMAIN previews
        BY <1>3, <2>2, <3>1 DEF PreviewsInv, ReasonsGiven
      <3>2. CASE i = m \/ j = m
        <4>1. previews'[i].pr = pr  BY <1>b, <1>3, <2>2, <3>2
        <4>2. \E l \in DOMAIN previews : previews[l].pr = pr
          BY <1>b, <1>3, <2>2, <3>2
        <4>3. PICK k \in DOMAIN previews : previews[k].pr = pr /\ previews[k].reason # ""
          BY <1>5, <2>2, <4>1, <4>2
        <4> QED BY <1>3, <4>1, <4>3
      <3> QED BY <1>3, <3>1, <3>2
    <2> QED BY <1>4, <2>1, <2>2 DEF ReasonsGiven
  <1>8. CreationsAlone'
    <2>1. ASSUME NEW d \in Creations, Creating(d)', creating'[d].pr \notin crossed,
                 NEW i \in DOMAIN previews', previews'[i].pr = creating'[d].pr
          PROVE  \E k \in DOMAIN previews' :
                     previews'[k].pr = creating'[d].pr /\ previews'[k].reason # ""
      <3>1. d # c /\ creating'[d] = creating[d] /\ Creating(d)  BY <1>4, <2>1 DEF Creating
      <3>2. creating[d].pr # pr
        BY <1>a, <2>1, <3>1 DEF CreateFromPR, PreviewsInv, CreationsAlone, Creating
      <3>3. i \in DOMAIN previews /\ previews[i].pr = creating[d].pr
        BY <1>b, <1>3, <2>1, <3>1, <3>2
      <3>4. PICK k \in DOMAIN previews : previews[k].pr = creating[d].pr /\ previews[k].reason # ""
        BY <2>1, <3>1, <3>3 DEF PreviewsInv, CreationsAlone
      <3> QED BY <1>3, <3>1, <3>4
    <2>2. ASSUME NEW d \in Creations, NEW e \in Creations, d # e, Creating(d)', Creating(e)',
                 creating'[d].pr = creating'[e].pr
          PROVE  creating'[d].pr \in crossed
      BY <1>4, <2>2 DEF PreviewsInv, CreationsAlone, Creating
    <2> QED BY <1>4, <2>1, <2>2 DEF CreationsAlone
  <1> QED BY <1>6, <1>7, <1>8 DEF PreviewsInv

LEMMA DestroyKeeps ==
  ASSUME PreviewsInv, NEW i \in DOMAIN previews, DestroyPreview(i)
  PROVE  PreviewsInv'
  <1>1. previews[i] \in Row  BY DEF PreviewsInv, PreviewsTyped
  <1>2. PICK new : /\ new = Destroyed(previews[i], "request")
                   /\ previews' = [previews EXCEPT ![i] = new] /\ UNCHANGED <<creating, crossed>>
    BY DEF DestroyPreview
  <1>3. new \in Row /\ new.pr = previews[i].pr /\ new.reason # ""
    BY ONLY <1>1, <1>2, new = Destroyed(previews[i], "request") DEF Destroyed, Row
  <1> QED BY <1>2, <1>3, RowWritten

LEMMA CleanupKeeps == PreviewsInv /\ CleanupStalePreviews => PreviewsInv'
  <1> SUFFICES ASSUME PreviewsInv, CleanupStalePreviews PROVE PreviewsInv'
    OBVIOUS
  <1> DEFINE new(i) == IF previews[i].stale /\ previews[i].status \notin {"destroyed", "failed"}
                       THEN Destroyed(previews[i], "stale_preview_auto_cleanup") ELSE previews[i]
  <1>1. previews' = [i \in DOMAIN previews |-> new(i)] /\ UNCHANGED <<creating, crossed>>
    BY DEF CleanupStalePreviews
  <1>2. \A i \in DOMAIN previews : previews[i] \in Row  BY DEF PreviewsInv, PreviewsTyped
  <1>3. \A i \in DOMAIN previews :
          /\ new(i) \in Row /\ new(i).pr = previews[i].pr
          /\ new(i) = previews[i] \/ new(i).reason # ""
    BY ONLY <1>2 DEF Destroyed, Row
  <1> HIDE DEF new
  <1>4. previews' \in Seq(Row) /\ Len(previews') = Len(previews)
    <2>1. DOMAIN previews = 1..Len(previews) /\ Len(previews) \in Nat
      BY LenProperties DEF PreviewsInv, PreviewsTyped
    <2>2. previews' \in [1..Len(previews) -> Row]  BY <1>1, <1>3, <2>1
    <2>3. previews' \in Seq(Row)  BY <2>1, <2>2, SeqDef
    <2> QED BY <2>1, <2>2, <2>3, LenProperties
  <1>5. \A i \in DOMAIN previews :
             /\ previews'[i].pr = previews[i].pr
             /\ previews[i].reason # "" => previews'[i].reason # ""
             /\ Live(i)' \/ ~Live(i) \/ previews'[i].reason # ""
    BY <1>1, <1>3 DEF Live
  <1> QED BY <1>1, <1>4, <1>5, RowsKept

LEMMA RowUpdateKeeps ==
  ASSUME PreviewsInv, NEW i \in DOMAIN previews,
         Age(i) \/ \E s \in PreviewStatuses : UpdatePreviewStatus(i, s)
  PROVE  PreviewsInv'
  <1>1. previews[i] \in Row  BY DEF PreviewsInv, PreviewsTyped
  <1>2. ~Live(i) => previews[i].reason # ""  BY DEF PreviewsInv, ReasonsGiven
  <1>3. CASE Age(i)
    <2>1. PICK new : /\ new = [previews[i] EXCEPT !.stale = TRUE]
                     /\ previews' = [previews EXCEPT ![i] = new] /\ UNCHANGED <<creating, crossed>>
      BY <1>3 DEF Age
    <2>2. new \in Row /\ new.pr = previews[i].pr /\ new.reason = previews[i].reason
          /\ new.status = previews[i].status
      BY <1>1, <2>1 DEF Row
    <2> QED BY <1>2, <2>1, <2>2, RowWritten DEF Live
  <1>4. ASSUME NEW s \in PreviewStatuses, UpdatePreviewStatus(i, s) PROVE PreviewsInv'
    <2>1. PICK new : /\ new = [previews[i] EXCEPT !.status = s]
                     /\ previews' = [previews EXCEPT ![i] = new] /\ UNCHANGED <<creating, crossed>>
      BY <1>4 DEF UpdatePreviewStatus
    <2>2. new \in Row /\ new.pr = previews[i].pr /\ new.reason = previews[i].reason
          /\ new.status # "destroyed"
      BY <1>1, <2>1 DEF Row, PreviewStatuses
    <2> QED BY <2>1, <2>2, RowWritten
  <1> QED BY <1>3, <1>4

LEMMA PreviewsKeep == PreviewsInv /\ PreviewsNext => PreviewsInv'
  <1> SUFFICES ASSUME PreviewsInv, PreviewsNext PROVE PreviewsInv'
    OBVIOUS
  <1>1. CASE SetPreviewing
    BY <1>1 DEF SetPreviewing, PreviewsInv, PreviewsTyped, ReasonsGiven, Live, CreationsAlone,
                Creating
  <1>2. CASE CleanupStalePreviews  BY <1>2, CleanupKeeps
  <1>3. ASSUME NEW c \in Creations, \E pr \in PRs : CreateCheck(c, pr) PROVE PreviewsInv'
    BY <1>3, CheckKeeps
  <1>6. ASSUME NEW c \in Creations,
               CreateRevision(c) \/ CreateDeployment(c) \/ CreationEnds(c)
        PROVE  PreviewsInv'
    <2>1. /\ Creating(c) /\ UNCHANGED <<previews, crossed>>
          /\ \E to \in CreationPcs : creating' = [creating EXCEPT ![c].pc = to]
      BY <1>6 DEF CreateRevision, CreateDeployment, CreationEnds, Creating, CreationPcs
    <2> QED BY <2>1, CreationStepKeeps
  <1>7. ASSUME NEW c \in Creations, CreateFromPR(c) PROVE PreviewsInv'  BY <1>7, CreateKeeps
  <1>4. ASSUME NEW pr \in PRs, DestroyPreviewByPR(pr) PROVE PreviewsInv'
    <2>1. PICK i \in DOMAIN previews : DestroyPreview(i)
      BY <1>4 DEF DestroyPreviewByPR, GetByPRNumber, Rows
    <2> QED BY <2>1, DestroyKeeps
  <1>5. ASSUME NEW i \in DOMAIN previews,
               DestroyPreview(i) \/ Age(i) \/ \E s \in PreviewStatuses : UpdatePreviewStatus(i, s)
        PROVE  PreviewsInv'
    BY <1>5, DestroyKeeps, RowUpdateKeeps
  <1> QED BY <1>1, <1>2, <1>3, <1>4, <1>5, <1>6, <1>7 DEF PreviewsNext

LEMMA PreviewsFrame == PreviewsInv /\ UNCHANGED previewVars => PreviewsInv'
  BY DEF PreviewsInv, PreviewsTyped, ReasonsGiven, Live, CreationsAlone, Creating, previewVars

LEMMA PreviewsAgree == PreviewsInv => SecondPreviewAfterDestroy
  <1> SUFFICES ASSUME PreviewsInv, NEW pr \in PRs \ crossed,
                      Cardinality({i \in Rows(pr) : Live(i)}) > 1
               PROVE  \E i \in Rows(pr) : previews[i].reason # ""
    BY DEF SecondPreviewAfterDestroy
  <1> DEFINE L == {i \in Rows(pr) : Live(i)}
  <1>1. L # {}  BY FS_EmptySet
  <1>2. PICK i \in L : TRUE  BY <1>1
  <1>3. L # {i}  BY FS_Singleton
  <1>4. PICK j \in L : j # i  BY <1>2, <1>3
  <1> QED BY <1>2, <1>4 DEF Rows, PreviewsInv, ReasonsGiven

(* For any number of owners, projects, syncs and pull requests: a push     *)
(* reaches at most one project of a user and only while the app is         *)
(* installed, as far as the sync that wrote last listed GitHub's present   *)
(* state; and the preview service leaves a pull request two live previews  *)
(* only after a destroy or two creations at once (LinkRepository,          *)
(* SyncInstallations, CreateFromPR).                                       *)
THEOREM EventsReachTheirs == MCSpec => []EventsRouted
  <1> DEFINE Inv == LinksInv /\ PreviewsInv
  <1>1. MCInit => Inv
    <2>1. MCInit => LinksInv  BY LinksStart DEF MCInit
    <2>2. MCInit => PreviewsInv
      BY EmptySeq DEF MCInit, PreviewsInit, PreviewsInv, PreviewsTyped, ReasonsGiven,
                      CreationsAlone, Creating, CreationPcs, NoCreation
    <2> QED BY <2>1, <2>2
  <1>2. Inv /\ [MCNext]_mcVars => Inv'
    <2> SUFFICES ASSUME Inv, [MCNext]_mcVars PROVE Inv'
      OBVIOUS
    <2>1. CASE Pipeline
      <3>1. PreviewsInv'  BY <2>1, PreviewsFrame DEF Pipeline
      <3>2. LinksInv'
        BY <2>1, LinksFrame, RelinkKeeps DEF Pipeline, BuildNext
      <3> QED BY <3>1, <3>2
    <2>2. CASE Links
      <3>1. PreviewsInv'  BY <2>2, PreviewsFrame DEF Links
      <3>2. LinksInv'
        BY <2>2, ChangeKeeps, ListKeeps, FailureKeeps, SyncKeeps, LinkKeeps
           DEF Links, LinksNext
      <3> QED BY <3>1, <3>2
    <2>3. CASE Ports
      BY <2>3, PreviewsFrame, LinksFrame DEF Ports, buildVars
    <2>4. CASE PullReqs
      BY <2>4, PreviewsKeep, LinksFrame DEF PullReqs, buildVars
    <2>5. CASE UNCHANGED mcVars
      BY <2>5, PreviewsFrame, LinksFrame DEF mcVars, buildVars
    <2> QED BY <2>1, <2>2, <2>3, <2>4, <2>5 DEF MCNext
  <1>3. Inv => EventsRouted
    BY LinksAgree, PreviewsAgree DEF EventsRouted, LinksInv
  <1> QED BY <1>1, <1>2, <1>3, PTL DEF MCSpec

-----------------------------------------------------------------------------
Callers  == 1..(MaxConcurrency + 1)
Commits  == (0..MaxPushes) \cup {PRCommit}
Statuses == {"queued", "running", "succeeded", "failed"}
Busy     == {"building", "calling", "failing"}
Written  == {"recorded", "revised"}

Job     == [project : Projects, delivery : Commits, input : Commits, commit : Nat,
            status : Statuses]
Request == {Idle} \cup [pc : {"routed", "enqueue"}, project : Projects, commit : Commits,
                        known : BOOLEAN]
Worker  == {Idle} \cup [pc : Busy \cup {"spawned"}, job : Nat]
Call    == {Idle} \cup [pc : Written \cup {"received", "checked"}, job : Nat, status : Settled,
                        commit : Nat]

PipeTyped ==
    /\ head \in 1..MaxPushes
    /\ jobs \in Seq(Job)
    /\ requests \in [Handlers -> Request]
    /\ work \in [Slots -> Worker]
    /\ calls \in [Callers -> Call]
    /\ deployed \in Seq(Seq(Nat)) /\ Len(deployed) = Len(jobs)

\* A delivery that was known has a job, and what is to be enqueued was not known.
KnownHasJob ==
    \A h \in Handlers :
        /\ requests[h].pc = "routed" /\ requests[h].known =>
              \E j \in JobIds : jobs[j].delivery = requests[h].commit
        /\ requests[h].pc = "enqueue" => ~requests[h].known

\* Who works on a job works on an existing one.  A slot calls for the job it builds,
\* and has a call exactly while it waits for one; a call nobody waits for is of a
\* job that was disturbed.
Attached ==
    /\ \A w \in Slots : work[w] # Idle => work[w].job \in JobIds
    /\ \A w \in Slots : work[w].pc = "calling" <=> calls[w] # Idle
    /\ \A w \in Slots : calls[w] # Idle => calls[w].job = work[w].job
    /\ \A c \in Callers : calls[c] # Idle => calls[c].job \in JobIds
    /\ calls[Abandoned] # Idle => calls[Abandoned].job \in disturbed

\* What a call reports of a delivery is the delivery's commit, and only a failed
\* build reports FallbackCommit.
CallsTrue ==
    /\ \A j \in JobIds : jobs[j].input = jobs[j].delivery
    /\ \A c \in Callers : calls[c] # Idle =>
          /\ jobs[calls[c].job].delivery # 0 => calls[c].commit = jobs[calls[c].job].delivery
          /\ calls[c].status = "succeeded" => calls[c].commit # FallbackCommit
          /\ calls[c].pc \in Written => calls[c].status = "succeeded"

\* The slots that build a job, and the statuses the job may have while one does.
Builders(j) == {w \in Slots : work[w].pc \in Busy /\ work[w].job = j}
StatusesAt(w) ==
    IF work[w].pc = "failing" THEN {"running", "succeeded"}
    ELSE IF calls[w].pc \in Written THEN {"succeeded"} ELSE {"running"}

\* A job nothing disturbed has one builder at a time; while it has one it is not
\* deployed, and its status follows from how far the builder is; when it has none,
\* it waits, or failed, or is deployed once.
BuiltOnce(j) ==
    /\ \A v, w \in Builders(j) : v = w
    /\ \A w \in Builders(j) : jobs[j].status \in StatusesAt(w) /\ deployed[j] = <<>>
    /\ Builders(j) = {} =>
          \/ jobs[j].status \in {"queued", "failed"} /\ deployed[j] = <<>>
          \/ jobs[j].status = "succeeded" /\ Len(deployed[j]) = 1

PipeInv ==
    /\ PipeTyped /\ KnownHasJob /\ Attached /\ CallsTrue
    /\ \A j \in JobIds \ disturbed : BuiltOnce(j)
    /\ DeploysDelivery

LEMMA PipeConstants ==
  /\ MaxConcurrency \in Nat \ {0} /\ MaxPushes \in Nat \ {0} /\ MaxJobs \in Nat
  /\ Callers = Slots \cup {Abandoned} /\ Abandoned \notin Slots
  /\ FallbackCommit \notin Commits /\ FallbackCommit \in Nat /\ Commits \subseteq Nat
  /\ Slots \subseteq Callers
  BY BuildAssumption DEF Callers, Slots, Abandoned, FallbackCommit, Commits, PRCommit

\* Idle is told from everything else by its pc.
LEMMA IdleByPc ==
  /\ \A x \in Worker : /\ x = Idle <=> x.pc = "idle"
                       /\ x # Idle => x.pc \in Busy \cup {"spawned"} /\ x.job \in Nat
  /\ \A x \in Call : /\ x = Idle <=> x.pc = "idle"
                     /\ x # Idle => /\ x.pc \in Written \cup {"received", "checked"}
                                    /\ x.job \in Nat /\ x.status \in Settled /\ x.commit \in Nat
  /\ \A x \in Request : /\ x = Idle <=> x.pc = "idle"
                        /\ x # Idle => /\ x.pc \in {"routed", "enqueue"}
                                       /\ x.project \in Projects /\ x.commit \in Commits
                                       /\ x.known \in BOOLEAN
  <1>1. \A x \in Worker : /\ x = Idle <=> x.pc = "idle"
                          /\ x # Idle => x.pc \in Busy \cup {"spawned"} /\ x.job \in Nat
    BY DEF Worker, Idle, Busy
  <1>2. \A x \in Call : /\ x = Idle <=> x.pc = "idle"
                        /\ x # Idle => /\ x.pc \in Written \cup {"received", "checked"}
                                       /\ x.job \in Nat /\ x.status \in Settled /\ x.commit \in Nat
    BY DEF Call, Idle, Written
  <1>3. \A x \in Request : /\ x = Idle <=> x.pc = "idle"
                           /\ x # Idle => /\ x.pc \in {"routed", "enqueue"}
                                          /\ x.project \in Projects /\ x.commit \in Commits
                                          /\ x.known \in BOOLEAN
    BY DEF Request, Idle
  <1> QED BY <1>1, <1>2, <1>3

LEMMA PipeStart == PipeInit => PipeInv
  <1> SUFFICES ASSUME PipeInit PROVE PipeInv
    OBVIOUS
  <1>1. JobIds = {} /\ jobs = <<>> /\ deployed = <<>>  BY DEF PipeInit, JobIds
  <1>2. PipeTyped
    BY <1>1, PipeConstants, EmptySeq DEF PipeInit, PipeTyped, Request, Worker, Call, Callers
  <1>3. /\ \A h \in Handlers : requests[h] = Idle
        /\ \A w \in Slots : work[w] = Idle
        /\ \A c \in Callers : calls[c] = Idle
    BY DEF PipeInit, Callers
  <1>4. Idle.pc = "idle"  BY DEF Idle
  <1>5. KnownHasJob  BY <1>3, <1>4 DEF KnownHasJob
  <1>6. Attached  BY <1>3, <1>4, PipeConstants DEF Attached
  <1>7. CallsTrue  BY <1>1, <1>3 DEF CallsTrue
  <1> QED BY <1>1, <1>2, <1>5, <1>6, <1>7 DEF PipeInv, DeploysDelivery

-----------------------------------------------------------------------------
(* A step of one caller: the slot or abandoned call c works on job j.         *)

Moves(c, j) ==
    /\ requests' = requests
    /\ JobIds' = JobIds
    /\ \A k \in JobIds :
          /\ jobs'[k].delivery = jobs[k].delivery /\ jobs'[k].input = jobs[k].input
          /\ k # j => jobs'[k].status = jobs[k].status /\ deployed'[k] = deployed[k]
    /\ \A v \in Callers : v # c => calls'[v] = calls[v]
    /\ \A v \in Slots : v # c => work'[v] = work[v]

\* Where the step leaves c itself: what it calls is of j and true, and a slot
\* calls exactly when it has a call.
Holds(c, j) ==
    /\ c \in Slots => /\ work'[c] # Idle => work'[c].job = j
                      /\ work'[c].pc = "calling" <=> calls'[c] # Idle
    /\ c = Abandoned => j \in disturbed'
    /\ calls'[c] # Idle =>
          /\ calls'[c].job = j
          /\ jobs[j].delivery # 0 => calls'[c].commit = jobs[j].delivery
          /\ calls'[c].status = "succeeded" => calls'[c].commit # FallbackCommit
          /\ calls'[c].pc \in Written => calls'[c].status = "succeeded"

\* Where it leaves j, when c is the only one that built it.
Leaves(c, j) ==
    /\ \A v \in Builders(j) : v = c
    /\ IF work'[c].pc \in Busy
       THEN jobs'[j].status \in StatusesAt(c)' /\ deployed'[j] = <<>>
       ELSE \/ jobs'[j].status \in {"queued", "failed"} /\ deployed'[j] = <<>>
            \/ jobs'[j].status = "succeeded" /\ Len(deployed'[j]) = 1

\* A job of which nothing changed.
LEMMA OtherJob ==
  ASSUME NEW k, BuiltOnce(k),
         jobs'[k].status = jobs[k].status, deployed'[k] = deployed[k],
         \A w \in Slots :
             \/ work'[w] = work[w] /\ calls'[w] = calls[w]
             \/ w \notin Builders(k) /\ ~(work'[w].pc \in Busy /\ work'[w].job = k)
  PROVE  BuiltOnce(k)'
  <1>1. Builders(k)' = Builders(k)  BY DEF Builders
  <1>2. \A w \in Builders(k) : StatusesAt(w)' = StatusesAt(w)
    BY <1>1 DEF Builders, StatusesAt
  <1>3. \A v, w \in Builders(k)' : v = w  BY <1>1 DEF BuiltOnce
  <1>4. \A w \in Builders(k)' : jobs'[k].status \in StatusesAt(w)' /\ deployed'[k] = <<>>
    BY <1>1, <1>2 DEF BuiltOnce
  <1>5. Builders(k)' = {} =>
          \/ jobs'[k].status \in {"queued", "failed"} /\ deployed'[k] = <<>>
          \/ jobs'[k].status = "succeeded" /\ Len(deployed'[k]) = 1
    BY <1>1 DEF BuiltOnce
  <1> QED BY <1>3, <1>4, <1>5 DEF BuiltOnce

LEMMA OwnJob ==
  ASSUME NEW c \in Slots, NEW j, Leaves(c, j), work'[c] # Idle => work'[c].job = j,
         work'[c] \in Worker, \A v \in Slots : v # c => work'[v] = work[v]
  PROVE  BuiltOnce(j)'
  <1>1. \A v \in Builders(j)' : v = c  BY DEF Leaves, Builders
  <1>2. CASE work'[c].pc \in Busy
    <2>1. jobs'[j].status \in StatusesAt(c)' /\ deployed'[j] = <<>>  BY <1>2 DEF Leaves
    <2>2. work'[c].job = j  BY <1>2, IdleByPc DEF Busy
    <2>3. c \in Builders(j)'  BY <1>2, <2>2 DEF Builders
    <2>4. \A v \in Builders(j)' : jobs'[j].status \in StatusesAt(v)' /\ deployed'[j] = <<>>
      BY <1>1, <2>1
    <2> QED BY <1>1, <2>3, <2>4 DEF BuiltOnce
  <1>3. CASE work'[c].pc \notin Busy
    <2>1. Builders(j)' = {}  BY <1>1, <1>3 DEF Builders
    <2>2. \/ jobs'[j].status \in {"queued", "failed"} /\ deployed'[j] = <<>>
          \/ jobs'[j].status = "succeeded" /\ Len(deployed'[j]) = 1
      BY <1>3 DEF Leaves
    <2> QED BY <2>1, <2>2 DEF BuiltOnce
  <1> QED BY <1>2, <1>3

LEMMA CallerStep ==
  ASSUME PipeInv, NEW c \in Callers, NEW j \in JobIds, PipeTyped', Moves(c, j), Holds(c, j),
         disturbed \subseteq disturbed', c \in Slots => work[c].job = j /\ work[c] # Idle,
         c \in Slots /\ j \notin disturbed' => Leaves(c, j),
         \A i \in DOMAIN deployed'[j] :
             /\ jobs[j].delivery # 0 => deployed'[j][i] = jobs[j].delivery
             /\ deployed'[j][i] # FallbackCommit
  PROVE  PipeInv'
  <1> USE PipeConstants
  <1>1. KnownHasJob'  BY DEF PipeInv, KnownHasJob, Moves
  <1>2. Attached'
    <2>1. \A w \in Slots : work'[w] # Idle => work'[w].job \in JobIds
      BY DEF PipeInv, Attached, Moves, Holds
    <2>2. \A w \in Slots : work'[w].pc = "calling" <=> calls'[w] # Idle
      BY DEF PipeInv, Attached, Moves, Holds
    <2>3. \A w \in Slots : calls'[w] # Idle => calls'[w].job = work'[w].job
      <3>1. Idle.pc = "idle"  BY DEF Idle
      <3> QED BY <3>1 DEF PipeInv, Attached, Moves, Holds
    <2>4. \A v \in Callers : calls'[v] # Idle => calls'[v].job \in JobIds
      BY DEF PipeInv, Attached, Moves, Holds
    <2>5. calls'[Abandoned] # Idle => calls'[Abandoned].job \in disturbed'
      BY DEF PipeInv, Attached, Moves, Holds
    <2>6. JobIds' = JobIds  BY DEF Moves
    <2> QED BY <2>1, <2>2, <2>3, <2>4, <2>5, <2>6 DEF Attached, Abandoned
  <1>3. CallsTrue'
    <2>1. \A k \in JobIds' : jobs'[k].input = jobs'[k].delivery
      BY DEF PipeInv, CallsTrue, Moves
    <2>2. ASSUME NEW v \in Callers, calls'[v] # Idle
          PROVE  /\ jobs'[calls'[v].job].delivery # 0
                      => calls'[v].commit = jobs'[calls'[v].job].delivery
                 /\ calls'[v].status = "succeeded" => calls'[v].commit # FallbackCommit
                 /\ calls'[v].pc \in Written => calls'[v].status = "succeeded"
      <3>1. CASE v = c  BY <2>2, <3>1 DEF Moves, Holds
      <3>2. CASE v # c
        <4>1. calls'[v] = calls[v] /\ calls[v].job \in JobIds
          BY <2>2, <3>2 DEF Moves, PipeInv, Attached
        <4> QED BY <2>2, <4>1 DEF Moves, PipeInv, CallsTrue
      <3> QED BY <3>1, <3>2
    <2> QED BY <2>1, <2>2 DEF CallsTrue
  <1>4. ASSUME NEW k \in JobIds' \ disturbed' PROVE BuiltOnce(k)'
    <2>1. k \in JobIds \ disturbed  BY DEF Moves
    <2>2. CASE k = j
      <3>1. CASE c \in Slots
        <4>1. work'[c] \in Worker  BY <3>1 DEF PipeTyped
        <4>2. \A v \in Slots : v # c => work'[v] = work[v]  BY DEF Moves
        <4>3. work'[c] # Idle => work'[c].job = j  BY <3>1 DEF Holds
        <4>4. Leaves(c, j)  BY <2>2, <3>1
        <4> QED BY <2>2, <3>1, <4>1, <4>2, <4>3, <4>4, OwnJob
      <3>2. CASE c \notin Slots  BY <2>2, <3>2 DEF Holds
      <3> QED BY <3>1, <3>2
    <2>3. CASE k # j
      <3>1. BuiltOnce(k)  BY <2>1 DEF PipeInv
      <3>2. jobs'[k].status = jobs[k].status /\ deployed'[k] = deployed[k]
        BY <2>1, <2>3 DEF Moves
      <3>3. ASSUME NEW w \in Slots
            PROVE  \/ work'[w] = work[w] /\ calls'[w] = calls[w]
                   \/ w \notin Builders(k) /\ ~(work'[w].pc \in Busy /\ work'[w].job = k)
        <4>1. CASE w # c  BY <4>1 DEF Moves
        <4>2. CASE w = c
          <5>1. w \notin Builders(k)  BY <2>3, <4>2 DEF Builders
          <5>2. work'[w].pc \in Busy => work'[w].job = j
            BY <4>2 DEF Holds, Busy, Idle
          <5> QED BY <2>3, <5>1, <5>2
        <4> QED BY <4>1, <4>2
      <3> QED BY <3>1, <3>2, <3>3, OtherJob
    <2> QED BY <2>2, <2>3
  <1>5. DeploysDelivery'
    BY DEF Moves, PipeInv, DeploysDelivery, FallbackCommit
  <1> QED BY <1>1, <1>2, <1>3, <1>4, <1>5 DEF PipeInv

-----------------------------------------------------------------------------
(* What the parts of a caller's step write.                                   *)

LEMMA PhaseSet ==
  ASSUME PipeTyped, NEW w \in Slots, work[w] # Idle, NEW p \in Busy,
         work' = [work EXCEPT ![w].pc = p]
  PROVE  /\ work' \in [Slots -> Worker]
         /\ work'[w] # Idle /\ work'[w].pc = p /\ work'[w].job = work[w].job
         /\ \A v \in Slots : v # w => work'[v] = work[v]
  <1>1. PICK new : new = [work[w] EXCEPT !.pc = p] /\ work' = [work EXCEPT ![w] = new]
    OBVIOUS
  <1>2. work[w] \in [pc : Busy \cup {"spawned"}, job : Nat]  BY DEF PipeTyped, Worker
  <1>3. new \in [pc : Busy \cup {"spawned"}, job : Nat] /\ new.pc = p /\ new.job = work[w].job
    BY <1>1, <1>2
  <1>4. new \in Worker  BY <1>3 DEF Worker
  <1>5. new # Idle  BY <1>3 DEF Busy, Idle
  <1> QED BY <1>1, <1>3, <1>4, <1>5 DEF PipeTyped

LEMMA SlotFreed ==
  ASSUME PipeTyped, NEW w \in Slots, work' = [work EXCEPT ![w] = Idle]
  PROVE  /\ work' \in [Slots -> Worker] /\ work'[w] = Idle
         /\ \A v \in Slots : v # w => work'[v] = work[v]
  BY DEF PipeTyped, Worker

LEMMA CallSet ==
  ASSUME PipeTyped, NEW c \in Callers, calls[c] # Idle, NEW p \in Written \cup {"received", "checked"},
         calls' = [calls EXCEPT ![c].pc = p]
  PROVE  /\ calls' \in [Callers -> Call]
         /\ calls'[c] # Idle /\ calls'[c].pc = p /\ calls'[c].job = calls[c].job
         /\ calls'[c].status = calls[c].status /\ calls'[c].commit = calls[c].commit
         /\ \A v \in Callers : v # c => calls'[v] = calls[v]
  <1> DEFINE R == [pc : Written \cup {"received", "checked"}, job : Nat, status : Settled,
                   commit : Nat]
  <1>1. PICK new : new = [calls[c] EXCEPT !.pc = p] /\ calls' = [calls EXCEPT ![c] = new]
    OBVIOUS
  <1>2. calls[c] \in R  BY DEF PipeTyped, Call
  <1>3. /\ new \in R /\ new.pc = p /\ new.job = calls[c].job
        /\ new.status = calls[c].status /\ new.commit = calls[c].commit
    BY <1>1, <1>2
  <1>4. new \in Call  BY <1>3 DEF Call
  <1>5. new # Idle  BY <1>3 DEF Written, Idle
  <1> QED BY <1>1, <1>3, <1>4, <1>5 DEF PipeTyped

LEMMA CallEnded ==
  ASSUME PipeTyped, NEW c \in Callers, calls' = [calls EXCEPT ![c] = Idle]
  PROVE  /\ calls' \in [Callers -> Call] /\ calls'[c] = Idle
         /\ \A v \in Callers : v # c => calls'[v] = calls[v]
  BY DEF PipeTyped, Call

LEMMA JobWritten ==
  ASSUME PipeTyped, NEW j \in JobIds, jobs' = [jobs EXCEPT ![j] = jobs'[j]], jobs'[j] \in Job,
         jobs'[j].delivery = jobs[j].delivery, jobs'[j].input = jobs[j].input
  PROVE  /\ jobs' \in Seq(Job) /\ Len(jobs') = Len(jobs) /\ JobIds' = JobIds
         /\ \A k \in JobIds :
               /\ jobs'[k].delivery = jobs[k].delivery /\ jobs'[k].input = jobs[k].input
               /\ k # j => jobs'[k].status = jobs[k].status
  <1>1. jobs \in Seq(Job) /\ JobIds = 1..Len(jobs)  BY LenProperties DEF PipeTyped, JobIds
  <1>2. PICK new \in Job : new = jobs'[j]  OBVIOUS
  <1>3. jobs' = [jobs EXCEPT ![j] = new]  BY <1>2
  <1>4. /\ jobs' \in Seq(Job) /\ Len(jobs') = Len(jobs)
        /\ \A k \in JobIds : jobs'[k] = IF k = j THEN new ELSE jobs[k]
    BY <1>1, <1>3, ExceptSeq
  <1>5. JobIds' = JobIds  BY <1>1, <1>4, LenProperties DEF JobIds
  <1> QED BY <1>2, <1>4, <1>5

LEMMA StatusSet ==
  ASSUME PipeTyped, NEW j \in JobIds, NEW s \in Statuses, jobs' = [jobs EXCEPT ![j].status = s]
  PROVE  /\ jobs' \in Seq(Job) /\ Len(jobs') = Len(jobs) /\ JobIds' = JobIds
         /\ \A k \in JobIds :
               /\ jobs'[k].delivery = jobs[k].delivery /\ jobs'[k].input = jobs[k].input
               /\ k # j => jobs'[k].status = jobs[k].status
         /\ jobs'[j].status = s
  <1>1. jobs[j] \in Job  BY LenProperties, ElementOfSeq DEF PipeTyped, JobIds
  <1>2. PICK new : new = [jobs[j] EXCEPT !.status = s] /\ jobs' = [jobs EXCEPT ![j] = new]
    OBVIOUS
  <1>3. new \in Job /\ new.delivery = jobs[j].delivery /\ new.input = jobs[j].input /\ new.status = s
    BY <1>1, <1>2 DEF Job
  <1>4. jobs'[j] = new  BY <1>2 DEF JobIds
  <1>5. jobs' = [jobs EXCEPT ![j] = jobs'[j]]  BY <1>2, <1>4
  <1>6. PipeTyped /\ j \in JobIds  OBVIOUS
  <1> QED BY ONLY <1>3, <1>4, <1>5, <1>6, JobWritten

LEMMA ResultSet ==
  ASSUME PipeTyped, NEW j \in JobIds, NEW s \in Statuses, NEW n \in Nat,
         jobs' = [jobs EXCEPT ![j].status = s, ![j].commit = n]
  PROVE  /\ jobs' \in Seq(Job) /\ Len(jobs') = Len(jobs) /\ JobIds' = JobIds
         /\ \A k \in JobIds :
               /\ jobs'[k].delivery = jobs[k].delivery /\ jobs'[k].input = jobs[k].input
               /\ k # j => jobs'[k].status = jobs[k].status
         /\ jobs'[j].status = s
  <1>1. jobs \in Seq(Job) /\ jobs[j] \in Job
    BY LenProperties, ElementOfSeq DEF PipeTyped, JobIds
  <1>2. PICK mid : mid = [jobs[j] EXCEPT !.status = s]
    OBVIOUS
  <1>3. mid \in Job /\ mid.delivery = jobs[j].delivery /\ mid.input = jobs[j].input /\ mid.status = s
    BY <1>1, <1>2 DEF Job
  <1>4. PICK new : new = [mid EXCEPT !.commit = n]
    OBVIOUS
  <1>5. new \in Job /\ new.delivery = mid.delivery /\ new.input = mid.input /\ new.status = s
    BY <1>3, <1>4 DEF Job
  <1>6. [jobs EXCEPT ![j].status = s][j] = mid
    BY <1>1, <1>2 DEF JobIds
  <1>7. jobs' = [jobs EXCEPT ![j] = new]
    BY <1>1, <1>2, <1>4, <1>6 DEF JobIds
  <1>8. jobs'[j] = new  BY <1>7 DEF JobIds
  <1>9. jobs' = [jobs EXCEPT ![j] = jobs'[j]]  BY <1>7, <1>8
  <1>10. PipeTyped /\ j \in JobIds  OBVIOUS
  <1> QED BY ONLY <1>3, <1>5, <1>8, <1>9, <1>10, JobWritten

\* The job a call is of.
LEMMA CallIsOf ==
  ASSUME PipeInv, NEW c \in Callers, calls[c] # Idle
  PROVE  /\ calls[c].job \in JobIds /\ calls[c].commit \in Nat /\ calls[c].status \in Settled
         /\ c \in Slots => /\ work[c].pc = "calling" /\ work[c].job = calls[c].job
                           /\ work[c] # Idle
         /\ c \notin Slots => c = Abandoned /\ calls[c].job \in disturbed
         /\ jobs[calls[c].job].delivery # 0 => calls[c].commit = jobs[calls[c].job].delivery
         /\ calls[c].status = "succeeded" => calls[c].commit # FallbackCommit
         /\ calls[c].pc \in Written => calls[c].status = "succeeded"
  <1>1. calls[c] \in Call  BY DEF PipeInv, PipeTyped
  <1>2. Idle.pc = "idle"  BY DEF Idle
  <1> QED BY <1>1, <1>2, IdleByPc, PipeConstants DEF PipeInv, Attached, CallsTrue

\* The job a slot builds, when nothing disturbed it.
LEMMA Alone ==
  ASSUME PipeInv, NEW w \in Slots, work[w].pc \in Busy, work[w].job \notin disturbed
  PROVE  /\ work[w].job \in JobIds
         /\ \A v \in Builders(work[w].job) : v = w
         /\ jobs[work[w].job].status \in StatusesAt(w)
         /\ deployed[work[w].job] = <<>>
  <1>1. work[w] # Idle  BY DEF Busy, Idle
  <1>2. work[w].job \in JobIds  BY <1>1 DEF PipeInv, Attached
  <1>3. BuiltOnce(work[w].job)  BY <1>2 DEF PipeInv
  <1>4. w \in Builders(work[w].job)  BY DEF Builders
  <1> QED BY <1>2, <1>3, <1>4 DEF BuiltOnce

\* What was deployed for a job stays right when nothing is deployed.
LEMMA DeployedStays ==
  ASSUME PipeInv, NEW j \in JobIds, deployed' = deployed
  PROVE  \A i \in DOMAIN deployed'[j] :
             /\ jobs[j].delivery # 0 => deployed'[j][i] = jobs[j].delivery
             /\ deployed'[j][i] # FallbackCommit
  BY DEF PipeInv, DeploysDelivery

LEMMA AnswerSets ==
  ASSUME PipeInv, NEW c \in Callers, calls[c] # Idle, NEW ok \in BOOLEAN, Answer(c, ok)
  PROVE  /\ work' \in [Slots -> Worker]
         /\ \A v \in Slots : v # c => work'[v] = work[v]
         /\ c \in Slots => IF ok THEN work'[c] = Idle
                           ELSE work'[c].pc = "failing" /\ work'[c].job = work[c].job
  <1>1. PipeTyped  BY DEF PipeInv
  <1>2. CASE c = Abandoned
    BY <1>1, <1>2, PipeConstants DEF Answer, PipeTyped
  <1>3. CASE c # Abandoned
    <2>1. c \in Slots /\ work[c] # Idle  BY <1>3, PipeConstants, CallIsOf
    <2>2. CASE ok
      <3>1. work' = [work EXCEPT ![c] = Idle]  BY <1>3, <2>2 DEF Answer
      <3> QED BY <1>1, <2>1, <2>2, <3>1, SlotFreed
    <2>3. CASE ~ok
      <3>1. work' = [work EXCEPT ![c].pc = "failing"]  BY <1>3, <2>3 DEF Answer
      <3> QED BY <1>1, <2>1, <2>3, <3>1, PhaseSet DEF Busy
    <2> QED BY <2>2, <2>3
  <1> QED BY <1>2, <1>3

-----------------------------------------------------------------------------
(* The steps of a slot and of its call.                                       *)

LEMMA ClaimKeeps ==
  ASSUME PipeInv, NEW w \in Slots, Claim(w)
  PROVE  PipeInv'
  <1> DEFINE j == work[w].job
  <1> DEFINE s == IF jobs[j].status = "queued" THEN "running" ELSE jobs[j].status
  <1>1. /\ work[w].pc = "spawned" /\ work[w] # Idle /\ w \in Callers
        /\ UNCHANGED <<head, requests, calls, deployed>>
    BY PipeConstants DEF Claim, Idle
  <1>2. PipeTyped /\ j \in JobIds  BY <1>1 DEF PipeInv, Attached
  <1>3. s \in Statuses
    <2>1. jobs[j] \in Job  BY <1>2, LenProperties, ElementOfSeq DEF PipeTyped, JobIds
    <2>2. jobs[j].status \in Statuses  BY <2>1 DEF Job
    <2> QED BY <2>2 DEF Statuses
  <1>4. jobs' = [jobs EXCEPT ![j].status = s]  BY Zenon DEF Claim
  <1>5. work' = [work EXCEPT ![w].pc = "building"]  BY DEF Claim
  <1>6. disturbed' = disturbed \cup (IF jobs[j].status = "queued" THEN {} ELSE {j})
    BY Zenon DEF Claim
  <1> HIDE DEF j, s
  <1>7. /\ jobs' \in Seq(Job) /\ Len(jobs') = Len(jobs) /\ JobIds' = JobIds
        /\ \A k \in JobIds :
              /\ jobs'[k].delivery = jobs[k].delivery /\ jobs'[k].input = jobs[k].input
              /\ k # j => jobs'[k].status = jobs[k].status
        /\ jobs'[j].status = s
    BY <1>2, <1>3, <1>4, StatusSet
  <1>8. /\ work' \in [Slots -> Worker]
        /\ work'[w] # Idle /\ work'[w].pc = "building" /\ work'[w].job = j
        /\ \A v \in Slots : v # w => work'[v] = work[v]
    BY <1>1, <1>2, <1>5, PhaseSet DEF Busy, j
  <1>9. PipeTyped'  BY <1>1, <1>2, <1>7, <1>8 DEF PipeTyped
  <1>10. Moves(w, j)  BY <1>1, <1>7, <1>8 DEF Moves
  <1>11. calls'[w] = Idle  BY <1>1 DEF PipeInv, Attached
  <1>12. Holds(w, j)  BY <1>8, <1>11, PipeConstants DEF Holds
  <1>13. ASSUME j \notin disturbed' PROVE Leaves(w, j)
    <2>1. jobs[j].status = "queued" /\ j \notin disturbed /\ s = "running"
      BY <1>6, <1>13 DEF s
    <2>2. BuiltOnce(j)  BY <1>2, <2>1 DEF PipeInv
    <2>3. Builders(j) = {}  BY <2>1, <2>2 DEF BuiltOnce, StatusesAt
    <2>4. deployed[j] = <<>>  BY <2>1, <2>2, <2>3 DEF BuiltOnce
    <2>5. StatusesAt(w)' = {"running"}  BY <1>8, <1>11 DEF StatusesAt, Written, Idle
    <2> QED BY <1>1, <1>7, <1>8, <2>1, <2>3, <2>4, <2>5 DEF Leaves, Busy
  <1>14. work[w].job = j /\ disturbed \subseteq disturbed'  BY <1>6 DEF j
  <1> QED BY <1>1, <1>2, <1>9, <1>10, <1>12, <1>13, <1>14, DeployedStays, CallerStep

LEMMA BuildKeeps ==
  ASSUME PipeInv, NEW w \in Slots, buildAndPush(w)
  PROVE  PipeInv'
  <1> DEFINE j == work[w].job
  <1>1. /\ work[w].pc = "building" /\ work[w] # Idle /\ w \in Callers /\ calls[w] = Idle
        /\ UNCHANGED <<head, jobs, requests, deployed, disturbed>>
        /\ work' = [work EXCEPT ![w].pc = "calling"]
    BY PipeConstants DEF buildAndPush, Idle
  <1>2. PipeTyped /\ j \in JobIds  BY <1>1 DEF PipeInv, Attached
  <1>3. /\ jobs[j].input \in Commits /\ head \in 1..MaxPushes
        /\ jobs[j].input = jobs[j].delivery
    <2>1. jobs[j] \in Job  BY <1>2, LenProperties, ElementOfSeq DEF PipeTyped, JobIds
    <2>2. jobs[j].input \in Commits  BY <2>1 DEF Job
    <2> QED BY <1>2, <2>2 DEF PipeTyped, PipeInv, CallsTrue
  <1> DEFINE built  == IF jobs[j].input # 0 THEN jobs[j].input ELSE head
             failed == fallbackBuildCallbackCommit(j)
  <1>4. /\ built \in Nat /\ built # FallbackCommit
        /\ failed \in Nat
        /\ jobs[j].delivery # 0 => built = jobs[j].delivery /\ failed = jobs[j].delivery
    <2>1. PICK i \in Commits : i = jobs[j].input  BY <1>3
    <2>2. PICK b : b = IF i # 0 THEN i ELSE head  OBVIOUS
    <2>3. PICK f : f = IF i # 0 THEN i ELSE FallbackCommit  OBVIOUS
    <2>4. built = b /\ failed = f  BY <2>1, <2>2, <2>3 DEF fallbackBuildCallbackCommit
    <2>5. head \in Nat /\ head # FallbackCommit
      BY <1>3, PipeConstants DEF FallbackCommit
    <2>6. b \in Nat /\ b # FallbackCommit /\ f \in Nat /\ (i # 0 => b = i /\ f = i)
      BY <2>2, <2>3, <2>5, PipeConstants
    <2>7. i = jobs[j].delivery  BY <1>3, <2>1
    <2> QED BY <2>4, <2>6, <2>7
  <1>5. \/ calls' = [calls EXCEPT ![w] =
                [pc |-> "received", job |-> j, status |-> "succeeded", commit |-> built]]
        \/ calls' = [calls EXCEPT ![w] =
                [pc |-> "received", job |-> j, status |-> "failed", commit |-> failed]]
    BY Zenon DEF buildAndPush
  <1>6. j \in Nat  BY <1>2, LenProperties DEF PipeTyped, JobIds
  <1> HIDE DEF j, built, failed
  <1>7. PICK st \in Settled, n \in Nat :
          /\ calls' = [calls EXCEPT ![w] =
                [pc |-> "received", job |-> j, status |-> st, commit |-> n]]
          /\ jobs[j].delivery # 0 => n = jobs[j].delivery
          /\ st = "succeeded" => n # FallbackCommit
    BY <1>4, <1>5 DEF Settled
  <1> DEFINE call == [pc |-> "received", job |-> j, status |-> st, commit |-> n]
  <1>8. /\ call \in Call /\ call # Idle /\ call.pc = "received" /\ call.job = j /\ call.status = st
        /\ call.commit = n
    BY <1>6 DEF Call, Idle
  <1>9. calls' = [calls EXCEPT ![w] = call]  BY <1>7
  <1> HIDE DEF call
  <1>10. /\ calls' \in [Callers -> Call] /\ calls'[w] = call
         /\ \A v \in Callers : v # w => calls'[v] = calls[v]
    BY <1>1, <1>2, <1>8, <1>9 DEF PipeTyped
  <1>11. /\ work' \in [Slots -> Worker]
         /\ work'[w] # Idle /\ work'[w].pc = "calling" /\ work'[w].job = j
         /\ \A v \in Slots : v # w => work'[v] = work[v]
    BY <1>1, <1>2, PhaseSet DEF Busy, j
  <1>12. PipeTyped'  BY <1>1, <1>2, <1>10, <1>11 DEF PipeTyped
  <1>13. Moves(w, j)  BY <1>1, <1>10, <1>11 DEF Moves, JobIds
  <1>14. Holds(w, j)  BY <1>7, <1>8, <1>10, <1>11, PipeConstants DEF Holds, Written
  <1>15. ASSUME j \notin disturbed' PROVE Leaves(w, j)
    <2>1. (\A v \in Builders(j) : v = w) /\ jobs[j].status \in StatusesAt(w) /\ deployed[j] = <<>>
      BY <1>1, <1>15, Alone DEF Busy, j
    <2>2. StatusesAt(w) = {"running"}  BY <1>1 DEF StatusesAt, Written, Idle
    <2>3. StatusesAt(w)' = {"running"}  BY <1>8, <1>10, <1>11 DEF StatusesAt, Written
    <2> QED BY <1>1, <1>11, <2>1, <2>2, <2>3 DEF Leaves, Busy
  <1>16. work[w].job = j  BY DEF j
  <1> QED BY <1>1, <1>2, <1>12, <1>13, <1>14, <1>15, <1>16, DeployedStays, CallerStep

LEMMA FailKeeps ==
  ASSUME PipeInv, NEW w \in Slots, failJobWithArtifact(w)
  PROVE  PipeInv'
  <1> DEFINE j == work[w].job
  <1>1. /\ work[w].pc = "failing" /\ work[w] # Idle /\ w \in Callers
        /\ UNCHANGED <<head, requests, calls, deployed, disturbed>>
        /\ work' = [work EXCEPT ![w] = Idle]
        /\ jobs' = [jobs EXCEPT ![j].status = "failed"]
    BY PipeConstants DEF failJobWithArtifact, Idle
  <1>2. PipeTyped /\ j \in JobIds  BY <1>1 DEF PipeInv, Attached
  <1>3. work[w].job = j  OBVIOUS
  <1> HIDE DEF j
  <1>4. /\ jobs' \in Seq(Job) /\ Len(jobs') = Len(jobs) /\ JobIds' = JobIds
        /\ \A k \in JobIds :
              /\ jobs'[k].delivery = jobs[k].delivery /\ jobs'[k].input = jobs[k].input
              /\ k # j => jobs'[k].status = jobs[k].status
        /\ jobs'[j].status = "failed"
    BY <1>1, <1>2, StatusSet DEF Statuses
  <1>5. /\ work' \in [Slots -> Worker] /\ work'[w] = Idle
        /\ \A v \in Slots : v # w => work'[v] = work[v]
    BY <1>1, <1>2, SlotFreed
  <1>6. PipeTyped'  BY <1>1, <1>2, <1>4, <1>5 DEF PipeTyped
  <1>7. Moves(w, j)  BY <1>1, <1>4, <1>5 DEF Moves
  <1>8. calls'[w] = Idle  BY <1>1 DEF PipeInv, Attached
  <1>9. Holds(w, j)  BY <1>5, <1>8, PipeConstants DEF Holds, Idle
  <1>10. ASSUME j \notin disturbed' PROVE Leaves(w, j)
    <2>1. (\A v \in Builders(j) : v = w) /\ deployed[j] = <<>>
      BY <1>1, <1>3, <1>10, Alone DEF Busy
    <2> QED BY <1>1, <1>4, <1>5, <2>1 DEF Leaves, Busy, Idle
  <1> QED BY <1>1, <1>2, <1>3, <1>6, <1>7, <1>9, <1>10, DeployedStays, CallerStep

\* A call that ends with an error: the slot goes on to fail the job.
LEMMA RejectKeeps ==
  ASSUME PipeInv, NEW c \in Callers, calls[c] # Idle, calls' = [calls EXCEPT ![c] = Idle],
         Answer(c, FALSE), UNCHANGED <<head, jobs, requests, deployed, disturbed>>
  PROVE  PipeInv'
  <1> DEFINE j == calls[c].job
  <1>1. PipeTyped /\ j \in JobIds  BY CallIsOf DEF PipeInv
  <1>2. /\ calls' \in [Callers -> Call] /\ calls'[c] = Idle
        /\ \A v \in Callers : v # c => calls'[v] = calls[v]
    BY <1>1, CallEnded
  <1>3. /\ work' \in [Slots -> Worker]
        /\ \A v \in Slots : v # c => work'[v] = work[v]
        /\ c \in Slots => work'[c].pc = "failing" /\ work'[c].job = work[c].job
    BY AnswerSets
  <1>4. /\ c \in Slots => work[c].pc = "calling" /\ work[c].job = j /\ work[c] # Idle
        /\ c \notin Slots => c = Abandoned /\ j \in disturbed
    BY CallIsOf
  <1> HIDE DEF j
  <1>5. PipeTyped'  BY <1>1, <1>2, <1>3 DEF PipeTyped
  <1>6. Moves(c, j)  BY <1>2, <1>3 DEF Moves, JobIds
  <1>7. Holds(c, j)  BY <1>2, <1>3, <1>4, PipeConstants DEF Holds
  <1>8. ASSUME c \in Slots, j \notin disturbed' PROVE Leaves(c, j)
    <2>1. (\A v \in Builders(j) : v = c) /\ jobs[j].status \in StatusesAt(c) /\ deployed[j] = <<>>
      BY <1>4, <1>8, Alone DEF Busy
    <2>2. StatusesAt(c) \subseteq {"running", "succeeded"}  BY DEF StatusesAt
    <2>3. StatusesAt(c)' = {"running", "succeeded"}  BY <1>3, <1>8 DEF StatusesAt
    <2> QED BY <1>3, <1>8, <2>1, <2>2, <2>3 DEF Leaves, Busy
  <1> QED BY <1>1, <1>4, <1>5, <1>6, <1>7, <1>8, DeployedStays, CallerStep

LEMMA HandleKeeps ==
  ASSUME PipeInv, NEW c \in Callers, Handle(c)
  PROVE  PipeInv'
  <1> DEFINE j == calls[c].job
  <1>1. /\ calls[c].pc = "received" /\ calls[c] # Idle
        /\ UNCHANGED <<head, jobs, requests, deployed, disturbed>>
    BY DEF Handle, Idle
  <1>2. CASE calls' = [calls EXCEPT ![c].pc = "checked"] /\ UNCHANGED work
    <2>1. /\ PipeTyped /\ j \in JobIds
          /\ jobs[j].delivery # 0 => calls[c].commit = jobs[j].delivery
          /\ calls[c].status = "succeeded" => calls[c].commit # FallbackCommit
          /\ c \in Slots => work[c].pc = "calling" /\ work[c].job = j /\ work[c] # Idle
          /\ c \notin Slots => c = Abandoned /\ j \in disturbed
      BY <1>1, CallIsOf DEF PipeInv
    <2>2. /\ calls' \in [Callers -> Call]
          /\ calls'[c] # Idle /\ calls'[c].pc = "checked" /\ calls'[c].job = j
          /\ calls'[c].status = calls[c].status /\ calls'[c].commit = calls[c].commit
          /\ \A v \in Callers : v # c => calls'[v] = calls[v]
      BY <1>1, <1>2, <2>1, CallSet
    <2> HIDE DEF j
    <2>3. PipeTyped'  BY <1>1, <1>2, <2>1, <2>2 DEF PipeTyped
    <2>4. Moves(c, j)  BY <1>1, <1>2, <2>2 DEF Moves, JobIds
    <2>5. Holds(c, j)  BY <1>1, <1>2, <2>1, <2>2, PipeConstants DEF Holds, Written
    <2>6. ASSUME c \in Slots, j \notin disturbed' PROVE Leaves(c, j)
      <3>1. (\A v \in Builders(j) : v = c) /\ jobs[j].status \in StatusesAt(c) /\ deployed[j] = <<>>
        BY <1>1, <2>1, <2>6, Alone DEF Busy
      <3>2. StatusesAt(c) = {"running"}  BY <1>1, <2>1, <2>6 DEF StatusesAt, Written
      <3>3. StatusesAt(c)' = {"running"}  BY <1>2, <2>1, <2>2, <2>6 DEF StatusesAt, Written
      <3> QED BY <1>1, <1>2, <2>1, <2>6, <3>1, <3>2, <3>3 DEF Leaves, Busy
    <2>7. disturbed \subseteq disturbed'  BY <1>1
    <2> QED BY <1>1, <2>1, <2>3, <2>4, <2>5, <2>6, <2>7, DeployedStays, CallerStep
  <1>3. CASE calls' = [calls EXCEPT ![c] = Idle] /\ Answer(c, FALSE)
    BY <1>1, <1>3, RejectKeeps
  <1> QED BY <1>2, <1>3, Zenon DEF Handle

\* A result is written and the call goes on or ends.
LEMMA UpdateKeeps ==
  ASSUME PipeInv, NEW c \in Callers, UpdateResult(c)
  PROVE  PipeInv'
  <1> DEFINE j == calls[c].job
             st == calls[c].status
             n == calls[c].commit
  <1>1. /\ calls[c].pc = "checked" /\ calls[c] # Idle
        /\ UNCHANGED <<head, requests, deployed, disturbed>>
    BY DEF UpdateResult, Idle
  <1>2. /\ PipeTyped /\ j \in JobIds /\ st \in Settled /\ n \in Nat
        /\ jobs[j].delivery # 0 => n = jobs[j].delivery
        /\ st = "succeeded" => n # FallbackCommit
        /\ c \in Slots => work[c].pc = "calling" /\ work[c].job = j /\ work[c] # Idle
        /\ c \notin Slots => c = Abandoned /\ j \in disturbed
    BY <1>1, CallIsOf DEF PipeInv
  <1>3. jobs' = [jobs EXCEPT ![j].status = st, ![j].commit = n]  BY Zenon DEF UpdateResult
  <1>4. \/ st = "succeeded" /\ calls' = [calls EXCEPT ![c].pc = "recorded"] /\ work' = work
        \/ st # "succeeded" /\ calls' = [calls EXCEPT ![c] = Idle] /\ Answer(c, TRUE)
    BY Zenon DEF UpdateResult
  <1>5. calls[c].status = st /\ calls[c].commit = n /\ calls[c].job = j  OBVIOUS
  <1> HIDE DEF j, st, n
  <1>6. /\ jobs' \in Seq(Job) /\ Len(jobs') = Len(jobs) /\ JobIds' = JobIds
        /\ \A k \in JobIds :
              /\ jobs'[k].delivery = jobs[k].delivery /\ jobs'[k].input = jobs[k].input
              /\ k # j => jobs'[k].status = jobs[k].status
        /\ jobs'[j].status = st
    <2>1. st \in Statuses  BY <1>2 DEF Settled, Statuses
    <2> QED BY <1>2, <1>3, <2>1, ResultSet
  <1>7. ASSUME c \in Slots, j \notin disturbed
        PROVE  (\A v \in Builders(j) : v = c) /\ deployed[j] = <<>>
    BY <1>2, <1>7, Alone DEF Busy
  <1>8. CASE st = "succeeded" /\ calls' = [calls EXCEPT ![c].pc = "recorded"] /\ work' = work
    <2>1. /\ calls' \in [Callers -> Call]
          /\ calls'[c] # Idle /\ calls'[c].pc = "recorded" /\ calls'[c].job = j
          /\ calls'[c].status = st /\ calls'[c].commit = n
          /\ \A v \in Callers : v # c => calls'[v] = calls[v]
      BY <1>1, <1>2, <1>5, <1>8, CallSet DEF Written
    <2>2. PipeTyped'  BY <1>1, <1>2, <1>6, <1>8, <2>1 DEF PipeTyped
    <2>3. Moves(c, j)  BY <1>1, <1>6, <1>8, <2>1 DEF Moves
    <2>4. Holds(c, j)  BY <1>1, <1>2, <1>8, <2>1, PipeConstants DEF Holds
    <2>5. ASSUME c \in Slots, j \notin disturbed' PROVE Leaves(c, j)
      <3>1. StatusesAt(c)' = {"succeeded"}
        BY <1>2, <1>8, <2>1, <2>5 DEF StatusesAt, Written
      <3> QED BY <1>1, <1>2, <1>6, <1>7, <1>8, <2>5, <3>1 DEF Leaves, Busy
    <2>6. disturbed \subseteq disturbed'  BY <1>1
    <2> QED BY <1>1, <1>2, <2>2, <2>3, <2>4, <2>5, <2>6, DeployedStays, CallerStep
  <1>9. CASE st # "succeeded" /\ calls' = [calls EXCEPT ![c] = Idle] /\ Answer(c, TRUE)
    <2>1. /\ calls' \in [Callers -> Call] /\ calls'[c] = Idle
          /\ \A v \in Callers : v # c => calls'[v] = calls[v]
      BY <1>2, <1>9, CallEnded
    <2>2. /\ work' \in [Slots -> Worker]
          /\ \A v \in Slots : v # c => work'[v] = work[v]
          /\ c \in Slots => work'[c] = Idle
      BY <1>1, <1>9, AnswerSets
    <2>3. PipeTyped'  BY <1>1, <1>2, <1>6, <2>1, <2>2 DEF PipeTyped
    <2>4. Moves(c, j)  BY <1>1, <1>6, <2>1, <2>2 DEF Moves
    <2>5. Holds(c, j)  BY <1>1, <1>2, <2>1, <2>2, PipeConstants DEF Holds, Idle
    <2>6. ASSUME c \in Slots, j \notin disturbed' PROVE Leaves(c, j)
      <3>1. st = "failed"  BY <1>2, <1>9 DEF Settled
      <3> QED BY <1>1, <1>6, <1>7, <2>2, <2>6, <3>1 DEF Leaves, Busy, Idle
    <2>7. disturbed \subseteq disturbed'  BY <1>1
    <2> QED BY <1>1, <1>2, <2>3, <2>4, <2>5, <2>6, <2>7, DeployedStays, CallerStep
  <1> QED BY <1>4, <1>8, <1>9

LEMMA RevisionKeeps ==
  ASSUME PipeInv, NEW c \in Callers, createArtifactReadyRevision(c)
  PROVE  PipeInv'
  <1> DEFINE j == calls[c].job
             n == calls[c].commit
  <1>1. /\ calls[c].pc = "recorded" /\ calls[c] # Idle
        /\ UNCHANGED <<head, requests, deployed, disturbed>>
    BY DEF createArtifactReadyRevision, Idle
  <1>2. /\ PipeTyped /\ j \in JobIds /\ n \in Nat
        /\ jobs[j].delivery # 0 => n = jobs[j].delivery
        /\ calls[c].status = "succeeded" /\ n # FallbackCommit
        /\ c \in Slots => work[c].pc = "calling" /\ work[c].job = j /\ work[c] # Idle
        /\ c \notin Slots => c = Abandoned /\ j \in disturbed
    BY <1>1, CallIsOf DEF PipeInv, Written
  <1>3. \/ /\ jobs' = [jobs EXCEPT ![j].status = "succeeded", ![j].commit = n]
           /\ calls' = [calls EXCEPT ![c].pc = "revised"] /\ work' = work
        \/ calls' = [calls EXCEPT ![c] = Idle] /\ Answer(c, FALSE) /\ jobs' = jobs
    BY Zenon DEF createArtifactReadyRevision
  <1>4. calls[c].commit = n /\ calls[c].job = j  OBVIOUS
  <1> HIDE DEF j, n
  <1>5. CASE /\ jobs' = [jobs EXCEPT ![j].status = "succeeded", ![j].commit = n]
             /\ calls' = [calls EXCEPT ![c].pc = "revised"] /\ work' = work
    <2>1. /\ jobs' \in Seq(Job) /\ Len(jobs') = Len(jobs) /\ JobIds' = JobIds
          /\ \A k \in JobIds :
                /\ jobs'[k].delivery = jobs[k].delivery /\ jobs'[k].input = jobs[k].input
                /\ k # j => jobs'[k].status = jobs[k].status
          /\ jobs'[j].status = "succeeded"
      BY <1>2, <1>5, ResultSet DEF Statuses
    <2>2. /\ calls' \in [Callers -> Call]
          /\ calls'[c] # Idle /\ calls'[c].pc = "revised" /\ calls'[c].job = j
          /\ calls'[c].status = "succeeded" /\ calls'[c].commit = n
          /\ \A v \in Callers : v # c => calls'[v] = calls[v]
      BY <1>1, <1>2, <1>4, <1>5, CallSet DEF Written
    <2>3. PipeTyped'  BY <1>1, <1>2, <1>5, <2>1, <2>2 DEF PipeTyped
    <2>4. Moves(c, j)  BY <1>1, <1>5, <2>1, <2>2 DEF Moves
    <2>5. Holds(c, j)  BY <1>1, <1>2, <1>5, <2>2, PipeConstants DEF Holds
    <2>6. ASSUME c \in Slots, j \notin disturbed' PROVE Leaves(c, j)
      <3>1. (\A v \in Builders(j) : v = c) /\ deployed[j] = <<>>
        BY <1>1, <1>2, <2>6, Alone DEF Busy
      <3>2. StatusesAt(c)' = {"succeeded"}
        BY <1>2, <1>5, <2>2, <2>6 DEF StatusesAt, Written
      <3> QED BY <1>1, <1>2, <1>5, <2>1, <2>6, <3>1, <3>2 DEF Leaves, Busy
    <2>7. disturbed \subseteq disturbed'  BY <1>1
    <2> QED BY <1>1, <1>2, <2>3, <2>4, <2>5, <2>6, <2>7, DeployedStays, CallerStep
  <1>6. CASE calls' = [calls EXCEPT ![c] = Idle] /\ Answer(c, FALSE) /\ jobs' = jobs
    BY <1>1, <1>6, RejectKeeps
  <1> QED BY <1>3, <1>5, <1>6

LEMMA DeployKeeps ==
  ASSUME PipeInv, NEW c \in Callers, createQueuedDeployment(c)
  PROVE  PipeInv'
  <1> DEFINE j == calls[c].job
             n == calls[c].commit
  <1>1. /\ calls[c].pc = "revised" /\ calls[c] # Idle
        /\ UNCHANGED <<head, jobs, requests, disturbed>>
        /\ calls' = [calls EXCEPT ![c] = Idle] /\ Answer(c, TRUE)
    <2>1. /\ calls[c].pc = "revised" /\ UNCHANGED <<head, jobs, requests, disturbed>>
          /\ calls' = [calls EXCEPT ![c] = Idle] /\ Answer(c, TRUE)
      BY Zenon DEF createQueuedDeployment
    <2>2. calls[c].pc = "revised"  BY <2>1
    <2>3. calls[c] # Idle  BY ONLY <2>2 DEF Idle
    <2> QED BY <2>1, <2>3
  <1>2. /\ PipeTyped /\ j \in JobIds /\ n \in Nat
        /\ jobs[j].delivery # 0 => n = jobs[j].delivery
        /\ n # FallbackCommit
        /\ c \in Slots => work[c].pc = "calling" /\ work[c].job = j /\ work[c] # Idle
        /\ c \notin Slots => c = Abandoned /\ j \in disturbed
    BY <1>1, CallIsOf DEF PipeInv, Written
  <1>3. deployed' = [deployed EXCEPT ![j] = Append(deployed[j], n)]
    BY Zenon DEF createQueuedDeployment
  <1>4. calls[c].commit = n /\ calls[c].job = j  OBVIOUS
  <1> HIDE DEF j, n
  <1>5. deployed \in Seq(Seq(Nat)) /\ JobIds = 1..Len(deployed)
    BY <1>2, LenProperties DEF PipeTyped, JobIds
  <1>6. deployed[j] \in Seq(Nat)  BY <1>2, <1>5, ElementOfSeq
  <1> DEFINE new == Append(deployed[j], n)
  <1>7. /\ new \in Seq(Nat) /\ Len(new) = Len(deployed[j]) + 1 /\ DOMAIN new = 1..Len(new)
        /\ \A i \in 1..Len(deployed[j]) : new[i] = deployed[j][i]
        /\ new[Len(deployed[j]) + 1] = n
    BY <1>2, <1>6, AppendProperties, LenProperties
  <1> HIDE DEF new
  <1>8. /\ deployed' \in Seq(Seq(Nat)) /\ Len(deployed') = Len(deployed)
        /\ \A k \in JobIds : deployed'[k] = IF k = j THEN new ELSE deployed[k]
    BY <1>2, <1>3, <1>5, <1>7, ExceptSeq DEF new
  <1>9. /\ calls' \in [Callers -> Call] /\ calls'[c] = Idle
        /\ \A v \in Callers : v # c => calls'[v] = calls[v]
    BY <1>1, <1>2, CallEnded
  <1>10. /\ work' \in [Slots -> Worker]
         /\ \A v \in Slots : v # c => work'[v] = work[v]
         /\ c \in Slots => work'[c] = Idle
    BY <1>1, AnswerSets
  <1>11. PipeTyped'  BY <1>1, <1>2, <1>8, <1>9, <1>10 DEF PipeTyped
  <1>12. Moves(c, j)  BY <1>1, <1>8, <1>9, <1>10 DEF Moves, JobIds
  <1>13. Holds(c, j)  BY <1>1, <1>2, <1>9, <1>10, PipeConstants DEF Holds, Idle
  <1>14. ASSUME c \in Slots, j \notin disturbed' PROVE Leaves(c, j)
    <2>1. /\ \A v \in Builders(j) : v = c
          /\ jobs[j].status \in StatusesAt(c) /\ deployed[j] = <<>>
      BY <1>1, <1>2, <1>14, Alone DEF Busy
    <2>2. StatusesAt(c) = {"succeeded"}  BY <1>1, <1>2, <1>14 DEF StatusesAt, Written
    <2>3. Len(deployed'[j]) = 1
      <3>1. Len(deployed[j]) = 0  BY <2>1, EmptySeq
      <3> QED BY <1>2, <1>7, <1>8, <3>1
    <2> QED BY <1>1, <1>10, <1>14, <2>1, <2>2, <2>3 DEF Leaves, Busy, Idle
  <1>15. \A i \in DOMAIN deployed'[j] :
             /\ jobs[j].delivery # 0 => deployed'[j][i] = jobs[j].delivery
             /\ deployed'[j][i] # FallbackCommit
    <2>1. \A i \in DOMAIN deployed[j] :
             /\ jobs[j].delivery # 0 => deployed[j][i] = jobs[j].delivery
             /\ deployed[j][i] # FallbackCommit
      BY <1>2 DEF PipeInv, DeploysDelivery
    <2>2. DOMAIN deployed[j] = 1..Len(deployed[j]) /\ Len(deployed[j]) \in Nat
      BY <1>6, LenProperties
    <2>3. deployed'[j] = new  BY <1>2, <1>8
    <2>4. ASSUME NEW i \in DOMAIN new
          PROVE  i \in 1..Len(deployed[j]) \/ i = Len(deployed[j]) + 1
      BY <1>7, <2>2
    <2> QED BY <1>2, <1>7, <2>1, <2>2, <2>3, <2>4
  <1>16. disturbed \subseteq disturbed'  BY <1>1
  <1> QED BY <1>2, <1>11, <1>12, <1>13, <1>14, <1>15, <1>16, CallerStep

-----------------------------------------------------------------------------
(* Faults change neither jobs nor what is deployed.                           *)

LEMMA FaultStep ==
  ASSUME PipeInv, UNCHANGED <<head, jobs, deployed>>, disturbed \subseteq disturbed',
         requests' \in [Handlers -> Request], work' \in [Slots -> Worker],
         calls' \in [Callers -> Call],
         \A h \in Handlers : requests'[h] \in {Idle, requests[h]},
         \A w \in Slots : work'[w] # Idle => work'[w].job = work[w].job /\ work[w] # Idle,
         \A w \in Slots : work'[w].pc = "calling" <=> calls'[w] # Idle,
         \A w \in Slots : calls'[w] \in {Idle, calls[w]},
         calls'[Abandoned] # Idle =>
             /\ \E c \in Callers : calls'[Abandoned] = calls[c]
             /\ calls'[Abandoned].job \in disturbed',
         \A w \in Slots :
             \/ work[w].job \in disturbed' /\ work[w] # Idle
             \/ work'[w] = work[w] /\ calls'[w] = calls[w]
  PROVE  PipeInv'
  <1> USE PipeConstants
  <1>a. JobIds' = JobIds /\ Idle.pc = "idle"  BY DEF JobIds, Idle
  <1>1. PipeTyped'  BY DEF PipeInv, PipeTyped
  <1>2. KnownHasJob'  BY <1>a DEF PipeInv, KnownHasJob
  <1>3. \A c \in Callers : calls'[c] # Idle => \E d \in Callers : calls'[c] = calls[d]
    OBVIOUS
  <1>4. Attached'
    <2>1. \A w \in Slots : work'[w] # Idle => work'[w].job \in JobIds
      BY DEF PipeInv, Attached
    <2>2. \A w \in Slots : calls'[w] # Idle => calls'[w].job = work'[w].job
      BY <1>a DEF PipeInv, Attached
    <2>3. \A c \in Callers : calls'[c] # Idle => calls'[c].job \in JobIds
      BY <1>3 DEF PipeInv, Attached
    <2> QED BY <1>a, <2>1, <2>2, <2>3 DEF Attached, Abandoned
  <1>5. CallsTrue'
    BY <1>3, <1>a DEF PipeInv, CallsTrue, FallbackCommit
  <1>6. ASSUME NEW k \in JobIds' \ disturbed' PROVE BuiltOnce(k)'
    <2>1. k \in JobIds \ disturbed  BY <1>a
    <2>2. BuiltOnce(k)  BY <2>1 DEF PipeInv
    <2>3. ASSUME NEW w \in Slots
          PROVE  \/ work'[w] = work[w] /\ calls'[w] = calls[w]
                 \/ w \notin Builders(k) /\ ~(work'[w].pc \in Busy /\ work'[w].job = k)
      BY <1>6, <1>a DEF Builders, Busy
    <2> QED BY <2>2, <2>3, OtherJob
  <1>7. DeploysDelivery'  BY <1>a DEF PipeInv, DeploysDelivery, FallbackCommit
  <1> QED BY <1>1, <1>2, <1>4, <1>5, <1>6, <1>7 DEF PipeInv

LEMMA CallFailsKeeps ==
  ASSUME PipeInv, NEW w \in Slots, CallFails(w)
  PROVE  PipeInv'
  <1> USE PipeConstants
  <1>1. /\ work[w].pc = "calling" /\ work[w] # Idle /\ w \in Callers /\ w # Abandoned
        /\ work' = [work EXCEPT ![w].pc = "failing"]
        /\ disturbed' = disturbed \cup {work[w].job}
        /\ UNCHANGED <<head, jobs, requests, deployed>>
    BY DEF CallFails, Idle
  <1>2. /\ work' \in [Slots -> Worker]
        /\ work'[w] # Idle /\ work'[w].pc = "failing" /\ work'[w].job = work[w].job
        /\ \A v \in Slots : v # w => work'[v] = work[v]
    BY <1>1, PhaseSet DEF Busy, PipeInv
  <1>3. calls \in [Callers -> Call] /\ requests \in [Handlers -> Request]
    BY DEF PipeInv, PipeTyped
  <1>4. \/ calls' = [calls EXCEPT ![w] = Idle]
        \/ calls[w] # Idle /\ calls' = [calls EXCEPT ![w] = Idle, ![Abandoned] = calls[w]]
    BY DEF CallFails
  <1>5. /\ calls' \in [Callers -> Call] /\ calls'[w] = Idle
        /\ \A v \in Slots : v # w => calls'[v] = calls[v]
        /\ \/ calls'[Abandoned] = calls[Abandoned]
           \/ calls[w] # Idle /\ calls'[Abandoned] = calls[w]
    BY <1>1, <1>3, <1>4 DEF Call
  <1>6. calls'[Abandoned] # Idle =>
             /\ \E c \in Callers : calls'[Abandoned] = calls[c]
             /\ calls'[Abandoned].job \in disturbed'
    <2>1. calls[w] # Idle => calls[w].job = work[w].job  BY DEF PipeInv, Attached
    <2>2. calls[Abandoned] # Idle => calls[Abandoned].job \in disturbed  BY DEF PipeInv, Attached
    <2> QED BY <1>1, <1>5, <2>1, <2>2
  <1>7. \A v \in Slots : work'[v].pc = "calling" <=> calls'[v] # Idle
    BY <1>2, <1>5 DEF PipeInv, Attached
  <1>8. /\ disturbed \subseteq disturbed' /\ requests' \in [Handlers -> Request]
        /\ \A h \in Handlers : requests'[h] \in {Idle, requests[h]}
        /\ \A v \in Slots : calls'[v] \in {Idle, calls[v]}
        /\ \A v \in Slots : work'[v] # Idle => work'[v].job = work[v].job /\ work[v] # Idle
        /\ \A v \in Slots :
             \/ work[v].job \in disturbed' /\ work[v] # Idle
             \/ work'[v] = work[v] /\ calls'[v] = calls[v]
    BY <1>1, <1>2, <1>3, <1>5
  <1> QED BY <1>1, <1>2, <1>5, <1>6, <1>7, <1>8, FaultStep

LEMMA WorkerCrashKeeps == PipeInv /\ WorkerCrash => PipeInv'
  <1> SUFFICES ASSUME PipeInv, WorkerCrash PROVE PipeInv'
    OBVIOUS
  <1> USE PipeConstants
  <1> DEFINE R == {w \in Slots : calls[w] # Idle}
  <1>1. /\ disturbed' = disturbed \cup {work[w].job : w \in {x \in Slots : work[x] # Idle}}
        /\ work' = [w \in Slots |-> Idle]
        /\ calls' = [c \in DOMAIN calls |->
             IF c = Abandoned /\ R # {} THEN calls[CHOOSE w \in R : TRUE]
             ELSE IF c = Abandoned THEN calls[c] ELSE Idle]
        /\ UNCHANGED <<head, jobs, requests, deployed>>
    BY DEF WorkerCrash
  <1>2. /\ calls \in [Callers -> Call] /\ requests \in [Handlers -> Request]
        /\ work \in [Slots -> Worker] /\ DOMAIN calls = Callers
    BY DEF PipeInv, PipeTyped
  <1>3. Idle \in Worker /\ Idle \in Call /\ Idle.pc = "idle"  BY DEF Worker, Call, Idle
  <1>4. PICK r : r = CHOOSE w \in R : TRUE  OBVIOUS
  <1>5. R # {} => r \in R  BY <1>4
  <1>6. /\ \A v \in Slots : calls'[v] = Idle /\ work'[v] = Idle
        /\ calls'[Abandoned] = IF R # {} THEN calls[r] ELSE calls[Abandoned]
    BY <1>1, <1>2, <1>4
  <1>7. calls' \in [Callers -> Call]
    <2>1. calls' = [c \in Callers |-> calls'[c]]  BY <1>1, <1>2
    <2>2. \A c \in Callers : calls'[c] \in Call  BY <1>2, <1>3, <1>5, <1>6
    <2> QED BY <2>1, <2>2
  <1>8. calls'[Abandoned] # Idle =>
             /\ \E c \in Callers : calls'[Abandoned] = calls[c]
             /\ calls'[Abandoned].job \in disturbed'
    <2>1. CASE R # {}
      <3>1. r \in Slots /\ calls[r] # Idle  BY <1>5, <2>1
      <3>2. work[r] # Idle /\ calls[r].job = work[r].job
        BY <1>3, <3>1 DEF PipeInv, Attached
      <3>3. work[r].job \in disturbed'  BY <1>1, <3>1, <3>2
      <3>4. calls'[Abandoned] = calls[r] /\ r \in Callers  BY <1>6, <2>1, <3>1
      <3> QED BY ONLY <3>2, <3>3, <3>4
    <2>2. CASE R = {}
      <3>1. calls[Abandoned] # Idle => calls[Abandoned].job \in disturbed  BY DEF PipeInv, Attached
      <3>2. calls'[Abandoned] = calls[Abandoned] /\ Abandoned \in Callers  BY <1>6, <2>2
      <3>3. disturbed \subseteq disturbed'  BY <1>1
      <3> QED BY ONLY <3>1, <3>2, <3>3
    <2> QED BY <2>1, <2>2
  <1>9. ASSUME NEW v \in Slots
        PROVE  \/ work[v].job \in disturbed' /\ work[v] # Idle
               \/ work'[v] = work[v] /\ calls'[v] = calls[v]
    <2>1. CASE work[v] # Idle  BY <1>1, <2>1
    <2>2. CASE work[v] = Idle
      <3>1. calls[v] = Idle  BY <1>3, <2>2 DEF PipeInv, Attached
      <3> QED BY <1>6, <2>2, <3>1
    <2> QED BY <2>1, <2>2
  <1>10. /\ disturbed \subseteq disturbed' /\ requests' \in [Handlers -> Request]
         /\ work' \in [Slots -> Worker]
         /\ \A h \in Handlers : requests'[h] \in {Idle, requests[h]}
         /\ \A v \in Slots : calls'[v] \in {Idle, calls[v]}
         /\ \A v \in Slots : work'[v] # Idle => work'[v].job = work[v].job /\ work[v] # Idle
         /\ \A v \in Slots : work'[v].pc = "calling" <=> calls'[v] # Idle
    BY <1>1, <1>2, <1>3, <1>6
  <1>11. UNCHANGED <<head, jobs, deployed>>  BY <1>1
  <1> HIDE DEF R
  <1> QED BY <1>7, <1>8, <1>9, <1>10, <1>11, FaultStep

LEMMA BackendCrashKeeps == PipeInv /\ BackendCrash => PipeInv'
  <1> SUFFICES ASSUME PipeInv, BackendCrash PROVE PipeInv'
    OBVIOUS
  <1> USE PipeConstants
  <1>1. /\ requests' = [h \in Handlers |-> Idle]
        /\ calls' = [c \in DOMAIN calls |-> Idle]
        /\ disturbed' = disturbed \cup {calls[c].job : c \in {x \in DOMAIN calls : calls[x] # Idle}}
        /\ UNCHANGED <<head, jobs, deployed>>
    BY DEF BackendCrash
  <1>2. work' = [w \in Slots |->
          IF work[w].pc = "calling" THEN [work[w] EXCEPT !.pc = "failing"] ELSE work[w]]
    BY DEF BackendCrash
  <1>3. /\ calls \in [Callers -> Call] /\ DOMAIN calls = Callers
        /\ work \in [Slots -> Worker]
    BY DEF PipeInv, PipeTyped
  <1>4. Idle \in Request /\ Idle \in Call /\ Idle.pc = "idle"  BY DEF Request, Call, Idle
  <1>5. ASSUME NEW w \in Slots
        PROVE  /\ work'[w] \in Worker /\ work'[w].pc # "calling"
               /\ work'[w] # Idle => work'[w].job = work[w].job /\ work[w] # Idle
               /\ work[w].pc # "calling" => work'[w] = work[w]
    <2>1. CASE work[w].pc # "calling"  BY <1>2, <1>3, <2>1
    <2>2. CASE work[w].pc = "calling"
      <3>1. work[w] \in [pc : Busy \cup {"spawned"}, job : Nat] /\ work[w] # Idle
        BY <1>3, <2>2 DEF Worker, Idle
      <3>2. PICK new : new = [work[w] EXCEPT !.pc = "failing"]  OBVIOUS
      <3>3. new \in [pc : Busy \cup {"spawned"}, job : Nat] /\ new.pc = "failing"
            /\ new.job = work[w].job
        BY ONLY <3>1, <3>2 DEF Busy
      <3>4. work'[w] = new  BY <1>2, <2>2, <3>2
      <3> QED BY ONLY <2>2, <3>1, <3>3, <3>4 DEF Worker
    <2> QED BY <2>1, <2>2
  <1>6. work' \in [Slots -> Worker]
    <2>1. work' = [w \in Slots |-> work'[w]]  BY <1>2
    <2> QED BY <1>5, <2>1
  <1>7. \A c \in Callers : calls'[c] = Idle  BY <1>1, <1>3
  <1>8. ASSUME NEW v \in Slots
        PROVE  \/ work[v].job \in disturbed' /\ work[v] # Idle
               \/ work'[v] = work[v] /\ calls'[v] = calls[v]
    <2>1. CASE work[v].pc = "calling"
      <3>1. calls[v] # Idle /\ calls[v].job = work[v].job
        BY <2>1 DEF PipeInv, Attached
      <3>2. work[v].job \in disturbed'  BY <1>1, <1>3, <3>1
      <3> QED BY <1>4, <2>1, <3>2
    <2>2. CASE work[v].pc # "calling"
      <3>1. calls[v] = Idle  BY <2>2 DEF PipeInv, Attached
      <3> QED BY <1>5, <1>7, <2>2, <3>1
    <2> QED BY <2>1, <2>2
  <1>9. /\ disturbed \subseteq disturbed' /\ requests' \in [Handlers -> Request]
        /\ calls' \in [Callers -> Call]
        /\ \A h \in Handlers : requests'[h] \in {Idle, requests[h]}
        /\ \A v \in Slots : calls'[v] \in {Idle, calls[v]}
        /\ calls'[Abandoned] = Idle
    BY <1>1, <1>3, <1>4, <1>7
  <1>10. \A v \in Slots : work'[v].pc = "calling" <=> calls'[v] # Idle  BY <1>5, <1>7
  <1>11. UNCHANGED <<head, jobs, deployed>>  BY <1>1
  <1>12. \A v \in Slots : work'[v] # Idle => work'[v].job = work[v].job /\ work[v] # Idle  BY <1>5
  <1> QED BY ONLY PipeInv, <1>6, <1>8, <1>9, <1>10, <1>11, <1>12, FaultStep

-----------------------------------------------------------------------------
(* A tick of the worker, and requests.                                        *)

LEMMA RunKeeps == PipeInv /\ Run => PipeInv'
  <1> SUFFICES ASSUME PipeInv, Run PROVE PipeInv'
    OBVIOUS
  <1> DEFINE queued    == {j \in JobIds : jobs[j].status = "queued"}
             listed    == {j \in queued : Rank(j, queued) < MaxConcurrency}
             free      == {w \in Slots : work[w] = Idle}
             handed(w) == {j \in listed : w \in free /\ Rank(j, listed) = Rank(w, free)}
             given(w)  == CHOOSE j \in handed(w) : TRUE
  <1>1. work' = [w \in Slots |-> IF handed(w) = {} THEN work[w]
                                 ELSE [pc |-> "spawned", job |-> given(w)]]
    BY Zenon DEF Run
  <1>2. UNCHANGED <<head, jobs, requests, calls, deployed, disturbed>>
    BY Zenon DEF Run
  <1>3. \A w \in Slots : handed(w) # {} => given(w) \in JobIds /\ work[w] = Idle
    <2>1. \A w \in Slots : \A j \in handed(w) : j \in JobIds /\ work[w] = Idle
      OBVIOUS
    <2>2. \A w \in Slots : handed(w) # {} => given(w) \in handed(w)
      OBVIOUS
    <2> QED BY <2>1, <2>2
  <1> HIDE DEF queued, listed, free, handed, given
  <1>4. PipeTyped /\ JobIds' = JobIds /\ JobIds \subseteq Nat
    BY <1>2, LenProperties DEF PipeInv, PipeTyped, JobIds
  <1>5. ASSUME NEW w \in Slots
        PROVE  /\ work'[w] \in Worker
               /\ \/ work'[w] = work[w]
                  \/ work[w] = Idle /\ work'[w].pc = "spawned" /\ work'[w].job \in JobIds
    <2>1. CASE handed(w) = {}  BY <1>1, <1>4, <2>1 DEF PipeTyped
    <2>2. CASE handed(w) # {}
      <3>1. PICK j \in JobIds : j = given(w)  BY <1>3, <2>2
      <3>2. work'[w] = [pc |-> "spawned", job |-> j]  BY <1>1, <2>2, <3>1
      <3>3. work[w] = Idle /\ j \in Nat  BY <1>3, <1>4, <2>2
      <3> QED BY ONLY <3>2, <3>3, j \in JobIds DEF Worker
    <2> QED BY <2>1, <2>2
  <1>6. work' \in [Slots -> Worker]
    <2>1. work' = [w \in Slots |-> work'[w]]  BY <1>1
    <2> QED BY <1>5, <2>1
  <1>7. PipeTyped'  BY <1>2, <1>4, <1>6 DEF PipeTyped
  <1>8. KnownHasJob'  BY <1>2, <1>4 DEF PipeInv, KnownHasJob
  <1>9. Idle.pc = "idle"  BY DEF Idle
  <1>10. Attached'
    <2>1. \A w \in Slots : work'[w] # Idle => work'[w].job \in JobIds
      BY <1>5 DEF PipeInv, Attached
    <2>2. \A w \in Slots : work'[w].pc = "calling" <=> calls[w] # Idle
      BY <1>5, <1>9 DEF PipeInv, Attached
    <2>3. \A w \in Slots : calls[w] # Idle => calls[w].job = work'[w].job
      BY <1>5, <1>9 DEF PipeInv, Attached
    <2> QED BY <1>2, <1>4, <2>1, <2>2, <2>3 DEF PipeInv, Attached, Abandoned
  <1>11. CallsTrue'  BY <1>2, <1>4 DEF PipeInv, CallsTrue, FallbackCommit
  <1>12. ASSUME NEW k \in JobIds' \ disturbed' PROVE BuiltOnce(k)'
    <2>1. BuiltOnce(k)  BY <1>2, <1>4 DEF PipeInv
    <2>2. ASSUME NEW w \in Slots
          PROVE  \/ work'[w] = work[w] /\ calls'[w] = calls[w]
                 \/ w \notin Builders(k) /\ ~(work'[w].pc \in Busy /\ work'[w].job = k)
      BY <1>2, <1>5, <1>9 DEF Builders, Busy
    <2> QED BY <1>2, <2>1, <2>2, OtherJob
  <1>13. DeploysDelivery'  BY <1>2, <1>4 DEF PipeInv, DeploysDelivery, FallbackCommit
  <1> QED BY <1>7, <1>8, <1>10, <1>11, <1>12, <1>13 DEF PipeInv

\* Nothing of the worker and the callback changes.
LEMMA BuildsStay ==
  ASSUME PipeInv, UNCHANGED <<jobs, work, calls, deployed, disturbed>>
  PROVE  /\ Attached' /\ CallsTrue' /\ DeploysDelivery' /\ JobIds' = JobIds
         /\ \A k \in JobIds' \ disturbed' : BuiltOnce(k)'
  <1>1. JobIds' = JobIds  BY DEF JobIds
  <1>2. Attached'  BY <1>1 DEF PipeInv, Attached, Abandoned
  <1>3. CallsTrue'  BY <1>1 DEF PipeInv, CallsTrue, FallbackCommit
  <1>4. DeploysDelivery'  BY <1>1 DEF PipeInv, DeploysDelivery, FallbackCommit
  <1>5. ASSUME NEW k \in JobIds' \ disturbed' PROVE BuiltOnce(k)'
    <2>1. BuiltOnce(k)  BY <1>1 DEF PipeInv
    <2> QED BY <2>1, OtherJob
  <1> QED BY <1>1, <1>2, <1>3, <1>4, <1>5

\* A step of one request that creates no job.
LEMMA RequestStep ==
  ASSUME PipeInv, NEW h \in Handlers, NEW new \in Request,
         UNCHANGED <<head, jobs, work, calls, deployed, disturbed>>,
         requests' = [requests EXCEPT ![h] = new],
         new.pc = "routed" /\ new.known => JobsOf(new.commit) # {},
         new.pc = "enqueue" => ~new.known
  PROVE  PipeInv'
  <1>1. /\ Attached' /\ CallsTrue' /\ DeploysDelivery' /\ JobIds' = JobIds
        /\ \A k \in JobIds' \ disturbed' : BuiltOnce(k)'
    BY BuildsStay
  <1>2. PipeTyped'  BY DEF PipeInv, PipeTyped
  <1>3. KnownHasJob'
    <2>1. \A g \in Handlers : requests'[g] = IF g = h THEN new ELSE requests[g]
      BY DEF PipeInv, PipeTyped
    <2>2. new.pc = "routed" /\ new.known => \E j \in JobIds : jobs[j].delivery = new.commit
      BY DEF JobsOf
    <2> QED BY <1>1, <2>1, <2>2 DEF PipeInv, KnownHasJob
  <1> QED BY <1>1, <1>2, <1>3 DEF PipeInv

LEMMA PushKeeps == PipeInv /\ Push => PipeInv'
  <1> SUFFICES ASSUME PipeInv, Push PROVE PipeInv'
    OBVIOUS
  <1>1. /\ Attached' /\ CallsTrue' /\ DeploysDelivery' /\ JobIds' = JobIds
        /\ \A k \in JobIds' \ disturbed' : BuiltOnce(k)'
    BY BuildsStay DEF Push
  <1>2. PipeTyped'  BY PipeConstants DEF Push, PipeInv, PipeTyped
  <1>3. KnownHasJob'  BY <1>1 DEF Push, PipeInv, KnownHasJob
  <1> QED BY <1>1, <1>2, <1>3 DEF PipeInv

LEMMA ReceiveKeeps ==
  ASSUME PipeInv, NEW h \in Handlers,
         handlePullRequest(h) \/ \E c \in 1..head : handlePush(h, c)
  PROVE  PipeInv'
  <1>1. PICK c \in Commits, p \in Projects :
          /\ requests' = [requests EXCEPT ![h] =
                [pc |-> "routed", project |-> p, commit |-> c, known |-> JobsOf(c) # {}]]
          /\ UNCHANGED <<head, jobs, work, calls, deployed, disturbed>>
    <2>1. CASE handlePullRequest(h)
      <3>1. PRCommit \in Commits  BY DEF Commits
      <3>2. PICK p \in LookupWebhookRoute(Tracked) \cap Previewed :
              requests' = [requests EXCEPT ![h] = [pc |-> "routed", project |-> p,
                  commit |-> PRCommit, known |-> JobsOf(PRCommit) # {}]]
        BY <2>1, Zenon DEF handlePullRequest
      <3>3. p \in Projects  BY DEF LookupWebhookRoute
      <3>4. UNCHANGED <<head, jobs, work, calls, deployed, disturbed>>
        BY <2>1, Zenon DEF handlePullRequest
      <3> QED BY <3>1, <3>2, <3>3, <3>4, Zenon
    <2>2. ASSUME NEW c \in 1..head, handlePush(h, c)
          PROVE  \E d \in Commits, p \in Projects :
                    /\ requests' = [requests EXCEPT ![h] =
                          [pc |-> "routed", project |-> p, commit |-> d, known |-> JobsOf(d) # {}]]
                    /\ UNCHANGED <<head, jobs, work, calls, deployed, disturbed>>
      <3>1. c \in Commits  BY PipeConstants DEF PipeInv, PipeTyped, Commits
      <3>2. PICK p \in LookupWebhookRoute(Tracked) :
              requests' = [requests EXCEPT ![h] =
                  [pc |-> "routed", project |-> p, commit |-> c, known |-> JobsOf(c) # {}]]
        BY <2>2, Zenon DEF handlePush
      <3>3. p \in Projects  BY DEF LookupWebhookRoute
      <3>4. UNCHANGED <<head, jobs, work, calls, deployed, disturbed>>
        BY <2>2, Zenon DEF handlePush
      <3> QED BY <3>1, <3>2, <3>3, <3>4, Zenon
    <2> QED BY <2>1, <2>2, Zenon
  <1> DEFINE b   == JobsOf(c) # {}
             new == [pc |-> "routed", project |-> p, commit |-> c, known |-> b]
  <1>2. requests' = [requests EXCEPT ![h] = new]  BY <1>1
  <1>3. b \in BOOLEAN  OBVIOUS
  <1>4. b => JobsOf(c) # {}  OBVIOUS
  <1> HIDE DEF b
  <1>5. /\ new \in Request /\ new.pc = "routed" /\ new.commit = c /\ (new.known <=> b)
    BY <1>3 DEF Request
  <1> HIDE DEF new
  <1> QED BY <1>1, <1>2, <1>4, <1>5, RequestStep

LEMMA EnqueueCheckKeeps ==
  ASSUME PipeInv, NEW h \in Handlers, EnqueueFromWebhook(h)
  PROVE  PipeInv'
  <1> DEFINE r == requests[h]
  <1>1. r.pc = "routed" /\ r \in Request  BY DEF EnqueueFromWebhook, PipeInv, PipeTyped
  <1>2. UNCHANGED <<head, jobs, work, calls, deployed, disturbed>>
    BY Zenon DEF EnqueueFromWebhook
  <1>3. \/ requests' = [requests EXCEPT ![h] = Idle]
        \/ JobsOf(r.commit) = {} /\ requests' = [requests EXCEPT ![h] = [r EXCEPT !.pc = "enqueue"]]
    BY DEF EnqueueFromWebhook
  <1>4. r.known => JobsOf(r.commit) # {}  BY <1>1 DEF PipeInv, KnownHasJob, JobsOf
  <1> HIDE DEF r
  <1>5. CASE requests' = [requests EXCEPT ![h] = Idle]
    <2>1. Idle \in Request /\ Idle.pc = "idle"  BY DEF Request, Idle
    <2> QED BY <1>2, <1>5, <2>1, RequestStep
  <1>6. CASE JobsOf(r.commit) = {} /\ requests' = [requests EXCEPT ![h] = [r EXCEPT !.pc = "enqueue"]]
    <2>1. r \in [pc : {"routed", "enqueue"}, project : Projects, commit : Commits, known : BOOLEAN]
      BY <1>1 DEF Request, Idle
    <2>2. PICK new : new = [r EXCEPT !.pc = "enqueue"] /\ requests' = [requests EXCEPT ![h] = new]
      BY <1>6
    <2>3. /\ new \in [pc : {"routed", "enqueue"}, project : Projects, commit : Commits,
                      known : BOOLEAN]
          /\ new.pc = "enqueue" /\ new.known = r.known
      BY ONLY <2>1, <2>2
    <2>4. new \in Request /\ new.pc = "enqueue" /\ ~new.known
      BY <1>4, <1>6, <2>3 DEF Request
    <2>5. requests' = [requests EXCEPT ![h] = new]  BY <2>2
    <2> QED BY ONLY PipeInv, h \in Handlers, <1>2, <2>4, <2>5, RequestStep
  <1> QED BY <1>3, <1>5, <1>6

LEMMA OneClickKeeps ==
  ASSUME PipeInv, NEW h \in Handlers, NEW p \in Projects, enqueueOneClickRepoBuild(h, p)
  PROVE  PipeInv'
  <1> DEFINE new == [pc |-> "enqueue", project |-> p, commit |-> 0, known |-> FALSE]
  <1>1. /\ requests' = [requests EXCEPT ![h] = new]
        /\ UNCHANGED <<head, jobs, work, calls, deployed, disturbed>>
    BY Zenon DEF enqueueOneClickRepoBuild
  <1>2. 0 \in Commits  BY PipeConstants DEF Commits
  <1>3. new \in Request /\ new.pc = "enqueue" /\ ~new.known  BY <1>2 DEF Request
  <1> HIDE DEF new
  <1> QED BY <1>1, <1>3, RequestStep

LEMMA EnqueueKeeps ==
  ASSUME PipeInv, NEW h \in Handlers, enqueueBuildJob(h)
  PROVE  PipeInv'
  <1> DEFINE r   == requests[h]
             row == [project |-> r.project, delivery |-> r.commit, input |-> r.commit,
                     commit |-> r.commit, status |-> "queued"]
  <1>0. PICK n : n = Len(jobs) + 1  OBVIOUS
  <1>1. r.pc = "enqueue" /\ r \in Request  BY DEF enqueueBuildJob, PipeInv, PipeTyped
  <1>2. /\ jobs' = Append(jobs, row) /\ deployed' = Append(deployed, <<>>)
        /\ requests' = [requests EXCEPT ![h] = Idle]
        /\ UNCHANGED <<head, work, calls, disturbed>>
    BY Zenon DEF enqueueBuildJob
  <1>3. r.project \in Projects /\ r.commit \in Commits /\ r.commit \in Nat
    <2>1. r \in [pc : {"routed", "enqueue"}, project : Projects, commit : Commits, known : BOOLEAN]
      BY <1>1 DEF Request, Idle
    <2> QED BY <2>1, PipeConstants
  <1>4. row \in Job /\ row.input = row.delivery /\ row.status = "queued"
    BY <1>3 DEF Job, Statuses
  <1> HIDE DEF r, row
  <1>5. /\ jobs \in Seq(Job) /\ deployed \in Seq(Seq(Nat)) /\ Len(deployed) = Len(jobs)
        /\ JobIds = 1..Len(jobs) /\ Len(jobs) \in Nat /\ n \notin JobIds
    BY <1>0, LenProperties DEF PipeInv, PipeTyped, JobIds
  <1>6. /\ jobs' \in Seq(Job) /\ Len(jobs') = n /\ jobs'[n] = row
        /\ \A k \in JobIds : jobs'[k] = jobs[k]
    BY <1>0, <1>2, <1>4, <1>5, AppendProperties
  <1>7. /\ deployed' \in Seq(Seq(Nat)) /\ Len(deployed') = n /\ deployed'[n] = <<>>
        /\ \A k \in JobIds : deployed'[k] = deployed[k]
    BY <1>0, <1>2, <1>5, AppendProperties, EmptySeq
  <1>8. JobIds' = JobIds \cup {n}
    BY <1>0, <1>5, <1>6, LenProperties DEF JobIds
  <1>9. Idle \in Request /\ Idle.pc = "idle"  BY DEF Request, Idle
  <1>10. PipeTyped'  BY <1>2, <1>6, <1>7, <1>9 DEF PipeInv, PipeTyped
  <1>11. KnownHasJob'
    <2>1. \A g \in Handlers : requests'[g] = IF g = h THEN Idle ELSE requests[g]
      BY <1>2 DEF PipeInv, PipeTyped
    <2> QED BY <1>6, <1>8, <1>9, <2>1 DEF PipeInv, KnownHasJob
  <1>12. Attached'  BY <1>2, <1>8 DEF PipeInv, Attached, Abandoned
  <1>13. CallsTrue'
    <2>1. \A k \in JobIds' : jobs'[k].input = jobs'[k].delivery
      BY <1>4, <1>6, <1>8 DEF PipeInv, CallsTrue
    <2>2. \A c \in Callers : calls[c] # Idle => jobs'[calls[c].job] = jobs[calls[c].job]
      BY <1>6 DEF PipeInv, Attached
    <2> QED BY <1>2, <2>1, <2>2 DEF PipeInv, CallsTrue, FallbackCommit
  <1>14. ASSUME NEW k \in JobIds' \ disturbed' PROVE BuiltOnce(k)'
    <2>1. CASE k \in JobIds
      <3>1. BuiltOnce(k)  BY <1>2, <1>14, <2>1 DEF PipeInv
      <3>2. jobs'[k].status = jobs[k].status /\ deployed'[k] = deployed[k]
        BY <1>6, <1>7, <2>1
      <3> QED BY <1>2, <3>1, <3>2, OtherJob
    <2>2. CASE k = n
      <3>1. Builders(n)' = {}
        <4>1. \A w \in Slots : work[w].pc \in Busy => work[w].job \in JobIds
          BY <1>9 DEF PipeInv, Attached, Busy
        <4> QED BY <1>2, <1>5, <4>1 DEF Builders
      <3>2. jobs'[n].status = "queued" /\ deployed'[n] = <<>>  BY <1>4, <1>6, <1>7
      <3> QED BY <2>2, <3>1, <3>2 DEF BuiltOnce
    <2> QED BY <1>8, <1>14, <2>1, <2>2
  <1>15. DeploysDelivery'
    <2>1. \A i \in DOMAIN deployed'[n] : FALSE  BY <1>7
    <2> QED BY <1>6, <1>7, <1>8, <2>1 DEF PipeInv, DeploysDelivery, FallbackCommit
  <1> QED BY <1>10, <1>11, <1>12, <1>13, <1>14, <1>15 DEF PipeInv

-----------------------------------------------------------------------------
LEMMA PipeKept == PipeInv /\ UNCHANGED pipeVars => PipeInv'
  <1> SUFFICES ASSUME PipeInv, UNCHANGED pipeVars PROVE PipeInv'
    OBVIOUS
  <1>1. UNCHANGED <<head, jobs, requests, work, calls, deployed, disturbed>>  BY DEF pipeVars
  <1>2. /\ Attached' /\ CallsTrue' /\ DeploysDelivery' /\ JobIds' = JobIds
        /\ \A k \in JobIds' \ disturbed' : BuiltOnce(k)'
    BY <1>1, BuildsStay
  <1>3. PipeTyped' /\ KnownHasJob'  BY <1>1, <1>2 DEF PipeInv, PipeTyped, KnownHasJob
  <1> QED BY <1>2, <1>3 DEF PipeInv

LEMMA PipeStep == PipeInv /\ BuildNext => PipeInv'
  <1> SUFFICES ASSUME PipeInv, BuildNext PROVE PipeInv'
    OBVIOUS
  <1>1. CASE Requests
    BY <1>1, PushKeeps, ReceiveKeeps, EnqueueCheckKeeps, EnqueueKeeps, OneClickKeeps DEF Requests
  <1>2. CASE Building
    BY <1>2, RunKeeps, ClaimKeeps, BuildKeeps, FailKeeps DEF Building
  <1>3. CASE Calls
    <2>1. DOMAIN calls = Callers  BY DEF PipeInv, PipeTyped
    <2> QED BY <1>3, <2>1, HandleKeeps, UpdateKeeps, RevisionKeeps, DeployKeeps DEF Calls
  <1>4. CASE Faults
    BY <1>4, CallFailsKeeps, WorkerCrashKeeps, BackendCrashKeeps DEF Faults
  <1>5. CASE Relink
    <2>1. UNCHANGED <<head, jobs, requests, work, calls, deployed, disturbed>>
      BY <1>5 DEF Relink
    <2>2. /\ Attached' /\ CallsTrue' /\ DeploysDelivery' /\ JobIds' = JobIds
          /\ \A k \in JobIds' \ disturbed' : BuiltOnce(k)'
      BY <2>1, BuildsStay
    <2>3. PipeTyped' /\ KnownHasJob'  BY <2>1, <2>2 DEF PipeInv, PipeTyped, KnownHasJob
    <2> QED BY <2>2, <2>3 DEF PipeInv
  <1> QED BY <1>1, <1>2, <1>3, <1>4, <1>5 DEF BuildNext

LEMMA PipeImplies == PipeInv => DeliveriesBuilt
  <1> SUFFICES ASSUME PipeInv PROVE DeliveriesBuilt
    OBVIOUS
  <1>1. RedeliveryIdempotent  BY DEF PipeInv, KnownHasJob, RedeliveryIdempotent
  <1>2. SettledAgree
    <2> SUFFICES ASSUME NEW j \in JobIds \ disturbed, ~InFlight(j)
                 PROVE  /\ jobs[j].status # "running"
                        /\ Len(deployed[j]) = IF jobs[j].status = "succeeded" THEN 1 ELSE 0
      BY DEF SettledAgree
    <2>1. Builders(j) = {}  BY DEF InFlight, Builders, Busy, Idle
    <2>2. \/ jobs[j].status \in {"queued", "failed"} /\ deployed[j] = <<>>
          \/ jobs[j].status = "succeeded" /\ Len(deployed[j]) = 1
      BY <2>1 DEF PipeInv, BuiltOnce
    <2> QED BY <2>2, EmptySeq
  <1> QED BY <1>1, <1>2 DEF DeliveriesBuilt, PipeInv

(* A settled job and its deployment agree, what is deployed is the commit  *)
(* that was delivered, and a delivery received again gets no second job,   *)
(* for any number of pushes, handlers and workers, crashes and lost or     *)
(* repeated calls (EnqueueFromWebhook, Handle).                            *)
THEOREM DeliveriesAreBuilt == BuildSpec => []DeliveriesBuilt
  <1>1. BuildInit => PipeInv  BY PipeStart DEF BuildInit
  <1>2. PipeInv /\ [BuildNext]_buildVars => PipeInv'
    BY PipeStep, PipeKept DEF buildVars
  <1> QED BY <1>1, <1>2, PipeImplies, PTL DEF BuildSpec

-----------------------------------------------------------------------------
PortNumbers     == Nat \ {0}
NoImage   == Image({}, "", {}, {}, FALSE, NoStart)

\* What can be said of every declared service and every image, the idle ones included.
Declares(t) == t.targetPort \in Nat /\ t.servicePort \in Nat /\ t.health.port \in Nat
Shows(i) ==
    /\ i.exposed \subseteq Nat /\ i.smoke \subseteq Nat /\ i.start.ports \subseteq PortNumbers
    /\ IsFiniteSet(i.exposed) /\ IsFiniteSet(i.smoke) /\ IsFiniteSet(i.start.ports)

\* A resolution names its port if and only if it resolved one, which is then the only
\* candidate; its healthcheck is on that port or on a declared one.
Sound(r, declared) ==
    /\ r.status = "resolved" => r.port \in PortNumbers /\ r.candidates = {r.port}
    /\ r.status # "resolved" => r.port = 0 /\ r.health.port = 0
    /\ r.health.port \in Nat
    /\ r.health.port \in {0, r.port} \cup declared

LEMMA One ==
  ASSUME NEW S, IsFiniteSet(S)
  PROVE  /\ Cardinality(S) = 1 => S = {TheOne(S)}
         /\ S # {} /\ ~(Cardinality(S) > 1) => Cardinality(S) = 1
         /\ \A x \in S : ~(Cardinality(S) > 1) => S = {x}
  <1>1. Cardinality(S) = 1 => S = {TheOne(S)}
    <2> SUFFICES ASSUME Cardinality(S) = 1 PROVE S = {TheOne(S)}
      OBVIOUS
    <2>1. PICK x : S = {x}  BY FS_Singleton
    <2>2. TheOne(S) \in S  BY <2>1 DEF TheOne
    <2> QED BY <2>1, <2>2
  <1>2. S # {} /\ ~(Cardinality(S) > 1) => Cardinality(S) = 1
    BY FS_EmptySet, FS_CardinalityType
  <1>3. \A x \in S : ~(Cardinality(S) > 1) => S = {x}
    BY <1>2, FS_Singleton
  <1> QED BY <1>1, <1>2, <1>3

LEMMA DeclaredSound ==
  ASSUME NEW t, Declares(t), declaredPortHint(t) > 0
  PROVE  /\ Sound(Declared(t), DeclaredPorts(t)) /\ Declared(t).source = "explicit"
         /\ Declared(t).status = "resolved"
  <1>1. /\ declaredPortHint(t) \in PortNumbers /\ declaredPortHint(t) \in DeclaredPorts(t)
    BY DEF Declares, declaredPortHint, PortNumbers, DeclaredPorts
  <1>2. /\ declaredHealthcheckHint(t.health).port \in Nat
        /\ declaredHealthcheckHint(t.health).port \in {0} \cup DeclaredPorts(t)
    BY DEF Declares, declaredHealthcheckHint, NoHealth, DeclaredPorts
  <1> QED BY <1>1, <1>2 DEF Sound, Declared, Resolution, PortNumbers

LEMMA UnresolvedSound ==
  ASSUME NEW r, NEW source, NEW candidates, NEW D,
         r = Unresolved(source) \/ r = Ambiguous(source, candidates)
  PROVE  Sound(r, D) /\ r.status # "resolved"
  <1>1. /\ r.status # "resolved" /\ r.port = 0 /\ r.health = NoHealth
    BY DEF Unresolved, Ambiguous, Resolution
  <1>2. NoHealth.port = 0  BY DEF NoHealth
  <1>3. r.health.port = 0  BY <1>1, <1>2
  <1> QED BY <1>1, <1>3 DEF Sound

LEMMA SuggestedHealth ==
  ASSUME NEW s, NEW p
  PROVE  HealthAt(s, p).port \in {0, p}
  BY DEF HealthAt, NoHealth

LEMMA ResolvedSound ==
  ASSUME NEW source, NEW p \in PortNumbers, NEW h, NEW D, h.port \in {0, p}
  PROVE  /\ Sound(Resolution("resolved", source, {p}, p, h), D)
         /\ Resolution("resolved", source, {p}, p, h).source = source
  BY DEF Sound, Resolution, PortNumbers

LEMMA CandidatesSound ==
  ASSUME NEW source, NEW S, NEW suggested, NEW D, S \subseteq PortNumbers, IsFiniteSet(S)
  PROVE  LET r == FromCandidates(source, S, suggested) IN
         Sound(r, D) /\ (r.status = "resolved" => r.source = source)
  <1> DEFINE r == FromCandidates(source, S, suggested)
  <1>1. CASE Cardinality(S) = 1
    <2>1. PICK p : p = TheOne(S)  OBVIOUS
    <2>2. S = {p} /\ p \in PortNumbers  BY <1>1, <2>1, One
    <2>3. PICK h : h = HealthAt(suggested, p)  OBVIOUS
    <2>4. h.port \in {0, p}  BY <2>2, <2>3, SuggestedHealth
    <2>5. r = Resolution("resolved", source, {p}, p, h)
      BY <1>1, <2>1, <2>2, <2>3 DEF FromCandidates
    <2> QED BY <2>2, <2>4, <2>5, ResolvedSound
  <1>2. CASE Cardinality(S) # 1
    <2>1. r = Ambiguous(source, S)  BY <1>2 DEF FromCandidates
    <2> QED BY <2>1, UnresolvedSound
  <1> QED BY <1>1, <1>2

LEMMA FallbackPorts ==
  ASSUME NEW l, NEW f
  PROVE  selectLanguageFallbackPort(l, f) \in Nat
  <1> DEFINE framed == f # ""
             at8080 == l \cap {"go", "java", "php"} # {}
             at8000 == "python" \in l
             at3000 == l \cap {"node", "ruby", "rust"} # {}
  <1>1. selectLanguageFallbackPort(l, f) =
          IF framed THEN 3000 ELSE IF at8080 THEN 8080 ELSE IF at8000 THEN 8000
          ELSE IF at3000 THEN 3000 ELSE 0
    BY DEF selectLanguageFallbackPort
  <1> HIDE DEF framed, at8080, at8000, at3000
  <1> QED BY <1>1

LEMMA ExposedPorts ==
  ASSUME NEW i, Shows(i)
  PROVE  LET exposed == {d.port : d \in {e \in mergeDetectedPorts(i.exposed, i.smoke) : e.exposed}} IN
         exposed \subseteq PortNumbers /\ IsFiniteSet(exposed)
  <1> DEFINE ports   == normalizeCandidatePorts(i.exposed \cup i.smoke)
             exposed == {d.port : d \in {e \in mergeDetectedPorts(i.exposed, i.smoke) : e.exposed}}
  <1>1. ports \subseteq PortNumbers  BY DEF normalizeCandidatePorts, Shows, PortNumbers
  <1>2. ASSUME NEW e \in mergeDetectedPorts(i.exposed, i.smoke), e.exposed
        PROVE  e.port \in ports /\ e.port \in i.exposed
    <2>1. PICK p \in ports : e = [port |-> p, exposed |-> p \in i.exposed]
      BY DEF mergeDetectedPorts
    <2>2. e.port = p /\ (e.exposed <=> p \in i.exposed)  BY ONLY <2>1
    <2> QED BY <1>2, <2>2
  <1> HIDE DEF ports
  <1>3. exposed \subseteq PortNumbers /\ exposed \in SUBSET i.exposed
    BY <1>1, <1>2
  <1>4. IsFiniteSet(exposed)  BY <1>3, FS_Subset DEF Shows
  <1> QED BY <1>3, <1>4

\* What the worker resolves for a service of the repository.
LEMMA RepoServiceSound ==
  ASSUME NEW t, NEW i, Declares(t), Shows(i), NEW nixpacks
  PROVE  LET r == resolveRepoServiceBuildPort(t, i.langs, i.framework,
                      mergeDetectedPorts(i.exposed, i.smoke), i.start, nixpacks) IN
         /\ Sound(r, DeclaredPorts(t))
         /\ r.status = "resolved" => isAcceptedResolvedServicePortSource(r.source)
  <1> DEFINE s        == detectFrontendMetadata(i.framework)
             plan     == resolveBuildPortFromNixpacksPlan(i.start, s)
             fallback == resolveBuildPortFromLanguageFallback(i.langs, i.framework, s)
             detected == mergeDetectedPorts(i.exposed, i.smoke)
             image    == resolveBuildPortFromExpose(detected, s)
             Good(r)  == /\ Sound(r, DeclaredPorts(t))
                         /\ r.status = "resolved" => isAcceptedResolvedServicePortSource(r.source)
  <1>1. declaredPortHint(t) > 0 => Good(Declared(t))
    BY DeclaredSound DEF isAcceptedResolvedServicePortSource
  <1>2. Good(plan)
    <2>1. i.start.ports \subseteq PortNumbers /\ IsFiniteSet(i.start.ports)  BY DEF Shows
    <2>2. CASE plan = Unresolved("") \/ plan = Unresolved("nixpacks_plan")
      BY <2>2, UnresolvedSound
    <2>3. CASE plan = FromCandidates("nixpacks_plan", i.start.ports, s)
      BY <2>1, <2>3, CandidatesSound DEF isAcceptedResolvedServicePortSource
    <2> QED BY <2>2, <2>3, Zenon DEF resolveBuildPortFromNixpacksPlan
  <1>3. Good(fallback)
    <2>1. PICK p : p = selectLanguageFallbackPort(i.langs, i.framework)  OBVIOUS
    <2>2. p \in Nat  BY <2>1, FallbackPorts
    <2>3. CASE p = 0
      <3>1. fallback = Unresolved("language_default")
        BY <2>1, <2>3, Zenon DEF resolveBuildPortFromLanguageFallback
      <3> QED BY <3>1, UnresolvedSound
    <2>4. CASE p # 0
      <3>1. PICK h : h = HealthAt(s, p)  OBVIOUS
      <3>2. fallback = Resolution("resolved", "language_default", {p}, p, h)
        BY <2>1, <2>4, <3>1, Zenon DEF resolveBuildPortFromLanguageFallback
      <3>3. h.port \in {0, p} /\ p \in PortNumbers
        BY <2>2, <2>4, <3>1, SuggestedHealth DEF PortNumbers
      <3> QED BY <3>2, <3>3, ResolvedSound DEF isAcceptedResolvedServicePortSource
    <2> QED BY <2>3, <2>4
  <1>4. Good(image)
    <2> DEFINE exposed == {d.port : d \in {e \in detected : e.exposed}}
    <2>1. exposed \subseteq PortNumbers  BY ExposedPorts
    <2>2. IsFiniteSet(exposed)  BY ExposedPorts
    <2> HIDE DEF exposed
    <2>3. image = IF exposed = {} THEN Unresolved("")
                  ELSE FromCandidates("docker_inspect", exposed, s)
      BY DEF resolveBuildPortFromExpose, exposed
    <2>4. CASE image = Unresolved("")  BY <2>4, UnresolvedSound
    <2>5. CASE image = FromCandidates("docker_inspect", exposed, s)
      BY <2>1, <2>2, <2>5, CandidatesSound DEF isAcceptedResolvedServicePortSource
    <2> QED BY <2>3, <2>4, <2>5
  <1> DEFINE r == resolveRepoServiceBuildPort(t, i.langs, i.framework, detected, i.start, nixpacks)
  <1>5. \/ declaredPortHint(t) > 0 /\ r = Declared(t)
        \/ r = image \/ r = fallback \/ r = plan
    BY Zenon DEF resolveRepoServiceBuildPort
  <1>6. Good(r)
    <2> HIDE DEF r, plan, fallback, image, Good
    <2> QED BY <1>1, <1>2, <1>3, <1>4, <1>5
  <1> QED BY <1>6

\* What it resolves for the whole repository.
LEMMA RepositorySound ==
  ASSUME NEW i, Shows(i), NEW D
  PROVE  Sound(resolveBuildPort(i.framework, mergeDetectedPorts(i.exposed, i.smoke), i.smoke), D)
  <1> DEFINE suggested == detectFrontendMetadata(i.framework)
             detected  == mergeDetectedPorts(i.exposed, i.smoke)
             exposed   == {d.port : d \in {e \in detected : e.exposed}}
             hints     == [framework_hint |-> normalizeCandidatePorts({suggested.port}),
                           docker_inspect |-> exposed,
                           smoke_run      |-> normalizeCandidatePorts(i.smoke)]
             found     == UNION {hints[h] : h \in DOMAIN hints}
             sources   == {h \in DOMAIN hints : hints[h] # {}}
             source    == IF Cardinality(sources) = 1 THEN TheOne(sources) ELSE "mixed"
             health    == IF suggested.port = TheOne(found) THEN suggested ELSE NoHealth
             r         == resolveBuildPort(i.framework, detected, i.smoke)
  <1>1. r = CASE found = {} -> Unresolved("")
              [] Cardinality(found) > 1 -> Ambiguous(source, found)
              [] OTHER -> Resolution("resolved", source, found, TheOne(found), health)
    BY Zenon DEF resolveBuildPort
  <1>2. found = normalizeCandidatePorts({suggested.port}) \cup exposed
                  \cup normalizeCandidatePorts(i.smoke)
    OBVIOUS
  <1>3. suggested.port \in Nat  BY DEF detectFrontendMetadata, NoHealth
  <1>4. found \subseteq PortNumbers /\ IsFiniteSet(found)
    <2>1. exposed \subseteq PortNumbers  BY ExposedPorts
    <2>2. IsFiniteSet(exposed)  BY ExposedPorts
    <2>a. PICK a : a = normalizeCandidatePorts({suggested.port})  OBVIOUS
    <2>b. PICK b : b = exposed  OBVIOUS
    <2>c. PICK c : c = normalizeCandidatePorts(i.smoke)  OBVIOUS
    <2>d. found = a \cup b \cup c  BY <1>2, <2>a, <2>b, <2>c
    <2> HIDE DEF exposed, suggested, found
    <2>3. /\ normalizeCandidatePorts({suggested.port}) \subseteq PortNumbers
          /\ normalizeCandidatePorts({suggested.port}) \in SUBSET {suggested.port}
          /\ normalizeCandidatePorts(i.smoke) \subseteq PortNumbers
          /\ normalizeCandidatePorts(i.smoke) \in SUBSET i.smoke
      BY <1>3 DEF normalizeCandidatePorts, Shows, PortNumbers
    <2>4. /\ IsFiniteSet(normalizeCandidatePorts({suggested.port}))
          /\ IsFiniteSet(normalizeCandidatePorts(i.smoke))
      BY <2>3, FS_Singleton, FS_Subset DEF Shows
    <2>5. /\ a \subseteq PortNumbers /\ b \subseteq PortNumbers /\ c \subseteq PortNumbers
          /\ IsFiniteSet(a) /\ IsFiniteSet(b) /\ IsFiniteSet(c)
      BY <2>1, <2>2, <2>3, <2>4, <2>a, <2>b, <2>c
    <2>6. IsFiniteSet(a \cup b)  BY <2>5, FS_Union
    <2>7. IsFiniteSet(a \cup b \cup c)  BY <2>5, <2>6, FS_Union
    <2> QED BY <2>5, <2>7, <2>d
  <1> HIDE DEF found, source, suggested, r, health
  <1>5. CASE found = {}
    <2>0. ~(Cardinality(found) > 1)  BY <1>5, FS_EmptySet
    <2>1. r = Unresolved("")  BY <1>1, <1>5, <2>0
    <2> QED BY <2>1, UnresolvedSound DEF r
  <1>6. CASE found # {} /\ Cardinality(found) > 1
    <2>1. r = Ambiguous(source, found)  BY <1>1, <1>6
    <2> QED BY <2>1, UnresolvedSound DEF r
  <1>7. CASE found # {} /\ ~(Cardinality(found) > 1)
    <2>1. PICK p : p = TheOne(found)  OBVIOUS
    <2>2. found = {p} /\ p \in PortNumbers  BY <1>4, <1>7, <2>1, One
    <2>3. r = Resolution("resolved", source, {p}, p, health)  BY <1>1, <1>7, <2>1, <2>2
    <2>4. health.port \in {0, p}
      <3>1. NoHealth.port = 0  BY DEF NoHealth
      <3>2. CASE suggested.port = p  BY <2>1, <3>2 DEF health
      <3>3. CASE suggested.port # p  BY <2>1, <3>1, <3>3 DEF health
      <3> QED BY <3>2, <3>3
    <2> QED BY <2>2, <2>3, <2>4, ResolvedSound DEF r
  <1> QED BY <1>5, <1>6, <1>7

-----------------------------------------------------------------------------
(* The callback.                                                              *)

\* A service before an artifact is applied to it.
Undeployed(svc) ==
    /\ svc \in [targetPort : Nat, servicePort : Nat, health : {svc.health}, image : BOOLEAN,
                role : {svc.role}, declared : {svc.declared}, internal : BOOLEAN,
                worker : BOOLEAN, public : BOOLEAN]
    /\ svc.health.port \in Nat
    /\ svc.declared = DeclaredPorts(svc)

LEMMA ServiceUndeployed ==
  ASSUME NEW t, NEW r, Declares(t)
  PROVE  Undeployed(ServiceOf(t, r))
  <1> DEFINE svc == ServiceOf(t, r)
  <1>1. /\ svc.targetPort = t.targetPort /\ svc.servicePort = t.servicePort
        /\ svc.health = t.health /\ svc.declared = DeclaredPorts(t)
    BY DEF ServiceOf
  <1>2. DeclaredPorts(svc) = DeclaredPorts(t)  BY <1>1 DEF DeclaredPorts
  <1>3. svc \in [targetPort : Nat, servicePort : Nat, health : {svc.health}, image : BOOLEAN,
                 role : {svc.role}, declared : {svc.declared}, internal : BOOLEAN,
                 worker : BOOLEAN, public : BOOLEAN]
    BY DEF ServiceOf, Declares
  <1> HIDE DEF svc
  <1>4. Undeployed(svc)  BY <1>1, <1>2, <1>3 DEF Undeployed, Declares
  <1> QED BY <1>4 DEF svc

\* The port the artifact suggests is the resolved one, if there is one.
LEMMA Suggested ==
  ASSUME NEW res, NEW D, Sound(res, D)
  PROVE  normalizeSuggestedTargetPort(res) = IF res.status = "resolved" THEN res.port ELSE 0
  BY DEF Sound, normalizeSuggestedTargetPort, PortNumbers

Own(svc, p)  == IF p = 0 THEN svc.health.port ELSE p
Applied(svc, res, force, p) ==
    LET s == normalizeSuggestedTargetPort(res) IN
    IF s > 0 /\ (force \/ Own(svc, p) = 0) THEN s ELSE Own(svc, p)

LEMMA ApplyGives ==
  ASSUME NEW svc, Undeployed(svc), NEW res, NEW force \in BOOLEAN
  PROVE  LET new == applyArtifactToBlueprintService(svc, res, force) IN
         /\ new.targetPort = Applied(svc, res, force, svc.targetPort)
         /\ new.servicePort = Applied(svc, res, force, svc.servicePort)
         /\ new.health = IF res.health.port > 0 /\ (force \/ svc.health = NoHealth)
                         THEN res.health ELSE svc.health
         /\ new.declared = svc.declared
  <1> DEFINE h   == IF res.health.port > 0 /\ (force \/ svc.health = NoHealth)
                    THEN res.health ELSE svc.health
             tp  == Applied(svc, res, force, svc.targetPort)
             sp  == Applied(svc, res, force, svc.servicePort)
             R   == [targetPort : {svc.targetPort, tp}, servicePort : {svc.servicePort, sp},
                     health : {svc.health, h}, image : BOOLEAN, role : {svc.role},
                     declared : {svc.declared}, internal : BOOLEAN, worker : BOOLEAN,
                     public : BOOLEAN]
             new == applyArtifactToBlueprintService(svc, res, force)
  <1>1. svc \in R  BY DEF Undeployed
  <1>2. new = [svc EXCEPT !.image = TRUE, !.targetPort = tp, !.servicePort = sp, !.health = h]
    BY DEF applyArtifactToBlueprintService, Applied, Own
  <1> HIDE DEF h, tp, sp, new
  <1>3. PICK n : n = [svc EXCEPT !.image = TRUE, !.targetPort = tp, !.servicePort = sp, !.health = h]
    OBVIOUS
  <1>4. n.targetPort = tp /\ n.servicePort = sp /\ n.health = h /\ n.declared = svc.declared
    BY <1>1, <1>3
  <1>5. n = new  BY <1>2, <1>3
  <1> QED BY <1>4, <1>5 DEF h, tp, sp, new

LEMMA AcceptedBacked ==
  ASSUME NEW svc, Undeployed(svc), NEW t, NEW res, NEW D, Sound(res, D), NEW force \in BOOLEAN,
         NEW staged, NEW new, new = applyArtifactToBlueprintService(svc, res, force),
         validateResolvedServicePorts(new, t, staged, res), requiresResolvedServicePort(new, t)
  PROVE  /\ ResolvedPort(new) > 0
         /\ new.health.port \in {0, ResolvedPort(new)}
         /\ \/ ResolvedPort(new) \in new.declared
            \/ res.status = "resolved" /\ ResolvedPort(new) \in res.candidates
  <1>1. ResolvedPort(new) > 0 /\ validateServiceHealthcheckConsistency(new)
    BY DEF validateResolvedServicePorts
  <1>2. /\ new.targetPort = Applied(svc, res, force, svc.targetPort)
        /\ new.servicePort = Applied(svc, res, force, svc.servicePort)
        /\ new.health = IF res.health.port > 0 /\ (force \/ svc.health = NoHealth)
                        THEN res.health ELSE svc.health
        /\ new.declared = svc.declared
    BY ApplyGives
  <1>3. svc.targetPort \in Nat /\ svc.servicePort \in Nat /\ svc.health.port \in Nat
    BY DEF Undeployed
  <1>4. new.health.port \in {0, ResolvedPort(new)}
    <2>1. new.health.port \in Nat
      <3>1. res.health.port \in Nat  BY DEF Sound
      <3> QED BY <1>2, <1>3, <3>1
    <2>2. new.health.port > 0 /\ ResolvedPort(new) > 0 => new.health.port = ResolvedPort(new)
      BY <1>1 DEF validateServiceHealthcheckConsistency
    <2>3. PICK h \in Nat : h = new.health.port  BY <2>1
    <2>4. PICK rp : rp = ResolvedPort(new)  OBVIOUS
    <2>5. rp > 0 /\ (h > 0 /\ rp > 0 => h = rp)  BY <1>1, <2>2, <2>3, <2>4
    <2>6. h \in {0, rp}  BY <2>5
    <2> QED BY <2>3, <2>4, <2>6
  <1>5. svc.declared = {svc.targetPort, svc.servicePort, svc.health.port} \ {0}
    BY DEF Undeployed, DeclaredPorts
  <1> DEFINE s == normalizeSuggestedTargetPort(res)
  <1>6. ASSUME NEW p \in {svc.targetPort, svc.servicePort}, Applied(svc, res, force, p) > 0
        PROVE  \/ Applied(svc, res, force, p) \in svc.declared
               \/ s > 0 /\ Applied(svc, res, force, p) = s
    <2>1. PICK hp \in Nat : hp = svc.health.port  BY <1>3
    <2>2. PICK sp : sp = s  OBVIOUS
    <2>3. PICK q : q = Applied(svc, res, force, p)  OBVIOUS
    <2>4. q = IF sp > 0 /\ (force \/ Own(svc, p) = 0) THEN sp ELSE Own(svc, p)
      BY <2>2, <2>3 DEF Applied
    <2>5. Own(svc, p) = IF p = 0 THEN hp ELSE p  BY <2>1 DEF Own
    <2> HIDE DEF s
    <2>6. (q = p \/ q = hp) \/ (sp > 0 /\ q = sp)  BY <2>4, <2>5
    <2>7. q # 0  BY <1>6, <2>3
    <2>8. p \in svc.declared \/ p = 0  BY <1>5
    <2>9. hp \in svc.declared \/ hp = 0  BY <1>5, <2>1
    <2> QED BY <2>2, <2>3, <2>6, <2>7, <2>8, <2>9
  <1>7. s > 0 => res.status = "resolved" /\ s \in res.candidates
    BY Suggested DEF Sound
  <1>8. ResolvedPort(new) \in {new.targetPort, new.servicePort}  BY DEF ResolvedPort
  <1> HIDE DEF s
  <1>9. \/ ResolvedPort(new) \in new.declared
        \/ res.status = "resolved" /\ ResolvedPort(new) \in res.candidates
    BY <1>1, <1>2, <1>6, <1>7, <1>8
  <1> QED BY <1>1, <1>4, <1>9

\* Port numbers count from 1.
LEMMA Positive == \A q \in PortNumbers : q \in Nat /\ q > 0
  BY DEF PortNumbers

\* When every port that is declared or resolved is the same one, the service gets it
\* and the callback has nothing to refuse.
LEMMA AgreedAccepted ==
  ASSUME NEW svc, Undeployed(svc), NEW t, Declares(t), NEW res, Sound(res, DeclaredPorts(t)),
         res.status = "resolved", isAcceptedResolvedServicePortSource(res.source),
         svc.declared \subseteq {res.port}, DeclaredPorts(t) \subseteq {res.port},
         NEW new, new = applyArtifactToBlueprintService(svc, res, FALSE),
         new.health.path # "" => new.health.port # 0
  PROVE  validateResolvedServicePorts(new, t, TRUE, res)
  <1>1. /\ new.targetPort = Applied(svc, res, FALSE, svc.targetPort)
        /\ new.servicePort = Applied(svc, res, FALSE, svc.servicePort)
        /\ new.health = IF res.health.port > 0 /\ svc.health = NoHealth
                        THEN res.health ELSE svc.health
    BY ApplyGives
  <1>12. res.port \in PortNumbers  BY DEF Sound
  <1>2. PICK port \in Nat : port = res.port /\ port > 0
    <2>1. PICK q : q = res.port  OBVIOUS
    <2>2. q \in PortNumbers  BY <1>12, <2>1
    <2>3. q \in Nat /\ q > 0  BY <2>2, Positive, Zenon
    <2> QED BY <2>1, <2>3, Zenon
  <1>3. /\ svc.targetPort \in {0, port} /\ svc.servicePort \in {0, port}
        /\ svc.health.port \in {0, port}
    BY <1>2 DEF Undeployed, DeclaredPorts
  <1>4. normalizeSuggestedTargetPort(res) = port  BY <1>2, Suggested
  <1>9. ASSUME NEW p \in {0, port} PROVE Applied(svc, res, FALSE, p) = port
    <2>1. PICK own : own = Own(svc, p)  OBVIOUS
    <2>2. own \in {0, port}  BY <1>3, <2>1 DEF Own
    <2>3. Applied(svc, res, FALSE, p) = IF port > 0 /\ own = 0 THEN port ELSE own
      BY <1>4, <2>1 DEF Applied
    <2> QED BY <1>2, <2>2, <2>3
  <1>5. new.targetPort = port /\ new.servicePort = port
    BY <1>1, <1>3, <1>9
  <1>10. port > 0  BY <1>2
  <1>6. ResolvedPort(new) = port  BY <1>5, <1>10 DEF ResolvedPort
  <1>7. new.health.port \in {0, port}
    <2>1. res.health.port \in {0, port}  BY <1>2 DEF Sound
    <2> QED BY <1>1, <1>3, <2>1
  <1>8. validateServiceHealthcheckConsistency(new)
    <2>1. PICK h : h = new.health.port  OBVIOUS
    <2>2. h \in {0, port}  BY <1>7, <2>1
    <2>3. h # 0 => h > 0 /\ h = port  BY <2>2, <1>10
    <2>4. h > 0 /\ ResolvedPort(new) > 0 => h = ResolvedPort(new)
      <3>0. ~(0 > 0)  BY ONLY TRUE
      <3>1. h > 0 => h = port  BY <2>2, <3>0, Zenon
      <3> QED BY <1>6, <3>1
    <2>5. new.health.path # "" => new.health.port > 0  BY <2>1, <2>3
    <2>6. new.health.port > 0 /\ ResolvedPort(new) > 0 => new.health.port = ResolvedPort(new)
      BY <2>1, <2>4
    <2> QED BY <2>5, <2>6 DEF validateServiceHealthcheckConsistency
  <1>11. ResolvedPort(new) > 0  BY <1>6, <1>10
  <1> QED BY <1>8, <1>11, Zenon DEF validateResolvedServicePorts

LEMMA FewPorts == ASSUME NEW t PROVE IsFiniteSet(DeclaredPorts(t))
  <1>1. PICK a, b, c : a = t.targetPort /\ b = t.servicePort /\ c = t.health.port  OBVIOUS
  <1>2. IsFiniteSet({a}) /\ IsFiniteSet({b}) /\ IsFiniteSet({c})  BY FS_Singleton
  <1>3. IsFiniteSet({a} \cup {b})  BY <1>2, FS_Union
  <1>4. IsFiniteSet(({a} \cup {b}) \cup {c})  BY <1>2, <1>3, FS_Union
  <1>5. DeclaredPorts(t) \subseteq ({a} \cup {b}) \cup {c}  BY <1>1 DEF DeclaredPorts
  <1> QED BY <1>4, <1>5, FS_Subset

-----------------------------------------------------------------------------
PortsInv ==
    /\ Declares(build.target) /\ Shows(build.image) /\ build.staged \in BOOLEAN
    /\ resolution # NoResolution =>
          /\ Sound(resolution, DeclaredPorts(build.target))
          /\ build.staged /\ resolution.status = "resolved" =>
                isAcceptedResolvedServicePortSource(resolution.source)
    /\ outcome = "building" => Undeployed(service)
    /\ outcome # "building" => resolution # NoResolution
    /\ PortsSettled

LEMMA PortsStart == PortsInit \/ PortsIdle => PortsInv
  <1> SUFFICES ASSUME PortsInit \/ PortsIdle PROVE PortsInv
    OBVIOUS
  <1>1. Declares(NothingDeclared)  BY DEF Declares, NothingDeclared, NoHealth
  <1>2. Shows(NoImage)  BY FS_EmptySet DEF Shows, NoImage, Image, NoStart
  <1>3. \A t \in Targets : Declares(t)  BY PortsAssumption DEF Declares
  <1>4. \A i \in Images : Shows(i)  BY PortsAssumption DEF Shows, PortNumbers
  <1>5. outcome = "building" /\ resolution = NoResolution  BY DEF PortsInit, PortsIdle
  <1>6. /\ \E t, r : Declares(t) /\ service = ServiceOf(t, r)
        /\ \E u, i, staged : /\ Declares(u) /\ Shows(i) /\ staged \in BOOLEAN
                              /\ build = [target |-> u, image |-> i, staged |-> staged]
    <2>1. CASE PortsInit
      <3>1. PICK t \in Targets, i \in Images, r \in Roles, staged \in BOOLEAN :
              /\ service = ServiceOf(t, r)
              /\ build = [target |-> IF staged THEN t ELSE NothingDeclared,
                          image |-> i, staged |-> staged]
        BY <2>1, Zenon DEF PortsInit
      <3>2. PICK u : u = IF staged THEN t ELSE NothingDeclared  OBVIOUS
      <3>3. Declares(u)  BY <1>1, <1>3, <3>2
      <3>4. build = [target |-> u, image |-> i, staged |-> staged]  BY <3>1, <3>2
      <3>5. Declares(t) /\ Shows(i)  BY <1>3, <1>4, <3>1
      <3>6. \E tt, rr : Declares(tt) /\ service = ServiceOf(tt, rr)  BY <3>1, <3>5, Zenon
      <3> QED BY <3>3, <3>4, <3>5, <3>6, Zenon
    <2>2. CASE PortsIdle
      <3>1. /\ service = ServiceOf(NothingDeclared, "public")
            /\ build = [target |-> NothingDeclared, staged |-> FALSE, image |-> NoImage]
        BY <2>2, Zenon DEF PortsIdle, NoImage
      <3>2. PICK im, nd : im = NoImage /\ nd = NothingDeclared  OBVIOUS
      <3>3. build = [target |-> nd, image |-> im, staged |-> FALSE]  BY <3>1, <3>2
      <3>4. Declares(nd) /\ Shows(im)  BY <1>1, <1>2, <3>2
      <3>5. \E tt, rr : Declares(tt) /\ service = ServiceOf(tt, rr)  BY <1>1, <3>1, Zenon
      <3>6. FALSE \in BOOLEAN  OBVIOUS
      <3> QED BY <3>3, <3>4, <3>5, <3>6, Zenon
    <2> QED BY <2>1, <2>2
  <1>7. Declares(build.target) /\ Shows(build.image) /\ build.staged \in BOOLEAN
    <2>1. PICK u, i, staged : /\ Declares(u) /\ Shows(i) /\ staged \in BOOLEAN
                              /\ build = [target |-> u, image |-> i, staged |-> staged]
      BY <1>6, Zenon
    <2>2. build.target = u /\ build.image = i /\ build.staged = staged  BY <2>1
    <2> QED BY <2>1, <2>2, Zenon
  <1>8. Undeployed(service)
    <2>1. PICK t, r : Declares(t) /\ service = ServiceOf(t, r)  BY <1>6, Zenon
    <2> QED BY <2>1, ServiceUndeployed
  <1>9. PortsSettled  BY <1>5 DEF PortsSettled, AcceptedPortBacked, ResolvedAccepted
  <1> QED BY <1>5, <1>7, <1>8, <1>9 DEF PortsInv

LEMMA PortsStep == PortsInv /\ PortsNext => PortsInv'
  <1> SUFFICES ASSUME PortsInv, PortsNext PROVE PortsInv'
    OBVIOUS
  <1>1. CASE EditService
    <2>1. outcome' = "building" /\ build' = build /\ resolution' = resolution
      BY <1>1, Zenon DEF EditService
    <2>2. PICK t \in Targets : service' = ServiceOf(t, service.role)
      BY <1>1, Zenon DEF EditService
    <2>3. Undeployed(service')  BY <2>2, PortsAssumption, ServiceUndeployed DEF Declares
    <2>4. PortsSettled'  BY <2>1 DEF PortsSettled, AcceptedPortBacked, ResolvedAccepted
    <2>5. Undeployed(service)'  BY <2>3 DEF Undeployed, DeclaredPorts
    <2> QED BY <2>1, <2>4, <2>5 DEF PortsInv
  <1>2. CASE WorkerResolves
    <2> DEFINE i == build.image
               d == mergeDetectedPorts(i.exposed, i.smoke)
    <2>1. /\ resolution = NoResolution /\ UNCHANGED <<service, build, outcome>>
          /\ resolution' = IF build.staged
                     THEN resolveRepoServiceBuildPort(build.target, i.langs, i.framework,
                              d, i.start, i.usedNixpacks)
                     ELSE resolveBuildPort(i.framework, d, i.smoke)
      BY <1>2, Zenon DEF WorkerResolves
    <2>2. outcome = "building"  BY <2>1 DEF PortsInv
    <2>3. Declares(build.target) /\ Shows(i) /\ build.staged \in BOOLEAN  BY DEF PortsInv
    <2>4. /\ Sound(resolution', DeclaredPorts(build.target))
          /\ build.staged /\ resolution'.status = "resolved" =>
                isAcceptedResolvedServicePortSource(resolution'.source)
      <3>1. CASE build.staged
        <4>1. resolution' = resolveRepoServiceBuildPort(build.target, i.langs, i.framework,
                              d, i.start, i.usedNixpacks)
          BY <2>1, <3>1
        <4> QED BY <2>3, <4>1, RepoServiceSound
      <3>2. CASE ~build.staged
        <4>1. resolution' = resolveBuildPort(i.framework, d, i.smoke)  BY <2>1, <3>2
        <4> QED BY <2>3, <3>2, <4>1, RepositorySound
      <3> QED BY <3>1, <3>2
    <2>5. PortsSettled'  BY <2>1, <2>2 DEF PortsSettled, AcceptedPortBacked, ResolvedAccepted
    <2> HIDE DEF i
    <2>6. UNCHANGED <<service, build, outcome>>  BY <2>1
    <2> QED BY ONLY PortsInv, <2>2, <2>4, <2>5, <2>6
        DEF PortsInv, Sound, isAcceptedResolvedServicePortSource
  <1>3. CASE CallbackApplies
    <2> DEFINE force == service.role = "one_click" /\ ~build.staged
                          /\ isGenericFallbackHealthcheck(service.health)
               svc   == applyArtifactToBlueprintService(service, resolution, force)
    <2>1. /\ resolution # NoResolution /\ outcome = "building"
          /\ UNCHANGED <<build, resolution>>
          /\ service' = svc
          /\ outcome' = IF validateResolvedServicePorts(svc, build.target, build.staged, resolution)
                        THEN "accepted" ELSE "rejected"
      BY <1>3, Zenon DEF CallbackApplies
    <2>2. /\ Declares(build.target) /\ Sound(resolution, DeclaredPorts(build.target))
          /\ build.staged /\ resolution.status = "resolved" =>
                isAcceptedResolvedServicePortSource(resolution.source)
          /\ Undeployed(service) /\ build.staged \in BOOLEAN
      BY <2>1 DEF PortsInv
    <2>3. PICK f \in BOOLEAN : f = force  OBVIOUS
    <2>4. PICK new : new = svc  OBVIOUS
    <2>5. /\ new = applyArtifactToBlueprintService(service, resolution, f)
          /\ build.staged => f = FALSE
          /\ service' = new
          /\ outcome' = IF validateResolvedServicePorts(new, build.target, build.staged, resolution)
                        THEN "accepted" ELSE "rejected"
      BY <2>1, <2>3, <2>4
    <2> HIDE DEF force, svc
    <2>6. AcceptedPortBacked'
      <3> SUFFICES ASSUME outcome' = "accepted", requiresResolvedServicePort(new, build.target)
                   PROVE  /\ ResolvedPort(new) > 0
                          /\ new.health.port \in {0, ResolvedPort(new)}
                          /\ \/ ResolvedPort(new) \in new.declared
                             \/ resolution.status = "resolved"
                                /\ ResolvedPort(new) \in resolution.candidates
        BY <2>1, <2>5 DEF AcceptedPortBacked, ResolvedPort, requiresResolvedServicePort,
                          HasDeclaredPort, declaredPortHint
      <3>1. validateResolvedServicePorts(new, build.target, build.staged, resolution)
        BY <2>5
      <3> QED BY <2>2, <2>5, <3>1, AcceptedBacked
    <2>7. ResolvedAccepted'
      <3> DEFINE D == new.declared \cup DeclaredPorts(build.target) \cup resolution.candidates
      <3> SUFFICES ASSUME outcome' = "rejected", build.staged, resolution.status = "resolved",
                          ~(Cardinality(D) > 1),
                          new.health.path # "" => new.health.port # 0
                   PROVE  FALSE
        BY <2>1, <2>5 DEF ResolvedAccepted, DeclaredPorts
      <3>1. ~validateResolvedServicePorts(new, build.target, TRUE, resolution)
        BY <2>2, <2>5
      <3>2. new.declared = service.declared  BY <2>2, <2>5, ApplyGives
      <3>3. resolution.candidates = {resolution.port}  BY <2>2 DEF Sound
      <3>4. IsFiniteSet(D)
        <4>1. IsFiniteSet(DeclaredPorts(build.target)) /\ IsFiniteSet(DeclaredPorts(service))
          BY FewPorts
        <4>2. service.declared = DeclaredPorts(service)  BY <2>2 DEF Undeployed
        <4>3. IsFiniteSet(resolution.candidates)  BY <3>3, FS_Singleton
        <4>4. IsFiniteSet(new.declared)  BY <3>2, <4>1, <4>2
        <4>5. IsFiniteSet(new.declared \cup DeclaredPorts(build.target))  BY <4>1, <4>4, FS_Union
        <4> QED BY <4>3, <4>5, FS_Union
      <3>5. D = {resolution.port}
        <4>1. resolution.port \in D  BY <3>3
        <4> HIDE DEF D
        <4> QED BY <3>4, <4>1, One
      <3>6. /\ service.declared \subseteq {resolution.port}
            /\ DeclaredPorts(build.target) \subseteq {resolution.port}
        BY <3>2, <3>5
      <3> HIDE DEF D
      <3>7. new = applyArtifactToBlueprintService(service, resolution, FALSE)  BY <2>5
      <3> QED BY <2>2, <3>1, <3>6, <3>7, AgreedAccepted
    <2>8. PortsSettled'  BY <2>6, <2>7 DEF PortsSettled
    <2>9. outcome' # "building"  BY <2>5
    <2>10. UNCHANGED <<build, resolution>> /\ resolution # NoResolution  BY <2>1
    <2>11. resolution' # NoResolution  BY <2>10
    <2> QED BY ONLY PortsInv, <2>8, <2>9, <2>10, <2>11
        DEF PortsInv, Sound, isAcceptedResolvedServicePortSource
  <1> QED BY <1>1, <1>2, <1>3 DEF PortsNext

LEMMA PortsKept == PortsInv /\ UNCHANGED portVars => PortsInv'
  <1> SUFFICES ASSUME PortsInv, UNCHANGED portVars PROVE PortsInv'
    OBVIOUS
  <1>1. UNCHANGED <<service, build, resolution, outcome>>  BY DEF portVars
  <1> QED BY <1>1 DEF PortsInv, PortsSettled, AcceptedPortBacked, ResolvedAccepted

(* The port a service is started with is backed by what the worker or the  *)
(* user said, and a backed one is accepted, for any numbers that may be    *)
(* declared (applyResolvedPorts).                                          *)
THEOREM PortsAreSettled == MCSpec => []PortsSettled
  <1>1. MCInit => PortsInv  BY PortsStart DEF MCInit
  <1>2. PortsInv /\ [MCNext]_mcVars => PortsInv'
    BY PortsStep, PortsKept DEF MCNext, Pipeline, Links, Ports, PullReqs, mcVars, portVars
  <1>3. PortsInv => PortsSettled  BY DEF PortsInv
  <1> QED BY <1>1, <1>2, <1>3, PTL DEF MCSpec

=============================================================================
