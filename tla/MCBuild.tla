------------------------------ MODULE MCBuild -------------------------------
(* The build side: the pipeline, the links and installations on their own,    *)
(* the resolution of ports, and previews.  A behaviour exercises one part; the *)
(* others stay where they start.                                              *)
EXTENDS BuildPipeline, BuildPorts, Previews

VARIABLE part
mcVars == <<part, buildVars, portVars, previewVars>>

MCOwner == [p \in Projects |-> CHOOSE u \in Owners : TRUE]

Health(port, path)      == [port |-> port, path |-> path]
Target(tp, sp, health)  == [targetPort |-> tp, servicePort |-> sp, health |-> health]
MCTargets ==
    {Target(0, 0, NoHealth), Target(3000, 0, NoHealth), Target(0, 9000, Health(9000, "/")),
     Target(0, 0, Health(8080, "/")), Target(9000, 0, Health(8080, "/ok")),
     Target(0, 0, Health(0, "/ok"))}
Image(langs, framework, exposed, smoke, nixpacks, start) ==
    [langs |-> langs, framework |-> framework, exposed |-> exposed, smoke |-> smoke,
     usedNixpacks |-> nixpacks, start |-> start]
NoStart == [found |-> FALSE, ports |-> {}]
MCImages ==
    {Image(l, f, {}, {}, TRUE, s) : l \in {{}, {"go"}, {"python", "node"}}, f \in {"", "next"},
        s \in {NoStart, [found |-> TRUE, ports |-> {}], [found |-> TRUE, ports |-> {3000}],
               [found |-> TRUE, ports |-> {3000, 9000}]}}
    \cup {Image({"docker"}, f, e, s, FALSE, NoStart) : f \in {"", "vite"},
        e \in {{}, {3000}, {3000, 9000}}, s \in {{}, {9000}}}

PortsIdle ==
    /\ service = ServiceOf(NothingDeclared, "public")
    /\ build = [target |-> NothingDeclared, staged |-> FALSE,
                image |-> Image({}, "", {}, {}, FALSE, NoStart)]
    /\ resolution = NoResolution /\ outcome = "building"

Pipeline == part = "pipeline" /\ BuildNext /\ UNCHANGED <<portVars, previewVars>>
Links    == part = "links" /\ LinksNext /\ UNCHANGED <<pipeVars, portVars, previewVars>>
Ports    == part = "ports" /\ PortsNext /\ UNCHANGED <<buildVars, previewVars>>
PullReqs == part = "previews" /\ PreviewsNext /\ UNCHANGED <<buildVars, portVars>>

MCInit ==
    /\ part \in {"pipeline", "links", "ports", "previews"}
    /\ PipeInit /\ PreviewsInit
    /\ IF part = "links" THEN LinksInit ELSE LinksReady
    /\ IF part = "ports" THEN PortsInit ELSE PortsIdle

MCNext == (Pipeline \/ Links \/ Ports \/ PullReqs) /\ UNCHANGED part

MCSpec == MCInit /\ [][MCNext]_mcVars /\ BuildFairness

\* A push reaches at most one project of a user, and only while the app is installed
\* as far as the sync that wrote last had listed GitHub's present state; and the
\* preview service leaves a pull request two live previews only after a destroy or
\* two creations that ran at once (LinkRepository, SyncInstallations, CreateFromPR).
EventsRouted == OneRoutePerUser /\ SyncedRoutes /\ SecondPreviewAfterDestroy

=============================================================================
