-------------------------------- MODULE Sites --------------------------------
(***************************************************************************)
(* Site files: the commands of crates/zaphyl/src/cli.rs that write them,   *)
(* and main() of crates/zaphyl/src/main.rs with Config::load(), which      *)
(* reads them one by one when the server starts.  A write truncates the    *)
(* file first, so whoever reads it in between finds an empty one, and so   *)
(* does everyone after a write that failed or a command that was killed.   *)
(***************************************************************************)
EXTENDS Routing

CONSTANTS
    Operators,   \* people who run commands at the same time
    Sorted,      \* the domains, in the order of their file names
    Local,       \* the domains for which is_local() holds
    Layout,      \* what there is in the directory of each domain
    Apps,        \* addresses for --app
    Fpms,        \* addresses of php-fpm, which only files written by hand name
    Options,     \* the flags of `site add` that are tried
    HandWritten, \* site files that there may be at first, and what they stand for
    Configs,     \* main configurations
    Absent,      \* there is no such file
    Paths,       \* paths of requests, as sequences of segments
    MaxCommands  \* bound on the commands that are run

Domains == Range(Sorted)
Site == SiteOf(Domains, Apps \cup Fpms)

ASSUME SitesConstants ==
    /\ Sorted \in Seq(Domains)
    /\ Local \subseteq Domains
    /\ Layout \in [Domains -> SUBSET {"composer.json", "public", "index.php"}]
    /\ Options \subseteq [app : Apps \cup {None}, php : BOOLEAN, static : BOOLEAN,
                          no_tls : BOOLEAN, force : BOOLEAN]
    /\ None \notin Domains \cup {"root", "public"} /\ None \notin Site
    /\ \A h \in HandWritten :
          h.text # Absent /\ h.site \in Site /\ FromToml(h.text) = h.site
    /\ \A c \in Configs :
          /\ c.routes \in Seq(Range(c.routes))
          /\ c.sections \subseteq Sections
          /\ c.blank \subseteq Strings /\ c.zero \subseteq Numbers
    /\ MaxCommands \in Nat

VARIABLES
    config,      \* the main configuration file
    files,       \* the site files: texts, or Absent
    command,     \* what each operator runs
    count,       \* the commands run so far
    server,      \* the server's process
    asked,       \* history: the sites completed commands have asked for, per file
    damaged      \* history: the files that a write left empty

vars == <<config, files, command, count, server, asked, damaged>>

\* file and text: what will be written.  wants: history, what the command should do.
Commands ==
    {"idle"} \X {Absent} \cup {"open", "write"} \X Domains

\* The routes and domains of sites and of main configurations.
AllDomains == Domains \cup UNION {Range(c.domains) : c \in Configs}
Routes ==
    (UNION {Range(ToRoutes(s)) : s \in Site}) \cup (UNION {Range(c.routes) : c \in Configs})

\* pending: the files that are still to be read.  routes and domains: site_routes and
\* acme_domains, then those of the configuration.  sites: history, what was read.
Server == [stage : {"down", "loading", "loaded", "up", "failed"},
           pending : SUBSET Domains, sites : Seq(Site), routes : Seq(Routes),
           domains : SUBSET AllDomains]

TypeOK ==
    /\ config \in Configs
    /\ \A d \in Domains :
          files[d] # Absent /\ DOMAIN files[d] # {} => FromToml(files[d]) \in Site
    /\ \A o \in Operators : <<command[o].stage, command[o].file>> \in Commands
    /\ count \in 0 .. MaxCommands
    /\ server \in Server
    /\ asked \in [Domains -> Seq(Site \cup {Absent})]
    /\ damaged \subseteq Domains

Empty == <<>>

Idle == [stage |-> "idle", file |-> Absent, text |-> Empty, wants |-> Absent]

\* A process that has read nothing yet.
Fresh(stage, pending) ==
    [stage |-> stage, pending |-> pending, sites |-> <<>>, routes |-> <<>>, domains |-> {}]

Down == Fresh("down", {})
Failed == Fresh("failed", {})

Init ==
    /\ config \in Configs
    /\ \E hand \in SUBSET HandWritten :
          LET mine(d) == {h \in hand : h.site.domain = d}
          IN /\ files = [d \in Domains |-> IF mine(d) = {} THEN Absent
                                           ELSE (CHOOSE h \in mine(d) : TRUE).text]
             /\ asked = [d \in Domains |-> << IF mine(d) = {} THEN Absent
                                              ELSE (CHOOSE h \in mine(d) : TRUE).site >>]
    /\ command = [o \in Operators |-> Idle]
    /\ count = 0
    /\ server = Down
    /\ damaged = {}

-----------------------------------------------------------------------------
(* Commands.                                                               *)

DetectKind(d) ==
    IF {"composer.json", "public"} \subseteq Layout[d] \/ "index.php" \in Layout[d]
    THEN "php" ELSE "static"

\* Mutant of NewSite: a local domain has no setting for certificates.
NewSiteLocal(d, f) ==
    LET type == IF f.app # None THEN "app" ELSE IF f.php THEN "php"
                ELSE IF f.static THEN "static" ELSE DetectKind(d)
    IN [domain |-> d, type |-> type,
        root |-> IF type = "php" /\ "public" \in Layout[d] THEN "public" ELSE "root",
        tls |-> IF f.no_tls THEN "off" ELSE IF d \in Local THEN None ELSE "auto",
        app |-> f.app, php_fpm |-> None, enabled |-> TRUE]

\* The site that `site add` writes: flags win over what is detected.
NewSite(d, f) ==
    LET type == IF f.app # None THEN "app" ELSE IF f.php THEN "php"
                ELSE IF f.static THEN "static" ELSE DetectKind(d)
    IN [domain |-> d, type |-> type,
        root |-> IF type = "php" /\ "public" \in Layout[d] THEN "public" ELSE "root",
        tls |-> IF f.no_tls \/ d \in Local THEN "off" ELSE "auto",
        app |-> f.app, php_fpm |-> None, enabled |-> TRUE]

\* Mutant of WriteSiteToml: the address of php-fpm is left out.
WriteSiteTomlWithoutFpm(site) ==
    Restrict(site, {"domain", "root", "type", "tls"}
                   \cup {k \in {"app"} : site[k] # None})

\* No line for what is absent, and none for `enabled`.
WriteSiteToml(site) ==
    Restrict(site, {"domain", "root", "type", "tls"}
                   \cup {k \in {"app", "php_fpm"} : site[k] # None})

\* With the line for `enabled` that run_site_set_enabled() adds.
WithEnabled(site, enabled) ==
    Restrict([site EXCEPT !.enabled = enabled], DOMAIN WriteSiteToml(site) \cup {"enabled"})

ASSUME AbsentIsNoText ==
    /\ Absent # Empty
    /\ \A s \in Site :
          Absent # WriteSiteToml(s) /\ \A e \in BOOLEAN : Absent # WithEnabled(s, e)

Run(o) ==
    /\ command[o].stage = "idle"
    /\ count < MaxCommands
    /\ count' = count + 1

\* A file that exists is an error without --force.
SiteAdd(o, d, f) ==
    /\ Run(o)
    /\ command' = IF files[d] # Absent /\ ~f.force THEN command
                  ELSE [command EXCEPT ![o] =
                          [stage |-> "open", file |-> d,
                           text |-> WriteSiteToml(NewSite(d, f)),
                           wants |-> NewSite(d, f)]]
    /\ UNCHANGED <<config, files, server, asked, damaged>>

\* The file is written anew from what was read; one that is not there or does not
\* parse is an error.
SiteSetEnabled(o, d, enabled) ==
    /\ Run(o)
    /\ command' = IF files[d] = Absent \/ FromToml(files[d]) = None THEN command
                  ELSE [command EXCEPT ![o] =
                          [stage |-> "open", file |-> d,
                           text |-> WithEnabled(FromToml(files[d]), enabled),
                           wants |-> [Last(asked[d]) EXCEPT !.enabled = enabled]]]
    /\ UNCHANGED <<config, files, server, asked, damaged>>

SiteRemove(o, d) ==
    /\ Run(o)
    /\ files[d] # Absent
    /\ files' = [files EXCEPT ![d] = Absent]
    /\ asked' = [asked EXCEPT ![d] = Append(@, Absent)]
    /\ damaged' = damaged \ {d}
    /\ UNCHANGED <<config, command, server>>

\* fs::write() truncates the file ...
OpenFile(o) ==
    /\ command[o].stage = "open"
    /\ files' = [files EXCEPT ![command[o].file] = Empty]
    /\ command' = [command EXCEPT ![o].stage = "write"]
    /\ UNCHANGED <<config, count, server, asked, damaged>>

\* ... and writes its contents.
WriteFile(o) ==
    LET d == command[o].file
    IN /\ command[o].stage = "write"
       /\ files' = [files EXCEPT ![d] = command[o].text]
       /\ command' = [command EXCEPT ![o] = Idle]
       /\ asked' = [asked EXCEPT ![d] = Append(@, command[o].wants)]
       /\ damaged' = damaged \ {d}
       /\ UNCHANGED <<config, count, server>>

\* The write fails, or the command is killed.
WriteFails(o) ==
    /\ command[o].stage = "write"
    /\ command' = [command EXCEPT ![o] = Idle]
    /\ damaged' = damaged \cup {command[o].file}
    /\ UNCHANGED <<config, files, count, server, asked>>

-----------------------------------------------------------------------------
(* main()                                                                  *)

\* Mutant of Start: there has to be a directory of sites.
StartWithSites ==
    LET present == {d \in Domains : files[d] # Absent}
    IN /\ server.stage = "down"
       /\ server' = IF ~Validate(config) \/ present = {}
                    THEN Failed
                    ELSE Fresh("loading", present)
       /\ UNCHANGED <<config, files, command, count, asked, damaged>>

\* The main file is read and validated, and the directory listed if there is one: the
\* one next to the main file, which is also the commands' own unless ZAPHYL_SITES_DIR or
\* --config say otherwise (packaging/zaphyl.service).
Start ==
    LET present == {d \in Domains : files[d] # Absent}
    IN /\ server.stage = "down"
       /\ server' = IF ~Validate(config) THEN Failed
                    ELSE Fresh("loading", present)
       /\ UNCHANGED <<config, files, command, count, asked, damaged>>

\* The next file in order: one that is gone again, or does not parse, is the end of the
\* start.
ReadSite ==
    /\ server.stage = "loading"
    /\ \E i \in DOMAIN Sorted :
          LET text == files[Sorted[i]]
              site == FromToml(text)
          IN /\ Sorted[i] \in server.pending
             /\ \A j \in 1 .. i - 1 : Sorted[j] \notin server.pending
             /\ server' = IF text = Absent \/ site = None
                          THEN Failed
                          ELSE [server EXCEPT !.pending = @ \ {Sorted[i]},
                                   !.sites = Append(@, site),
                                   !.routes = @ \o ToRoutes(site),
                                   !.domains = @ \cup TlsDomains(site)]
    /\ UNCHANGED <<config, files, command, count, asked, damaged>>

\* The routes and domains of sites are merged with those of the main file.
Loaded ==
    /\ server.stage = "loading"
    /\ server.pending = {}
    /\ server' = [server EXCEPT !.stage = "loaded",
                     !.routes = MergedRoutes(config, @),
                     !.domains = MergedDomains(config, @)]
    /\ UNCHANGED <<config, files, command, count, asked, damaged>>

\* Certificates, access lists, plugins and listeners are set up; sound: they can be.
Assemble ==
    /\ server.stage = "loaded"
    /\ server' = IF config.sound THEN [server EXCEPT !.stage = "up"]
                 ELSE Failed
    /\ UNCHANGED <<config, files, command, count, asked, damaged>>

\* The service manager starts the server again, or the operator restarts it.
Restart ==
    /\ server.stage \in {"failed", "up"}
    /\ server' = Down
    /\ UNCHANGED <<config, files, command, count, asked, damaged>>

-----------------------------------------------------------------------------

CommandStep(o) == OpenFile(o) \/ WriteFile(o) \/ WriteFails(o)

ServerStep == Start \/ ReadSite \/ Loaded \/ Assemble

Next ==
    \/ \E o \in Operators, d \in Domains :
          \/ \E f \in Options : SiteAdd(o, d, f)
          \/ \E enabled \in BOOLEAN : SiteSetEnabled(o, d, enabled)
          \/ SiteRemove(o, d)
    \/ \E o \in Operators : CommandStep(o)
    \/ ServerStep
    \/ Restart

Spec == Init /\ [][Next]_vars

\* Processes run on, and the service manager restarts a server that failed.
FairSpec ==
    /\ Spec
    /\ WF_vars(ServerStep)
    /\ WF_vars(server.stage = "failed" /\ Restart)
    /\ \A o \in Operators : WF_vars(CommandStep(o))

-----------------------------------------------------------------------------
(* Properties.                                                             *)

Router == BuildRouter(server.routes)

\* A path from its segments, which are sequences of characters.
Render(segments) ==
    FlattenSeq([i \in DOMAIN segments |-> <<"/">> \o segments[i]])

\* No segment has a slash in it, and the segments of every prefix are among the paths.
Characters == UNION {UNION {Range(s) : s \in Range(P)} : P \in Paths}

ASSUME PathsTried ==
    /\ "/" \notin Characters
    /\ \A P \in Paths : P \in Seq(Seq(Characters))
    /\ \A c \in Configs : Validate(c) =>
          \A i \in DOMAIN c.routes :
             c.routes[i].path # None =>
                \E Q \in Paths \cup {<<>>} : TrimEnd(c.routes[i].path) = Render(Q)

Up == server.stage = "up"

Busy(d) == \E o \in Operators : command[o].file = d

\* The file of a site reads as what the last command for it asked for, however often it
\* was enabled, disabled and replaced, unless a write failed; and a running server
\* has read no site but one that a completed command asked for, although it reads
\* the files while commands write them.
SitesAsAsked ==
    /\ \A d \in Domains \ damaged :
          ~Busy(d) => Last(asked[d]) = IF files[d] = Absent THEN Absent
                                       ELSE FromToml(files[d])
    /\ \A i \in DOMAIN server.sites :
          server.sites[i] \in Range(asked[server.sites[i].domain])

\* A request for the host of an enabled site gets to that site whatever routes the
\* main configuration has (Config::load(): "Host-specific site routes win over the
\* main config's catch-all"), one for another host goes where it would without
\* sites, and ACME is asked for the domains of exactly the enabled sites with it.
SitesServed ==
    Up =>
       /\ \A h \in Domains, P \in Paths :
             LET path == Render(P)
                 m == MatchRoute(Router, h, path)
                 n == MatchRoute(config.routes, h, path)
                 mine == {i \in DOMAIN server.sites :
                            server.sites[i].domain = h /\ server.sites[i].enabled}
             IN IF mine # {}
                THEN m # 0 /\ Router[m].host = h /\ Router[m].path = None
                     /\ \E i \in mine : Router[m].static_dir = server.sites[i].root
                ELSE /\ (m = 0) = (n = 0)
                     /\ m # 0 => /\ Router[m].static_dir = config.routes[n].root
                                /\ Router[m].targets = config.routes[n].upstream
       /\ server.domains =
             IF "acme" \notin config.sections THEN {}
             ELSE Range(config.domains) \cup
                  {server.sites[i].domain : i \in {j \in DOMAIN server.sites :
                     server.sites[j].enabled /\ server.sites[j].tls = "auto"}}

\* No request of a running server ends in a route that has nothing to serve it with:
\* what Config::validate() tests of the main routes, and what to_route() makes of
\* sites, which are never validated, leave none.
EveryRouteServes ==
    Up => \A i \in DOMAIN Router : Handler(Router[i]) # "404"

\* The route, whose prefix is the segments Q, matches the path of the segments P if these
\* begin with Q, and the others are left of the path.
MatchesSegments(route, Q, P) ==
    /\ PathUnderPrefix(Render(P), route.path) <=> IsPrefix(Q, P)
    /\ route.strip_prefix /\ IsPrefix(Q, P) =>
          RewritePath(route, Render(P)) =
             IF P = Q THEN <<"/">> ELSE Render(SubSeq(P, Len(Q) + 1, Len(P)))

\* A prefix matches whole segments of a path (router.rs: "the prefix `/v1` matches
\* `/v1` and `/v1/users` but not `/v10`"), with or without a slash at its end, and
\* rewrite_path() takes away those segments and leaves a path that begins with `/`.
RoutedBySegments ==
    Up =>
       \A i \in DOMAIN Router :
          Router[i].path # None =>
             \E Q \in Paths \cup {<<>>} :
                /\ TrimEnd(Router[i].path) = Render(Q)
                /\ \A P \in Paths : MatchesSegments(Router[i], Q, P)

\* A server whose start failed because it met a command at work comes up again, as
\* does one that is restarted: commands leave no file behind that stops it, unless
\* one of their writes fails.
UpAgain ==
    (Validate(config) /\ config.sound /\ <>[](damaged = {})) => []<>Up
=============================================================================
