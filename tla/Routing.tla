------------------------------- MODULE Routing -------------------------------
(***************************************************************************)
(* Routes and how they come about: the configuration and its validation    *)
(* (crates/zaphyl-config/src/lib.rs), sites and the routes they stand for  *)
(* (crates/zaphyl-config/src/sites.rs), build_router() of                  *)
(* crates/zaphyl/src/main.rs, and the matching of requests and rewriting   *)
(* of paths (crates/zaphyl-core/src/router.rs).  No state: operators only. *)
(* A path is a sequence of characters; names of hosts stand for what       *)
(* eq_ignore_ascii_case() takes for equal.                                 *)
(***************************************************************************)
EXTENDS Naturals, FiniteSets, SequencesExt

CONSTANT None   \* Option::None

-----------------------------------------------------------------------------
(* router.rs                                                               *)

TrimEnd(s) ==
    SubSeq(s, 1, Max({0} \cup {i \in DOMAIN s : s[i] # "/"}))

\* Mutant of PathUnderPrefix: any path that begins with the prefix.
PathUnderPrefixText(path, prefix) == IsPrefix(TrimEnd(prefix), path)

PathUnderPrefix(path, prefix) ==
    LET p == TrimEnd(prefix)
        rest == SubSeq(path, Len(p) + 1, Len(path))
    IN \/ p = <<>>
       \/ IsPrefix(p, path) /\ (rest = <<>> \/ Head(rest) = "/")

HostMatches(expected, host) == expected = None \/ expected = host

Matches(route, host, path) ==
    /\ HostMatches(route.host, host)
    /\ route.path = None \/ PathUnderPrefix(path, route.path)

\* The position of the first route that matches, or 0.
MatchRoute(routes, host, path) ==
    LET hits == {i \in DOMAIN routes : Matches(routes[i], host, path)}
    IN IF hits = {} THEN 0 ELSE Min(hits)

\* The path that is sent upstream for a request that matched the route.
RewritePath(route, path) ==
    LET p == TrimEnd(route.path)
        rest == IF IsPrefix(p, path) THEN SubSeq(path, Len(p) + 1, Len(path)) ELSE path
    IN IF ~route.strip_prefix \/ route.path = None THEN path
       ELSE IF rest = <<>> THEN <<"/">> ELSE rest

-----------------------------------------------------------------------------
(* Config::validate().  A configuration is its routes and the facts that   *)
(* are tested: which sections there are, and which values are blank or 0.  *)

Sections == {"tls", "acme", "http3", "http"}
Strings == {"cert", "key", "domain", "email"}
Numbers == {"renew_before_days", "check_interval_seconds", "requests_per_second",
            "interval_seconds", "max_request_body_bytes", "upstream_timeout",
            "level", "max_entries", "max_body_bytes"}

\* An upstream is well formed if it is `host:port`.
ValidRoute(route) ==
    /\ (route.upstream # <<>>) # (route.root # None)
    /\ \A i \in DOMAIN route.upstream : route.upstream[i].port
    /\ route.path # None => route.path # <<>> /\ Head(route.path) = "/"
    /\ route.strip_prefix => route.path # None

\* Mutant of Validate: the routes are not looked at.
ValidateSections(config) ==
    /\ config.routes # <<>>
    /\ ~({"tls", "acme"} \subseteq config.sections)
    /\ config.blank = {}
    /\ config.zero = {}

Validate(config) ==
    /\ config.routes # <<>>
    /\ ~({"tls", "acme"} \subseteq config.sections)
    /\ config.blank = {}
    /\ "acme" \in config.sections => config.domains # <<>>
    /\ config.zero = {}
    /\ config.sections \cap {"http3", "http"} # {} =>
          config.sections \cap {"tls", "acme"} # {}
    /\ \A i \in DOMAIN config.routes : ValidRoute(config.routes[i])

-----------------------------------------------------------------------------
(* sites.rs                                                                *)

SiteKind == {"static", "php", "app"}

\* The fields of SiteConfig; addresses are those of applications and of php-fpm.
SiteOf(domains, addresses) ==
    [domain : domains, root : {"root", "public"}, type : SiteKind,
     tls : {"auto", "off"}, app : addresses \cup {None},
     php_fpm : addresses \cup {None}, enabled : BOOLEAN]

\* A text is the function of its keys to their values.  Three keys are required, so
\* an empty text is an error, and the others have defaults; an unknown key is an error.
FromToml(text) ==
    LET Field(k, default) == IF k \in DOMAIN text THEN text[k] ELSE default
        required == {"domain", "root", "type"}
        optional == {"tls", "app", "php_fpm", "enabled"}
    IN IF ~(required \subseteq DOMAIN text /\ DOMAIN text \subseteq required \cup optional)
       THEN None
       ELSE [domain |-> text.domain, root |-> text.root, type |-> text.type,
             tls |-> Field("tls", "auto"), app |-> Field("app", None),
             php_fpm |-> Field("php_fpm", None), enabled |-> Field("enabled", TRUE)]

\* The route of a site, if it has one.
ToRoutes(site) ==
    IF ~site.enabled THEN <<>>
    ELSE << [host |-> site.domain, path |-> None,
             upstream |-> IF site.type = "app" /\ site.app # None
                          THEN << [address |-> site.app, port |-> TRUE] >> ELSE <<>>,
             root |-> site.root, strip_prefix |-> FALSE] >>

\* The domain that needs a certificate, if any.
TlsDomains(site) ==
    IF site.enabled /\ site.tls = "auto" THEN {site.domain} ELSE {}

-----------------------------------------------------------------------------
(* Config::load() after the files are read, and build_router().            *)

\* Mutant of MergedRoutes: the main configuration's routes go first.
MergedRoutesMainFirst(main, site_routes) == main.routes \o site_routes

MergedRoutes(main, site_routes) == site_routes \o main.routes

MergedDomains(main, acme_domains) ==
    IF "acme" \in main.sections THEN Range(main.domains) \cup acme_domains ELSE {}

\* id: the index by which Plugins::chain() finds the route's plugins.
BuildRouter(routes) ==
    [i \in DOMAIN routes |->
       [host |-> routes[i].host, path |-> routes[i].path,
        targets |-> routes[i].upstream, static_dir |-> routes[i].root,
        strip_prefix |-> routes[i].strip_prefix, id |-> i]]

\* How request_filter() and proxy_request() go on with a route: a directory comes
\* before everything else.
Handler(route) ==
    IF route.static_dir # None THEN "static"
    ELSE IF route.targets # <<>> THEN "proxy" ELSE "404"
=============================================================================
