---------------------------- MODULE SitesProofs ----------------------------
(***************************************************************************)
(* Theorems about Sites, for any number of operators, domains, commands,   *)
(* configurations and restarts, with writes that fail at any time.         *)
(***************************************************************************)
EXTENDS Sites, Integers, SequenceTheorems, WellFoundedInduction, TLAPS

-----------------------------------------------------------------------------
(* The invariants.                                                         *)

\* A command that is about to write has the text of the site it was asked for.
Sound(k) ==
    /\ k = [stage |-> k.stage, file |-> k.file, text |-> k.text, wants |-> k.wants]
    /\ k.stage \in {"idle", "open", "write"}
    /\ k.stage = "idle" => k.file = Absent
    /\ k.stage # "idle" =>
          /\ k.file \in Domains
          /\ k.text # Absent
          /\ k.wants \in Site /\ k.wants.domain = k.file
          /\ FromToml(k.text) = k.wants

CommandsSound ==
    /\ command = [o \in Operators |-> command[o]]
    /\ \A o \in Operators : Sound(command[o])

\* File f of domain d is truncated, or reads as s, the site asked for last.
Reads(f, s, d) ==
    \/ f = Empty
    \/ f = Absent /\ s = Absent
    \/ f # Absent /\ FromToml(f) = s /\ s \in Site /\ s.domain = d

FilesRead ==
    /\ files = [d \in Domains |-> files[d]]
    /\ asked \in [Domains -> Seq(Site \cup {Absent})]
    /\ \A d \in Domains : asked[d] # <<>> /\ Reads(files[d], Last(asked[d]), d)

\* Truncated files are in the hands of a command, or known to be damaged.
EmptyKnown ==
    \A d \in Domains :
       files[d] = Empty =>
          d \in damaged \/ \E o \in Operators : command[o].stage = "write" /\ command[o].file = d

\* What the server has read was asked for.
SitesAsked ==
    \A i \in DOMAIN server.sites :
       server.sites[i] \in Range(asked[server.sites[i].domain])

-----------------------------------------------------------------------------
(* Lemmas about the operators.                                             *)

\* A nonempty set of natural numbers has a least element, which Min() finds.
LEMMA MinOf ==
    ASSUME NEW S \in SUBSET Nat, S # {}
    PROVE  Min(S) \in S /\ \A y \in S : Min(S) <= y
<1>. DEFINE R == {ss \in Nat \X Nat : ss[1] < ss[2]}
<1>1. IsWellFoundedOn(R, Nat)
  BY NatLessThanWellFounded DEF OpToRel
<1>2. PICK x \in S : \A y \in S : ~(<<y, x>> \in R)
  BY <1>1, WFMin
<1>3. ASSUME NEW y \in S PROVE x <= y
  <2>1. x \in Nat /\ y \in Nat /\ <<y, x>> \in Nat \X Nat
    OBVIOUS
  <2>2. <<y, x>>[1] = y /\ <<y, x>>[2] = x
    OBVIOUS
  <2>3. y < x => <<y, x>> \in R
    BY <2>1, <2>2
  <2>. QED  BY <1>2, <2>1, <2>3
<1>. QED  BY <1>2, <1>3 DEF Min

\* A site that is enabled or disabled is a site that differs in nothing else.
LEMMA SetEnabled ==
    ASSUME NEW s \in Site, NEW e \in BOOLEAN
    PROVE  /\ [s EXCEPT !.enabled = e] \in Site
           /\ [s EXCEPT !.enabled = e].domain = s.domain
           /\ [s EXCEPT !.enabled = e] =
                 [domain |-> s.domain, root |-> s.root, type |-> s.type, tls |-> s.tls,
                  app |-> s.app, php_fpm |-> s.php_fpm, enabled |-> e]
  BY DEF Site, SiteOf

\* from_toml() reads what write_site_toml() wrote, as an enabled site.
LEMMA WrittenReads ==
    ASSUME NEW s \in Site, s.enabled = TRUE
    PROVE  FromToml(WriteSiteToml(s)) = s
<1>. DEFINE t == WriteSiteToml(s)
<1>1. DOMAIN t = {"domain", "root", "type", "tls"}
                   \cup {k \in {"app", "php_fpm"} : s[k] # None}
  BY DEF WriteSiteToml, Restrict
<1>2. \A k \in DOMAIN t : t[k] = s[k]
  BY DEF WriteSiteToml, Restrict
<1>. HIDE DEF t
<1>3. FromToml(t) = [domain |-> s.domain, root |-> s.root, type |-> s.type,
                     tls |-> s.tls, app |-> s.app, php_fpm |-> s.php_fpm,
                     enabled |-> s.enabled]
  BY <1>1, <1>2 DEF FromToml
<1>4. s = [domain |-> s.domain, root |-> s.root, type |-> s.type, tls |-> s.tls,
           app |-> s.app, php_fpm |-> s.php_fpm, enabled |-> s.enabled]
  BY DEF Site, SiteOf
<1>. QED  BY <1>3, <1>4 DEF t

\* With the line for `enabled` it reads as the site, enabled or disabled.
LEMMA EnabledReads ==
    ASSUME NEW s \in Site, NEW e \in BOOLEAN
    PROVE  FromToml(WithEnabled(s, e)) = [s EXCEPT !.enabled = e]
  BY DEF Site, SiteOf, WithEnabled, WriteSiteToml, Restrict, FromToml

\* A truncated file does not parse, and is no missing one.
LEMMA EmptyIsNone == FromToml(Empty) = None
  BY DEF Empty, FromToml

\* `site add` makes a site of the domain, enabled.
LEMMA NewSiteIs ==
    ASSUME NEW d \in Domains, NEW f \in Options
    PROVE  NewSite(d, f) \in Site /\ NewSite(d, f).domain = d /\ NewSite(d, f).enabled = TRUE
  BY SitesConstants DEF NewSite, DetectKind, Site, SiteOf, SiteKind

\* The last element of a sequence that grew is the new one, and no element is lost.
LEMMA AppendLast ==
    ASSUME NEW S, NEW q \in Seq(S), NEW x \in S
    PROVE  /\ Append(q, x) \in Seq(S) /\ Append(q, x) # <<>>
           /\ Last(Append(q, x)) = x
           /\ Range(q) \subseteq Range(Append(q, x))
  BY AppendProperties DEF Last, Range

\* The last element of a sequence is one of its elements.
LEMMA LastIn ==
    ASSUME NEW S, NEW q \in Seq(S), q # <<>>
    PROVE  Last(q) \in Range(q)
  BY EmptySeq DEF Last, Range

\* A concatenation is the one sequence and then the other.
LEMMA ConcatIs ==
    ASSUME NEW S, NEW u \in Seq(S), NEW v \in Seq(S)
    PROVE  /\ u \o v \in Seq(S)
           /\ DOMAIN (u \o v) = 1 .. Len(u) + Len(v)
           /\ \A i \in 1 .. Len(u) : (u \o v)[i] = u[i]
           /\ \A i \in 1 .. Len(v) : (u \o v)[Len(u) + i] = v[i]
  OBVIOUS

\* No operator runs a command at first.
LEMMA IdleIs == Sound(Idle) /\ Idle.stage = "idle" /\ Idle.file = Absent
  BY DEF Sound, Idle

-----------------------------------------------------------------------------
(* Commands and files.                                                     *)

\* The steps of the server leave commands and files alone.
ServerOnly == UNCHANGED <<config, files, command, count, asked, damaged>>

\* A new command of one operator, if sound, leaves all of them sound and the others
\* as they were.
LEMMA CommandKept ==
    ASSUME CommandsSound, NEW o \in Operators, NEW k, Sound(k),
           command' = [command EXCEPT ![o] = k]
    PROVE  CommandsSound' /\ command'[o] = k
           /\ \A p \in Operators \ {o} : command'[p] = command[p]
<1>1. command'[o] = k /\ \A p \in Operators \ {o} : command'[p] = command[p]
  BY DEF CommandsSound
<1>2. \A p \in Operators : Sound(command'[p])
  BY <1>1 DEF CommandsSound
<1>3. command' = [p \in Operators |-> command'[p]]
  BY DEF CommandsSound
<1>. QED  BY <1>1, <1>2, <1>3 DEF CommandsSound

\* `site add` plans to write a text that reads as the new site, or does nothing.
LEMMA AddBegins ==
    ASSUME NEW o \in Operators, NEW d \in Domains, NEW f \in Options, SiteAdd(o, d, f)
    PROVE  \/ command' = command
           \/ \E k : Sound(k) /\ k.stage = "open" /\ command' = [command EXCEPT ![o] = k]
<1>. DEFINE k == [stage |-> "open", file |-> d, text |-> WriteSiteToml(NewSite(d, f)),
                  wants |-> NewSite(d, f)]
<1>1. NewSite(d, f) \in Site /\ NewSite(d, f).domain = d
      /\ FromToml(WriteSiteToml(NewSite(d, f))) = NewSite(d, f)
      /\ WriteSiteToml(NewSite(d, f)) # Absent
  BY NewSiteIs, WrittenReads, AbsentIsNoText
<1>2. Sound(k) /\ k.stage = "open"
  BY <1>1 DEF Sound
<1>3. command' = command \/ command' = [command EXCEPT ![o] = k]
  BY DEF SiteAdd
<1>. QED  BY <1>2, <1>3

\* enable and disable plan to write a text that reads as the site asked for last with
\* the flag set or cleared, or do nothing.
LEMMA SetEnabledBegins ==
    ASSUME FilesRead, NEW o \in Operators, NEW d \in Domains, NEW e \in BOOLEAN,
           SiteSetEnabled(o, d, e)
    PROVE  \/ command' = command
           \/ \E k : Sound(k) /\ k.stage = "open" /\ command' = [command EXCEPT ![o] = k]
<1>1. CASE files[d] = Absent \/ FromToml(files[d]) = None
  BY <1>1 DEF SiteSetEnabled
<1>2. CASE ~(files[d] = Absent \/ FromToml(files[d]) = None)
  <2>. DEFINE s == Last(asked[d])
              k == [stage |-> "open", file |-> d, text |-> WithEnabled(FromToml(files[d]), e),
                    wants |-> [s EXCEPT !.enabled = e]]
  <2>1. FromToml(files[d]) = s /\ s \in Site /\ s.domain = d
    BY <1>2, EmptyIsNone DEF FilesRead, Reads
  <2>2. command' = [command EXCEPT ![o] = k]
    BY <1>2 DEF SiteSetEnabled
  <2>. HIDE DEF s
  <2>3. /\ [s EXCEPT !.enabled = e] \in Site
        /\ [s EXCEPT !.enabled = e].domain = d
        /\ FromToml(WithEnabled(s, e)) = [s EXCEPT !.enabled = e]
        /\ WithEnabled(s, e) # Absent
    BY <2>1, SetEnabled, EnabledReads, AbsentIsNoText
  <2>4. Sound(k) /\ k.stage = "open"
    BY <2>1, <2>3 DEF Sound
  <2>. QED  BY <2>2, <2>4
<1>. QED  BY <1>1, <1>2

\* A command that begins keeps the invariant.
LEMMA BeginKeeps ==
    ASSUME CommandsSound, FilesRead, EmptyKnown, NEW o \in Operators,
           command[o].stage = "idle", UNCHANGED <<files, asked, damaged>>,
           \/ command' = command
           \/ \E k : Sound(k) /\ k.stage = "open" /\ command' = [command EXCEPT ![o] = k]
    PROVE  CommandsSound' /\ FilesRead' /\ EmptyKnown'
<1>1. FilesRead'
  BY DEF FilesRead
<1>2. CASE command' = command
  BY <1>1, <1>2 DEF CommandsSound, EmptyKnown
<1>3. ASSUME NEW k, Sound(k), k.stage = "open", command' = [command EXCEPT ![o] = k]
      PROVE  CommandsSound' /\ EmptyKnown'
  <2>1. CommandsSound' /\ \A p \in Operators \ {o} : command'[p] = command[p]
    BY <1>3, CommandKept
  <2>. QED  BY <2>1 DEF EmptyKnown
<1>. QED  BY <1>1, <1>2, <1>3

\* So does the end of `site remove`, which runs at once.
LEMMA RemoveKeeps ==
    ASSUME CommandsSound, FilesRead, EmptyKnown, NEW o \in Operators, NEW d \in Domains,
           SiteRemove(o, d)
    PROVE  CommandsSound' /\ FilesRead' /\ EmptyKnown'
<1>1. /\ files' = [files EXCEPT ![d] = Absent]
      /\ asked' = [asked EXCEPT ![d] = Append(asked[d], Absent)]
      /\ damaged' = damaged \ {d} /\ command' = command
  BY DEF SiteRemove
<1>2. CommandsSound'
  BY <1>1 DEF CommandsSound
<1>3. FilesRead'
  <2>1. /\ Append(asked[d], Absent) \in Seq(Site \cup {Absent})
        /\ Append(asked[d], Absent) # <<>> /\ Last(Append(asked[d], Absent)) = Absent
    BY AppendLast DEF FilesRead
  <2>2. files'[d] = Absent /\ \A c \in Domains \ {d} : files'[c] = files[c]
    BY <1>1 DEF FilesRead
  <2>3. asked'[d] = Append(asked[d], Absent) /\ \A c \in Domains \ {d} : asked'[c] = asked[c]
    BY <1>1 DEF FilesRead
  <2>4. files' = [c \in Domains |-> files'[c]]
    BY <1>1 DEF FilesRead
  <2>5. asked' \in [Domains -> Seq(Site \cup {Absent})]
    BY <1>1, <2>1 DEF FilesRead
  <2>6. \A c \in Domains : asked'[c] # <<>> /\ Reads(files'[c], Last(asked'[c]), c)
    BY <2>1, <2>2, <2>3 DEF FilesRead, Reads
  <2>. QED  BY <2>4, <2>5, <2>6 DEF FilesRead
<1>4. EmptyKnown'
  <2>1. ASSUME NEW c \in Domains, files'[c] = Empty
        PROVE  \/ c \in damaged'
               \/ \E p \in Operators : command'[p].stage = "write" /\ command'[p].file = c
    <3>1. CASE c = d
      <4>1. Absent = Empty
        BY <1>1, <2>1, <3>1 DEF FilesRead
      <4>. QED  BY <4>1, AbsentIsNoText
    <3>2. CASE c # d
      BY <1>1, <2>1, <3>2 DEF FilesRead, EmptyKnown
    <3>. QED  BY <3>1, <3>2
  <2>. QED  BY <2>1 DEF EmptyKnown
<1>. QED  BY <1>2, <1>3, <1>4

\* A file that fs::write() has truncated is one that its command is about to write.
LEMMA OpenKeeps ==
    ASSUME CommandsSound, FilesRead, EmptyKnown, NEW o \in Operators, OpenFile(o)
    PROVE  CommandsSound' /\ FilesRead' /\ EmptyKnown'
<1>. DEFINE d == command[o].file
            k == [command[o] EXCEPT !.stage = "write"]
<1>1. /\ files' = [files EXCEPT ![d] = Empty] /\ UNCHANGED <<asked, damaged>>
      /\ command' = [command EXCEPT ![o] = k] /\ command[o].stage = "open"
  BY DEF OpenFile, CommandsSound
<1>2. Sound(command[o]) /\ d \in Domains
  BY <1>1 DEF CommandsSound, Sound
<1>3. /\ k = [stage |-> "write", file |-> command[o].file, text |-> command[o].text,
               wants |-> command[o].wants]
      /\ k.stage = "write" /\ k.file = d
      /\ k.text = command[o].text /\ k.wants = command[o].wants
  BY <1>2 DEF Sound
<1>4. Sound(k)
  BY <1>1, <1>2, <1>3 DEF Sound
<1>. HIDE DEF k
<1>5. CommandsSound' /\ command'[o] = k
      /\ \A p \in Operators \ {o} : command'[p] = command[p]
  BY <1>1, <1>4, CommandKept
<1>6. /\ files'[d] = Empty /\ \A c \in Domains \ {d} : files'[c] = files[c]
      /\ files' = [c \in Domains |-> files'[c]]
  BY <1>1, <1>2 DEF FilesRead
<1>7. FilesRead'
  BY <1>1, <1>6 DEF FilesRead, Reads
<1>8. EmptyKnown'
  <2>1. ASSUME NEW c \in Domains, files'[c] = Empty
        PROVE  \/ c \in damaged'
               \/ \E p \in Operators : command'[p].stage = "write" /\ command'[p].file = c
    <3>1. CASE c = d
      BY <1>3, <1>5, <3>1
    <3>2. CASE c # d
      <4>1. files[c] = Empty
        BY <1>6, <2>1, <3>2
      <4>2. CASE c \in damaged
        BY <1>1, <4>2
      <4>3. ASSUME NEW p \in Operators, command[p].stage = "write", command[p].file = c
            PROVE  command'[p].stage = "write" /\ command'[p].file = c
        BY <1>1, <1>5, <4>3
      <4>. QED  BY <4>1, <4>2, <4>3 DEF EmptyKnown
    <3>. QED  BY <3>1, <3>2
  <2>. QED  BY <2>1 DEF EmptyKnown
<1>. QED  BY <1>5, <1>7, <1>8

\* A command that is over explains no other file than its own.
LEMMA OthersExplain ==
    ASSUME CommandsSound, NEW o \in Operators, command' = [command EXCEPT ![o] = Idle],
           NEW c, c # command[o].file,
           NEW p \in Operators, command[p].stage = "write", command[p].file = c
    PROVE  command'[p].stage = "write" /\ command'[p].file = c
  BY DEF CommandsSound

\* A file that was written reads as the site its command was asked for.
LEMMA WriteKeeps ==
    ASSUME CommandsSound, FilesRead, EmptyKnown, NEW o \in Operators, WriteFile(o)
    PROVE  CommandsSound' /\ FilesRead' /\ EmptyKnown'
<1>. DEFINE d == command[o].file
            text == command[o].text
            s == command[o].wants
<1>1. /\ files' = [files EXCEPT ![d] = text]
      /\ asked' = [asked EXCEPT ![d] = Append(asked[d], s)]
      /\ damaged' = damaged \ {d}
      /\ command' = [command EXCEPT ![o] = Idle] /\ command[o].stage = "write"
  BY DEF WriteFile
<1>2. /\ d \in Domains /\ text # Absent /\ s \in Site /\ s.domain = d
      /\ FromToml(text) = s
  BY <1>1 DEF CommandsSound, Sound
<1>3. CommandsSound'
  BY <1>1, CommandKept, IdleIs
<1>. HIDE DEF text, s
<1>4. /\ files'[d] = text /\ \A c \in Domains \ {d} : files'[c] = files[c]
      /\ files' = [c \in Domains |-> files'[c]]
  BY <1>1, <1>2 DEF FilesRead
<1>5. /\ Append(asked[d], s) \in Seq(Site \cup {Absent})
      /\ Append(asked[d], s) # <<>> /\ Last(Append(asked[d], s)) = s
  BY <1>2, AppendLast DEF FilesRead
<1>6. asked'[d] = Append(asked[d], s) /\ \A c \in Domains \ {d} : asked'[c] = asked[c]
  BY <1>1, <1>2 DEF FilesRead
<1>7. asked' \in [Domains -> Seq(Site \cup {Absent})]
  BY <1>1, <1>5 DEF FilesRead
<1>8. \A c \in Domains : asked'[c] # <<>> /\ Reads(files'[c], Last(asked'[c]), c)
  <2>1. asked'[d] # <<>> /\ Reads(files'[d], Last(asked'[d]), d)
    BY <1>2, <1>4, <1>5, <1>6 DEF Reads
  <2>2. \A c \in Domains \ {d} : asked'[c] # <<>> /\ Reads(files'[c], Last(asked'[c]), c)
    BY <1>4, <1>6 DEF FilesRead
  <2>. QED  BY <2>1, <2>2
<1>9. FilesRead'
  BY <1>4, <1>7, <1>8 DEF FilesRead
<1>10. EmptyKnown'
  <2>1. ASSUME NEW c \in Domains, files'[c] = Empty
        PROVE  \/ c \in damaged'
               \/ \E p \in Operators : command'[p].stage = "write" /\ command'[p].file = c
    <3>1. c # d
      BY <1>2, <1>4, <2>1, EmptyIsNone, SitesConstants
    <3>2. files[c] = Empty
      BY <1>4, <2>1, <3>1
    <3>3. CASE c \in damaged
      BY <1>1, <3>1, <3>3
    <3>4. ASSUME NEW p \in Operators, command[p].stage = "write", command[p].file = c
          PROVE  command'[p].stage = "write" /\ command'[p].file = c
      BY <1>1, <3>1, <3>4, OthersExplain
    <3>. QED  BY <3>2, <3>3, <3>4 DEF EmptyKnown
  <2>. QED  BY <2>1 DEF EmptyKnown
<1>. QED  BY <1>3, <1>9, <1>10

\* A write that fails is remembered.
LEMMA FailKeeps ==
    ASSUME CommandsSound, FilesRead, EmptyKnown, NEW o \in Operators, WriteFails(o)
    PROVE  CommandsSound' /\ FilesRead' /\ EmptyKnown'
<1>1. /\ UNCHANGED <<files, asked>> /\ damaged' = damaged \cup {command[o].file}
      /\ command' = [command EXCEPT ![o] = Idle]
  BY DEF WriteFails
<1>2. CommandsSound'
  BY <1>1, CommandKept, IdleIs
<1>3. FilesRead'
  BY <1>1 DEF FilesRead
<1>4. EmptyKnown'
  <2>1. ASSUME NEW c \in Domains, files'[c] = Empty
        PROVE  \/ c \in damaged'
               \/ \E p \in Operators : command'[p].stage = "write" /\ command'[p].file = c
    <3>1. CASE c \in damaged \cup {command[o].file}
      BY <1>1, <3>1
    <3>2. CASE c \notin damaged \cup {command[o].file}
      BY <1>1, <2>1, <3>2, OthersExplain DEF EmptyKnown
    <3>. QED  BY <3>1, <3>2
  <2>. QED  BY <2>1 DEF EmptyKnown
<1>. QED  BY <1>2, <1>3, <1>4

-----------------------------------------------------------------------------
(* The server.                                                             *)

\* Route r is that of an enabled site among ss.
HasSite(r, ss) ==
    \E j \in DOMAIN ss :
       ss[j].enabled /\ r.host = ss[j].domain /\ r.path = None /\ r.root = ss[j].root

\* Site s has a route among rs.
HasRoute(s, rs) == \E i \in DOMAIN rs : rs[i].host = s.domain /\ rs[i].path = None

\* The routes rs are those of the enabled sites among ss.
RoutesOf(rs, ss) ==
    /\ rs \in Seq(Routes)
    /\ \A i \in DOMAIN rs : HasSite(rs[i], ss)
    /\ \A j \in DOMAIN ss : ss[j].enabled => HasRoute(ss[j], rs)

\* The domains of the enabled sites among ss that ask for certificates.
AutoDomains(ss) ==
    {ss[i].domain : i \in {j \in DOMAIN ss : ss[j].enabled /\ ss[j].tls = "auto"}}

\* A server past validate() has the routes and domains of the sites it has read, and
\* then those of the main configuration behind them.
ServerInv ==
    /\ server.stage \in {"loading", "loaded", "up"} => Validate(config)
    /\ server.stage = "loading" =>
          RoutesOf(server.routes, server.sites) /\ server.domains = AutoDomains(server.sites)
    /\ server.stage \in {"loaded", "up"} =>
          /\ \E rs : RoutesOf(rs, server.sites) /\ server.routes = MergedRoutes(config, rs)
          /\ server.domains = MergedDomains(config, AutoDomains(server.sites))

\* A process that has read nothing has its types.
LEMMA FreshTypes ==
    ASSUME NEW stage \in {"down", "loading", "failed"}, NEW P \in SUBSET Domains
    PROVE  /\ Fresh(stage, P) \in Server
           /\ Fresh(stage, P).stage = stage
           /\ Fresh(stage, P).sites = <<>>
           /\ Fresh(stage, P).routes = <<>>
           /\ Fresh(stage, P).domains = {}
<1>1. <<>> \in Seq(Site) /\ <<>> \in Seq(Routes)
  OBVIOUS
<1>. QED  BY <1>1 DEF Fresh, Server

\* An enabled site has one route, for its domain, with its directory.
LEMMA RouteOf ==
    ASSUME NEW s \in Site
    PROVE  /\ ToRoutes(s) \in Seq(Routes)
           /\ ~s.enabled => ToRoutes(s) = <<>>
           /\ s.enabled => \E r \in Routes : /\ ToRoutes(s) = <<r>>
                                           /\ r.host = s.domain /\ r.path = None
                                           /\ r.root = s.root
<1>1. CASE ~s.enabled
  BY <1>1 DEF ToRoutes
<1>2. CASE s.enabled
  <2>. DEFINE r == [host |-> s.domain, path |-> None,
                    upstream |-> IF s.type = "app" /\ s.app # None
                                 THEN << [address |-> s.app, port |-> TRUE] >> ELSE <<>>,
                    root |-> s.root, strip_prefix |-> FALSE]
  <2>1. ToRoutes(s) = <<r>>
    BY <1>2 DEF ToRoutes
  <2>2. r.host = s.domain /\ r.path = None /\ r.root = s.root
    OBVIOUS
  <2>. HIDE DEF r
  <2>3. r \in Range(ToRoutes(s))
    BY <2>1 DEF Range
  <2>4. r \in Routes
    BY <2>3 DEF Routes
  <2>. QED  BY <1>2, <2>1, <2>2, <2>4
<1>. QED  BY <1>1, <1>2

\* The loop of Config::load() pushes the route of each site it reads.
LEMMA PushRoute ==
    ASSUME NEW rs, NEW ss \in Seq(Site), NEW s \in Site, RoutesOf(rs, ss)
    PROVE  /\ RoutesOf(rs \o ToRoutes(s), Append(ss, s))
           /\ AutoDomains(Append(ss, s)) = AutoDomains(ss) \cup TlsDomains(s)
<1>. DEFINE q == rs \o ToRoutes(s)
            us == Append(ss, s)
<1>1. /\ us \in Seq(Site) /\ Len(us) = Len(ss) + 1 /\ DOMAIN us = 1 .. Len(ss) + 1
      /\ Len(ss) \in Nat /\ DOMAIN ss = 1 .. Len(ss)
      /\ us[Len(ss) + 1] = s /\ \A j \in 1 .. Len(ss) : us[j] = ss[j]
  BY AppendProperties, LenProperties
<1>2. rs \in Seq(Routes) /\ Len(rs) \in Nat /\ DOMAIN rs = 1 .. Len(rs)
  BY LenProperties DEF RoutesOf
<1>. HIDE DEF us
<1>3. RoutesOf(q, us)
  <2>1. ASSUME NEW r, HasSite(r, ss) PROVE HasSite(r, us)
    BY <1>1, <2>1 DEF HasSite
  <2>2. CASE ~s.enabled
    <3>1. q = rs \o <<>>
      BY <2>2, RouteOf
    <3>2. rs \o <<>> = rs
      BY <1>2, ConcatEmptySeq
    <3>. HIDE DEF q
    <3>3. \A i \in DOMAIN rs : HasSite(rs[i], us)
      BY <2>1 DEF RoutesOf
    <3>4. \A j \in DOMAIN us : us[j].enabled => HasRoute(us[j], rs)
      BY <1>1, <2>2 DEF RoutesOf
    <3>5. RoutesOf(rs, us)
      BY <1>2, <3>3, <3>4 DEF RoutesOf
    <3>. QED  BY <3>1, <3>2, <3>5
  <2>3. CASE s.enabled
    <3>. DEFINE n == Len(rs)
    <3>1. PICK r \in Routes : ToRoutes(s) = <<r>> /\ r.host = s.domain /\ r.path = None
                              /\ r.root = s.root
      BY <2>3, RouteOf
    <3>2. q = Append(rs, r)
      BY <1>2, <3>1, AppendIsConcat
    <3>. HIDE DEF q
    <3>3. /\ q \in Seq(Routes) /\ DOMAIN q = 1 .. n + 1
          /\ \A i \in 1 .. n : q[i] = rs[i]
          /\ q[n + 1] = r
      BY <1>2, <3>2, AppendProperties
    <3>4. HasSite(q[n + 1], us) /\ HasRoute(s, q)
      <4>1. Len(ss) + 1 \in DOMAIN us /\ us[Len(ss) + 1] = s /\ n + 1 \in DOMAIN q
        BY <1>1, <1>2, <3>3
      <4>2. HasSite(q[n + 1], us)
        BY <2>3, <3>1, <3>3, <4>1 DEF HasSite
      <4>3. HasRoute(s, q)
        BY <3>1, <3>3, <4>1 DEF HasRoute
      <4>. QED  BY <4>2, <4>3
    <3>5. ASSUME NEW x, HasRoute(x, rs) PROVE HasRoute(x, q)
      BY <1>2, <3>3, <3>5 DEF HasRoute
    <3>6. ASSUME NEW i \in DOMAIN q PROVE HasSite(q[i], us)
      <4>1. CASE i = n + 1
        BY <3>4, <4>1
      <4>2. CASE i \in 1 .. n
        <5>1. q[i] = rs[i] /\ i \in DOMAIN rs
          BY <1>2, <3>3, <4>2
        <5>. QED  BY <2>1, <5>1 DEF RoutesOf
      <4>. QED  BY <1>2, <3>3, <4>1, <4>2
    <3>7. ASSUME NEW j \in DOMAIN us, us[j].enabled PROVE HasRoute(us[j], q)
      <4>1. CASE j = Len(ss) + 1
        BY <1>1, <3>4, <4>1
      <4>2. CASE j \in 1 .. Len(ss)
        <5>1. us[j] = ss[j] /\ j \in DOMAIN ss
          BY <1>1, <4>2
        <5>. QED  BY <3>5, <3>7, <5>1 DEF RoutesOf
      <4>. QED  BY <1>1, <4>1, <4>2
    <3>. QED  BY <3>3, <3>6, <3>7 DEF RoutesOf
  <2>. QED  BY <2>2, <2>3
<1>4. AutoDomains(us) = AutoDomains(ss) \cup TlsDomains(s)
  <2>1. ASSUME NEW x \in AutoDomains(us) PROVE x \in AutoDomains(ss) \cup TlsDomains(s)
    BY <1>1 DEF AutoDomains, TlsDomains
  <2>2. ASSUME NEW x \in AutoDomains(ss) PROVE x \in AutoDomains(us)
    BY <1>1 DEF AutoDomains
  <2>3. ASSUME NEW x \in TlsDomains(s) PROVE x \in AutoDomains(us)
    BY <1>1 DEF AutoDomains, TlsDomains
  <2>. QED  BY <2>1, <2>2, <2>3
<1>. QED  BY <1>3, <1>4 DEF us

\* A process that has read nothing has the routes of no site.
LEMMA FreshKeeps ==
    ASSUME ServerOnly, NEW stage \in {"down", "loading", "failed"}, NEW P \in SUBSET Domains,
           server' = Fresh(stage, P), stage = "loading" => Validate(config)
    PROVE  server' \in Server /\ ServerInv' /\ SitesAsked'
<1>1. /\ server' \in Server /\ server'.stage = stage
      /\ server'.sites = <<>> /\ server'.routes = <<>> /\ server'.domains = {}
  BY FreshTypes
<1>2. DOMAIN <<>> = {} /\ <<>> \in Seq(Routes)
  OBVIOUS
<1>3. RoutesOf(<<>>, <<>>) /\ AutoDomains(<<>>) = {}
  BY <1>2 DEF RoutesOf, AutoDomains
<1>4. config' = config
  BY DEF ServerOnly
<1>5. ServerInv'
  BY <1>1, <1>3, <1>4 DEF ServerInv
<1>6. SitesAsked'
  BY <1>1, <1>2 DEF SitesAsked
<1>. QED  BY <1>1, <1>5, <1>6

\* What is read of a site file was asked for, and its route is pushed.
LEMMA ReadKeeps ==
    ASSUME server \in Server, ServerInv, SitesAsked, FilesRead, ReadSite
    PROVE  server' \in Server /\ ServerInv' /\ SitesAsked'
<1>1. server.stage = "loading" /\ ServerOnly
  BY DEF ReadSite, ServerOnly
<1>2. PICK i \in DOMAIN Sorted :
         LET text == files[Sorted[i]]
             site == FromToml(text)
         IN server' = IF text = Absent \/ site = None THEN Failed
                      ELSE [server EXCEPT !.pending = @ \ {Sorted[i]},
                               !.sites = Append(@, site),
                               !.routes = @ \o ToRoutes(site),
                               !.domains = @ \cup TlsDomains(site)]
  BY DEF ReadSite
<1>. DEFINE d == Sorted[i]
            s == FromToml(files[d])
<1>3. d \in Domains
  BY DEF Domains, Range
<1>4. CASE files[d] = Absent \/ s = None
  <2>1. server' = Fresh("failed", {})
    BY <1>2, <1>4 DEF Failed
  <2>. QED  BY <1>1, <2>1, FreshKeeps
<1>5. CASE ~(files[d] = Absent \/ s = None)
  <2>1. s = Last(asked[d]) /\ s \in Site /\ s.domain = d
    BY <1>3, <1>5, EmptyIsNone DEF FilesRead, Reads
  <2>2. server' = [server EXCEPT !.pending = @ \ {d}, !.sites = Append(@, s),
                                 !.routes = @ \o ToRoutes(s),
                                 !.domains = @ \cup TlsDomains(s)]
    BY <1>2, <1>5
  <2>3. s \in Range(asked[d])
    BY <1>3, <2>1, LastIn DEF FilesRead
  <2>. HIDE DEF s, d
  <2>4. /\ server.sites \in Seq(Site) /\ server.routes \in Seq(Routes)
        /\ server.pending \in SUBSET Domains /\ server.domains \in SUBSET AllDomains
    BY DEF Server
  <2>5. /\ server'.stage = "loading"
        /\ server'.sites = Append(server.sites, s)
        /\ server'.routes = server.routes \o ToRoutes(s)
        /\ server'.domains = server.domains \cup TlsDomains(s)
        /\ server'.pending = server.pending \ {d}
        /\ server' = [stage |-> server'.stage, pending |-> server'.pending,
                       sites |-> server'.sites, routes |-> server'.routes,
                       domains |-> server'.domains]
    BY <1>1, <2>2 DEF Server
  <2>6. RoutesOf(server.routes, server.sites) /\ server.domains = AutoDomains(server.sites)
    BY <1>1 DEF ServerInv
  <2>7. RoutesOf(server'.routes, server'.sites) /\ server'.domains = AutoDomains(server'.sites)
    BY <2>1, <2>4, <2>5, <2>6, PushRoute
  <2>8. server' \in Server
    <3>1. server'.sites \in Seq(Site)
      BY <2>1, <2>4, <2>5, AppendProperties
    <3>2. server'.routes \in Seq(Routes)
      BY <2>7 DEF RoutesOf
    <3>3. TlsDomains(s) \subseteq AllDomains
      BY <1>3, <2>1 DEF TlsDomains, AllDomains
    <3>4. server'.pending \in SUBSET Domains /\ server'.domains \in SUBSET AllDomains
      BY <2>4, <2>5, <3>3
    <3>. HIDE DEF d
    <3>. QED  BY <2>5, <3>1, <3>2, <3>4 DEF Server
  <2>9. ServerInv'
    BY <1>1, <2>5, <2>7 DEF ServerInv, ServerOnly
  <2>10. SitesAsked'
    <3>1. asked' = asked
      BY <1>1 DEF ServerOnly
    <3>2. ASSUME NEW j \in DOMAIN server'.sites
          PROVE  server'.sites[j] \in Range(asked[server'.sites[j].domain])
      <4>1. CASE j = Len(server.sites) + 1
        <5>1. server'.sites[j] = s
          BY <2>1, <2>4, <2>5, <4>1, AppendProperties
        <5>. QED  BY <2>1, <2>3, <5>1
      <4>2. CASE j # Len(server.sites) + 1
        <5>1. j \in DOMAIN server.sites /\ server'.sites[j] = server.sites[j]
          BY <2>1, <2>4, <2>5, <3>2, <4>2, AppendProperties
        <5>. QED  BY <5>1 DEF SitesAsked
      <4>. QED  BY <4>1, <4>2
    <3>. QED  BY <3>1, <3>2 DEF SitesAsked
  <2>. QED  BY <2>8, <2>9, <2>10
<1>. QED  BY <1>4, <1>5

\* The routes of a configuration are a sequence of routes.
LEMMA ConfigRoutes ==
    ASSUME config \in Configs
    PROVE  config.routes \in Seq(Routes)
<1>1. Range(config.routes) \subseteq Routes
  BY Zenon DEF Routes
<1>2. config.routes \in Seq(Range(config.routes))
  BY SitesConstants
<1>. QED  BY <1>1, <1>2, SeqMonotonic, Zenon

\* The routes of the main configuration go behind those of the sites.
LEMMA LoadedKeeps ==
    ASSUME server \in Server, config \in Configs, ServerInv, SitesAsked, Loaded
    PROVE  server' \in Server /\ ServerInv' /\ SitesAsked'
<1>1. /\ server.stage = "loading" /\ ServerOnly
      /\ server' = [server EXCEPT !.stage = "loaded",
                       !.routes = MergedRoutes(config, server.routes),
                       !.domains = MergedDomains(config, server.domains)]
  BY DEF Loaded, ServerOnly
<1>2. RoutesOf(server.routes, server.sites) /\ server.domains = AutoDomains(server.sites)
      /\ Validate(config)
  BY <1>1 DEF ServerInv
<1>3. MergedRoutes(config, server.routes) \in Seq(Routes)
  <2>2. config.routes \in Seq(Routes)
    BY ConfigRoutes
  <2>3. server.routes \in Seq(Routes)
    BY DEF Server
  <2>. QED  BY <2>2, <2>3 DEF MergedRoutes
<1>4. MergedDomains(config, server.domains) \in SUBSET AllDomains
  BY DEF Server, MergedDomains, AllDomains
<1>5. /\ server' \in Server /\ server'.stage = "loaded" /\ server'.sites = server.sites
      /\ server'.routes = MergedRoutes(config, server.routes)
      /\ server'.domains = MergedDomains(config, server.domains)
  BY <1>1, <1>3, <1>4 DEF Server
<1>6. ServerInv'
  BY <1>1, <1>2, <1>5 DEF ServerInv, ServerOnly
<1>7. SitesAsked'
  BY <1>1, <1>5 DEF SitesAsked, ServerOnly
<1>. QED  BY <1>5, <1>6, <1>7

\* The steps of the server keep its invariant.
LEMMA ServerKeeps ==
    ASSUME server \in Server, config \in Configs, ServerInv, SitesAsked, FilesRead,
           ServerStep \/ Restart
    PROVE  server' \in Server /\ ServerInv' /\ SitesAsked' /\ ServerOnly
<1>1. ServerOnly
  BY DEF ServerStep, Start, ReadSite, Loaded, Assemble, Restart, ServerOnly
<1>2. CASE Start
  <2>. DEFINE P == {d \in Domains : files[d] # Absent}
  <2>1. \/ server' = Fresh("failed", {})
        \/ Validate(config) /\ server' = Fresh("loading", P)
    BY <1>2 DEF Start, Failed
  <2>2. P \in SUBSET Domains
    OBVIOUS
  <2>. HIDE DEF P
  <2>. QED  BY <1>1, <2>1, <2>2, FreshKeeps
<1>3. CASE ReadSite
  BY <1>1, <1>3, ReadKeeps
<1>4. CASE Loaded
  BY <1>1, <1>4, LoadedKeeps
<1>5. CASE Assemble
  <2>1. CASE server' = Failed
    BY <1>1, <2>1, FreshKeeps DEF Failed
  <2>2. CASE server.stage = "loaded" /\ server' = [server EXCEPT !.stage = "up"]
    <3>1. /\ server' \in Server /\ server'.stage = "up" /\ server'.sites = server.sites
          /\ server'.routes = server.routes /\ server'.domains = server.domains
      BY <2>2 DEF Server
    <3>2. ServerInv'
      BY <1>1, <2>2, <3>1 DEF ServerInv, ServerOnly
    <3>3. SitesAsked'
      BY <1>1, <3>1 DEF SitesAsked, ServerOnly
    <3>. QED  BY <1>1, <3>1, <3>2, <3>3
  <2>. QED  BY <1>5, <2>1, <2>2 DEF Assemble
<1>6. CASE Restart
  <2>1. server' = Fresh("down", {})
    BY <1>6 DEF Restart, Down
  <2>. QED  BY <1>1, <2>1, FreshKeeps
<1>. QED  BY <1>2, <1>3, <1>4, <1>5, <1>6 DEF ServerStep

-----------------------------------------------------------------------------
(* The inductive invariant.                                                *)

\* What TypeOK says of the other variables.
OthersTyped ==
    config \in Configs /\ count \in 0 .. MaxCommands /\ server \in Server
    /\ damaged \subseteq Domains

SitesInv ==
    OthersTyped /\ CommandsSound /\ FilesRead /\ EmptyKnown /\ SitesAsked /\ ServerInv

\* It has the types.
LEMMA InvTyped == SitesInv => TypeOK
<1>. SUFFICES ASSUME SitesInv PROVE TypeOK
  OBVIOUS
<1>1. ASSUME NEW d \in Domains, files[d] # Absent, DOMAIN files[d] # {}
      PROVE  FromToml(files[d]) \in Site
  <2>1. files[d] # Empty
    BY <1>1 DEF Empty
  <2>. QED  BY <1>1, <2>1 DEF SitesInv, FilesRead, Reads
<1>2. ASSUME NEW o \in Operators PROVE <<command[o].stage, command[o].file>> \in Commands
  BY DEF SitesInv, CommandsSound, Sound, Commands
<1>. QED  BY <1>1, <1>2 DEF SitesInv, OthersTyped, FilesRead, TypeOK

\* It holds at first, when the files are those written by hand.
LEMMA InitInv == Init => SitesInv
<1>. SUFFICES ASSUME Init PROVE SitesInv
  OBVIOUS
<1>1. PICK hand \in SUBSET HandWritten :
         LET mine(d) == {h \in hand : h.site.domain = d}
         IN /\ files = [d \in Domains |-> IF mine(d) = {} THEN Absent
                                          ELSE (CHOOSE h \in mine(d) : TRUE).text]
            /\ asked = [d \in Domains |-> << IF mine(d) = {} THEN Absent
                                             ELSE (CHOOSE h \in mine(d) : TRUE).site >>]
  BY DEF Init
<1>. DEFINE mine(d) == {h \in hand : h.site.domain = d}
            Of(d) == CHOOSE h \in mine(d) : TRUE
            text(d) == IF mine(d) = {} THEN Absent ELSE Of(d).text
            site(d) == IF mine(d) = {} THEN Absent ELSE Of(d).site
<1>2. files = [d \in Domains |-> text(d)] /\ asked = [d \in Domains |-> <<site(d)>>]
  BY <1>1
<1>3. ASSUME NEW d \in Domains
      PROVE  site(d) \in Site \cup {Absent} /\ Reads(text(d), site(d), d)
  <2>1. CASE mine(d) = {}
    BY <2>1 DEF Reads
  <2>2. CASE mine(d) # {}
    <3>1. Of(d) \in mine(d)
      BY <2>2
    <3>2. Of(d) \in HandWritten /\ Of(d).site.domain = d
      BY <3>1
    <3>3. text(d) = Of(d).text /\ site(d) = Of(d).site
      BY <2>2
    <3>4. /\ Of(d).text # Absent /\ Of(d).site \in Site
          /\ FromToml(Of(d).text) = Of(d).site
      BY <3>2, SitesConstants
    <3>. QED  BY <3>2, <3>3, <3>4 DEF Reads
  <2>. QED  BY <2>1, <2>2
<1>. HIDE DEF mine, text, site
<1>4. ASSUME NEW d \in Domains
      PROVE  <<site(d)>> \in Seq(Site \cup {Absent}) /\ <<site(d)>> # <<>>
             /\ Last(<<site(d)>>) = site(d)
  BY <1>3 DEF Last
<1>5. FilesRead
  BY <1>2, <1>3, <1>4 DEF FilesRead
<1>6. CommandsSound
  BY IdleIs DEF Init, CommandsSound
<1>7. EmptyKnown
  <2>1. ASSUME NEW d \in Domains PROVE files[d] # Empty
    <3>1. CASE mine(d) = {}
      BY <1>2, <3>1, AbsentIsNoText DEF text
    <3>2. CASE mine(d) # {}
      <4>1. site(d) \in Site /\ FromToml(text(d)) = site(d)
        BY <3>2, SitesConstants DEF text, site, mine
      <4>. QED  BY <1>2, <4>1, EmptyIsNone, SitesConstants
    <3>. QED  BY <3>1, <3>2
  <2>. QED  BY <2>1 DEF EmptyKnown
<1>8. /\ server \in Server /\ server.stage = "down" /\ server.sites = <<>>
  BY FreshTypes DEF Init, Down
<1>9. SitesAsked /\ ServerInv
  BY <1>8 DEF SitesAsked, ServerInv
<1>10. OthersTyped
  BY <1>8, SitesConstants DEF Init, OthersTyped
<1>. QED  BY <1>5, <1>6, <1>7, <1>9, <1>10 DEF SitesInv

\* A site that was asked for stays so when a command is over.
LEMMA AskedKept ==
    ASSUME server \in Server, FilesRead, SitesAsked, server' = server,
           \/ asked' = asked
           \/ \E d \in Domains, x \in Site \cup {Absent} :
                 asked' = [asked EXCEPT ![d] = Append(asked[d], x)]
    PROVE  SitesAsked'
<1>1. ASSUME NEW c \in Domains PROVE Range(asked[c]) \subseteq Range(asked'[c])
  <2>1. ASSUME NEW d \in Domains, NEW x \in Site \cup {Absent},
               asked' = [asked EXCEPT ![d] = Append(asked[d], x)]
        PROVE  Range(asked[c]) \subseteq Range(asked'[c])
    <3>1. CASE c = d
      <4>1. asked'[c] = Append(asked[c], x) /\ asked[c] \in Seq(Site \cup {Absent})
        BY <2>1, <3>1 DEF FilesRead
      <4>. QED  BY <4>1, AppendLast
    <3>2. CASE c # d
      BY <2>1, <3>2 DEF FilesRead
    <3>. QED  BY <3>1, <3>2
  <2>. QED  BY <2>1
<1>2. ASSUME NEW i \in DOMAIN server.sites
      PROVE  server.sites[i] \in Range(asked'[server.sites[i].domain])
  <2>1. server.sites \in Seq(Site)
    BY DEF Server
  <2>2. server.sites[i] \in Site
    BY <2>1
  <2>3. server.sites[i].domain \in Domains
    BY <2>2 DEF Site, SiteOf
  <2>. QED  BY <1>1, <2>3 DEF SitesAsked
<1>. QED  BY <1>2 DEF SitesAsked

\* Every step keeps it.
LEMMA StepInv == SitesInv /\ [Next]_vars => SitesInv'
<1>. SUFFICES ASSUME SitesInv, [Next]_vars PROVE SitesInv'
  OBVIOUS
<1>. USE DEF SitesInv
<1>1. ASSUME UNCHANGED <<config, server>>, CommandsSound', FilesRead', EmptyKnown',
             count' \in 0 .. MaxCommands, damaged' \subseteq Domains,
             \/ asked' = asked
             \/ \E d \in Domains, x \in Site \cup {Absent} :
                   asked' = [asked EXCEPT ![d] = Append(asked[d], x)]
      PROVE  SitesInv'
  <2>1. OthersTyped'
    BY <1>1 DEF OthersTyped
  <2>2. SitesAsked'
    BY <1>1, AskedKept DEF OthersTyped
  <2>3. ServerInv'
    BY <1>1 DEF ServerInv
  <2>. QED  BY <1>1, <2>1, <2>2, <2>3
<1>2. ASSUME NEW o \in Operators, Run(o) PROVE count' \in 0 .. MaxCommands
  BY <1>2, SitesConstants DEF Run, OthersTyped
<1>3. ASSUME NEW o \in Operators, NEW d \in Domains, NEW f \in Options, SiteAdd(o, d, f)
      PROVE  SitesInv'
  <2>1. /\ Run(o) /\ UNCHANGED <<config, files, server, asked, damaged>>
        /\ command[o].stage = "idle"
    BY <1>3 DEF SiteAdd, Run
  <2>2. CommandsSound' /\ FilesRead' /\ EmptyKnown'
    BY <1>3, <2>1, AddBegins, BeginKeeps
  <2>. QED  BY <1>1, <1>2, <2>1, <2>2 DEF OthersTyped
<1>4. ASSUME NEW o \in Operators, NEW d \in Domains, NEW e \in BOOLEAN,
             SiteSetEnabled(o, d, e)
      PROVE  SitesInv'
  <2>1. /\ Run(o) /\ UNCHANGED <<config, files, server, asked, damaged>>
        /\ command[o].stage = "idle"
    BY <1>4 DEF SiteSetEnabled, Run
  <2>2. CommandsSound' /\ FilesRead' /\ EmptyKnown'
    BY <1>4, <2>1, SetEnabledBegins, BeginKeeps
  <2>. QED  BY <1>1, <1>2, <2>1, <2>2 DEF OthersTyped
<1>5. ASSUME NEW o \in Operators, NEW d \in Domains, SiteRemove(o, d) PROVE SitesInv'
  <2>1. /\ Run(o) /\ UNCHANGED <<config, server>> /\ damaged' \subseteq damaged
        /\ asked' = [asked EXCEPT ![d] = Append(asked[d], Absent)]
    BY <1>5 DEF SiteRemove
  <2>2. CommandsSound' /\ FilesRead' /\ EmptyKnown'
    BY <1>5, RemoveKeeps
  <2>. QED  BY <1>1, <1>2, <2>1, <2>2 DEF OthersTyped
<1>6. ASSUME NEW o \in Operators, CommandStep(o) PROVE SitesInv'
  <2>1. UNCHANGED <<config, server, count>>
    BY <1>6 DEF CommandStep, OpenFile, WriteFile, WriteFails
  <2>2. CASE OpenFile(o)
    <3>1. UNCHANGED <<asked, damaged>>
      BY <2>2 DEF OpenFile
    <3>2. CommandsSound' /\ FilesRead' /\ EmptyKnown'
      BY <2>2, OpenKeeps
    <3>. QED  BY <1>1, <2>1, <3>1, <3>2 DEF OthersTyped
  <2>3. CASE WriteFile(o)
    <3>. DEFINE d == command[o].file
                x == command[o].wants
    <3>1. /\ asked' = [asked EXCEPT ![d] = Append(asked[d], x)]
          /\ damaged' \subseteq damaged /\ command[o].stage = "write"
      BY <2>3 DEF WriteFile
    <3>2. d \in Domains /\ x \in Site
      BY <3>1 DEF CommandsSound, Sound
    <3>3. CommandsSound' /\ FilesRead' /\ EmptyKnown'
      BY <2>3, WriteKeeps
    <3>. HIDE DEF d, x
    <3>. QED  BY <1>1, <2>1, <3>1, <3>2, <3>3 DEF OthersTyped
  <2>4. CASE WriteFails(o)
    <3>1. asked' = asked /\ damaged' = damaged \cup {command[o].file}
          /\ command[o].stage = "write"
      BY <2>4 DEF WriteFails
    <3>2. command[o].file \in Domains
      BY <3>1 DEF CommandsSound, Sound
    <3>3. CommandsSound' /\ FilesRead' /\ EmptyKnown'
      BY <2>4, FailKeeps
    <3>. QED  BY <1>1, <2>1, <3>1, <3>2, <3>3 DEF OthersTyped
  <2>. QED  BY <1>6, <2>2, <2>3, <2>4 DEF CommandStep
<1>7. CASE ServerStep \/ Restart
  <2>1. server' \in Server /\ ServerInv' /\ SitesAsked' /\ ServerOnly
    BY <1>7, ServerKeeps DEF OthersTyped
  <2>2. OthersTyped'
    BY <2>1 DEF OthersTyped, ServerOnly
  <2>3. CommandsSound' /\ FilesRead' /\ EmptyKnown'
    BY <2>1 DEF ServerOnly, CommandsSound, FilesRead, EmptyKnown
  <2>. QED  BY <2>1, <2>2, <2>3
<1>8. CASE UNCHANGED vars
  BY <1>8 DEF vars, OthersTyped, CommandsSound, FilesRead, EmptyKnown, SitesAsked, ServerInv
<1>. QED  BY <1>3, <1>4, <1>5, <1>6, <1>7, <1>8 DEF Next

-----------------------------------------------------------------------------
(* What the router of a running server does.                               *)

\* Its routes are those of sites, n of them, and then those of the configuration.
Ordered(rs) ==
    LET n == Len(rs)
    IN /\ RoutesOf(rs, server.sites)
       /\ n \in Nat /\ DOMAIN rs = 1 .. n
       /\ Len(config.routes) \in Nat /\ DOMAIN config.routes = 1 .. Len(config.routes)
       /\ DOMAIN Router = 1 .. n + Len(config.routes)
       /\ \A i \in 1 .. n :
             /\ Router[i].host = rs[i].host /\ Router[i].path = rs[i].path
             /\ Router[i].static_dir = rs[i].root
       /\ \A k \in 1 .. Len(config.routes) :
             /\ Router[n + k].host = config.routes[k].host
             /\ Router[n + k].path = config.routes[k].path
             /\ Router[n + k].static_dir = config.routes[k].root
             /\ Router[n + k].targets = config.routes[k].upstream

\* So Config::load() and build_router() have put them.
LEMMA UpOrdered ==
    ASSUME SitesInv, Up
    PROVE  Validate(config) /\ \E rs : Ordered(rs)
<1>1. Validate(config)
  BY DEF SitesInv, ServerInv, Up
<1>2. PICK rs : RoutesOf(rs, server.sites) /\ server.routes = rs \o config.routes
  BY DEF SitesInv, ServerInv, Up, MergedRoutes
<1>3. rs \in Seq(Routes)
  BY <1>2 DEF RoutesOf
<1>4. config.routes \in Seq(Routes)
  BY ConfigRoutes DEF SitesInv, OthersTyped
<1>. DEFINE n == Len(rs)
            c == config.routes
            R == rs \o c
<1>5. /\ n \in Nat /\ DOMAIN rs = 1 .. n /\ Len(c) \in Nat /\ DOMAIN c = 1 .. Len(c)
  BY <1>3, <1>4, LenProperties
<1>6. /\ DOMAIN R = 1 .. n + Len(c)
      /\ \A i \in 1 .. n : R[i] = rs[i]
      /\ \A k \in 1 .. Len(c) : R[n + k] = c[k]
  BY <1>3, <1>4, ConcatIs
<1>7. Router = BuildRouter(R)
  BY <1>2 DEF Router
<1>. HIDE DEF R, c, n
<1>8. ASSUME NEW i \in DOMAIN R
      PROVE  /\ Router[i].host = R[i].host /\ Router[i].path = R[i].path
             /\ Router[i].static_dir = R[i].root /\ Router[i].targets = R[i].upstream
  BY <1>7 DEF BuildRouter
<1>9. DOMAIN Router = DOMAIN R
  BY <1>7 DEF BuildRouter
<1>10. \A i \in 1 .. n : i \in DOMAIN R
  BY <1>5, <1>6
<1>11. \A k \in 1 .. Len(c) : n + k \in DOMAIN R
  BY <1>5, <1>6
<1>12. \A i \in 1 .. n :
          /\ Router[i].host = rs[i].host /\ Router[i].path = rs[i].path
          /\ Router[i].static_dir = rs[i].root
  BY <1>6, <1>8, <1>10
<1>13. \A k \in 1 .. Len(c) :
          /\ Router[n + k].host = c[k].host /\ Router[n + k].path = c[k].path
          /\ Router[n + k].static_dir = c[k].root
          /\ Router[n + k].targets = c[k].upstream
  BY <1>6, <1>8, <1>11
<1>14. Ordered(rs)
  BY <1>2, <1>5, <1>6, <1>9, <1>12, <1>13 DEF Ordered, n, c
<1>. QED  BY <1>1, <1>14

\* The routes of sites are for hosts, with directories.
LEMMA SiteRoute ==
    ASSUME SitesInv, NEW rs, Ordered(rs), NEW i \in 1 .. Len(rs)
    PROVE  \E j \in DOMAIN server.sites :
              /\ server.sites[j].enabled
              /\ Router[i].host = server.sites[j].domain /\ Router[i].host \in Domains
              /\ Router[i].path = None
              /\ Router[i].static_dir = server.sites[j].root
              /\ Router[i].static_dir \in {"root", "public"}
<1>1. HasSite(rs[i], server.sites)
  BY DEF Ordered, RoutesOf
<1>2. PICK j \in DOMAIN server.sites :
         /\ server.sites[j].enabled /\ rs[i].host = server.sites[j].domain
         /\ rs[i].path = None /\ rs[i].root = server.sites[j].root
  BY <1>1 DEF HasSite
<1>3. server.sites \in Seq(Site)
  BY DEF SitesInv, OthersTyped, Server
<1>4. server.sites[j] \in Site
  BY <1>3
<1>5. server.sites[j].domain \in Domains /\ server.sites[j].root \in {"root", "public"}
  BY <1>4 DEF Site, SiteOf
<1>6. /\ Router[i].host = rs[i].host /\ Router[i].path = rs[i].path
      /\ Router[i].static_dir = rs[i].root
  BY DEF Ordered
<1>. QED  BY <1>2, <1>5, <1>6

\* A request for the host of an enabled site gets to that site.
LEMMA SiteFound ==
    ASSUME SitesInv, NEW rs, Ordered(rs), NEW h \in Domains, NEW path,
           NEW j \in DOMAIN server.sites, server.sites[j].domain = h, server.sites[j].enabled
    PROVE  LET m == MatchRoute(Router, h, path)
               mine == {i \in DOMAIN server.sites :
                          server.sites[i].domain = h /\ server.sites[i].enabled}
           IN /\ m # 0 /\ Router[m].host = h /\ Router[m].path = None
              /\ \E i \in mine : Router[m].static_dir = server.sites[i].root
<1>. DEFINE hits == {i \in DOMAIN Router : Matches(Router[i], h, path)}
            n == Len(rs)
            m == MatchRoute(Router, h, path)
<1>1. n \in Nat /\ DOMAIN rs = 1 .. n /\ Len(config.routes) \in Nat
      /\ DOMAIN Router = 1 .. n + Len(config.routes)
  BY DEF Ordered
<1>2. HasRoute(server.sites[j], rs)
  BY DEF Ordered, RoutesOf
<1>3. PICK i \in 1 .. n : rs[i].host = h /\ rs[i].path = None
  BY <1>1, <1>2 DEF HasRoute
<1>4. Router[i].host = h /\ Router[i].path = None
  BY <1>3 DEF Ordered
<1>5. i \in hits
  <2>1. i \in DOMAIN Router
    BY <1>1
  <2>2. Matches(Router[i], h, path)
    BY <1>4 DEF Matches, HostMatches
  <2>. QED  BY <2>1, <2>2
<1>6. hits \in SUBSET Nat /\ \A y \in hits : y \in DOMAIN Router /\ Matches(Router[y], h, path)
  BY <1>1
<1>7. m = Min(hits)
  BY <1>5 DEF MatchRoute
<1>. HIDE DEF hits, m
<1>8. m \in hits /\ m <= i
  BY <1>5, <1>6, <1>7, MinOf
<1>9. m \in DOMAIN Router /\ Matches(Router[m], h, path)
  BY <1>6, <1>8
<1>10. m \in 1 .. n /\ m # 0
  BY <1>1, <1>8, <1>9
<1>11. PICK k \in DOMAIN server.sites :
          /\ server.sites[k].enabled
          /\ Router[m].host = server.sites[k].domain /\ Router[m].host \in Domains
          /\ Router[m].path = None
          /\ Router[m].static_dir = server.sites[k].root
  BY <1>10, SiteRoute
<1>12. Router[m].host = h
  BY <1>9, <1>11, SitesConstants DEF Matches, HostMatches
<1>. QED  BY <1>10, <1>11, <1>12 DEF m

\* One for another host gets to the route it would get to without sites.
LEMMA OthersFound ==
    ASSUME SitesInv, NEW rs, Ordered(rs), NEW h \in Domains, NEW path,
           \A j \in DOMAIN server.sites :
              ~(server.sites[j].domain = h /\ server.sites[j].enabled)
    PROVE  LET m == MatchRoute(Router, h, path)
               n == MatchRoute(config.routes, h, path)
           IN /\ (m = 0) = (n = 0)
              /\ m # 0 => /\ Router[m].static_dir = config.routes[n].root
                          /\ Router[m].targets = config.routes[n].upstream
<1>. DEFINE hits == {i \in DOMAIN Router : Matches(Router[i], h, path)}
            main == {k \in DOMAIN config.routes : Matches(config.routes[k], h, path)}
            z == Len(rs)
            l == Len(config.routes)
            m == MatchRoute(Router, h, path)
            n == MatchRoute(config.routes, h, path)
<1>1. z \in Nat /\ l \in Nat /\ DOMAIN config.routes = 1 .. l /\ DOMAIN Router = 1 .. z + l
  BY DEF Ordered
<1>2. ASSUME NEW i \in 1 .. z PROVE ~Matches(Router[i], h, path)
  <2>1. PICK j \in DOMAIN server.sites :
           /\ server.sites[j].enabled
           /\ Router[i].host = server.sites[j].domain /\ Router[i].host \in Domains
    BY SiteRoute
  <2>. QED  BY <2>1, SitesConstants DEF Matches, HostMatches
<1>3. ASSUME NEW k \in 1 .. l
      PROVE  Matches(Router[z + k], h, path) <=> Matches(config.routes[k], h, path)
  BY DEF Matches, Ordered
<1>4. ASSUME NEW k \in main PROVE z + k \in hits
  BY <1>1, <1>3
<1>5. ASSUME NEW i \in hits PROVE i - z \in main /\ i = z + (i - z)
  <2>1. i \in 1 .. z + l /\ Matches(Router[i], h, path)
    BY <1>1
  <2>2. ~(i \in 1 .. z)
    BY <1>2, <2>1
  <2>3. i - z \in 1 .. l /\ i = z + (i - z)
    BY <1>1, <2>1, <2>2
  <2>4. Matches(config.routes[i - z], h, path)
    BY <1>3, <2>1, <2>3
  <2>. QED  BY <1>1, <2>3, <2>4
<1>6. hits \in SUBSET Nat /\ main \in SUBSET Nat /\ 0 \notin hits /\ 0 \notin main
  BY <1>1
<1>7. /\ m = IF hits = {} THEN 0 ELSE Min(hits)
      /\ n = IF main = {} THEN 0 ELSE Min(main)
  BY DEF MatchRoute
<1>8. \A k \in main : k \in 1 .. l
  BY <1>1
<1>. HIDE DEF hits, main, m, n, z, l
<1>9. CASE hits = {}
  <2>1. main = {}
    BY <1>4, <1>9
  <2>. QED  BY <1>7, <1>9, <2>1 DEF m, n
<1>10. CASE hits # {}
  <2>1. main # {}
    BY <1>5, <1>10
  <2>2. m \in hits /\ \A y \in hits : m <= y
    BY <1>6, <1>7, <1>10, MinOf
  <2>3. n \in main /\ \A y \in main : n <= y
    BY <1>6, <1>7, <2>1, MinOf
  <2>4. m = z + n
    <3>1. m <= z + n
      BY <1>4, <2>2, <2>3
    <3>2. n <= m - z
      BY <1>5, <2>2, <2>3
    <3>. QED  BY <1>1, <1>6, <2>2, <2>3, <3>1, <3>2
  <2>5. n \in 1 .. l
    BY <1>8, <2>3
  <2>6. Router[m].static_dir = config.routes[n].root
        /\ Router[m].targets = config.routes[n].upstream
    BY <2>4, <2>5 DEF Ordered, z, l
  <2>7. m # 0 /\ n # 0
    BY <1>6, <2>2, <2>3
  <2>. QED  BY <2>6, <2>7 DEF m, n
<1>. QED  BY <1>9, <1>10

\* The invariant has the properties.
LEMMA InvAsAsked == SitesInv => SitesAsAsked
<1>. SUFFICES ASSUME SitesInv PROVE SitesAsAsked
  OBVIOUS
<1>1. ASSUME NEW d \in Domains \ damaged, ~Busy(d)
      PROVE  Last(asked[d]) = IF files[d] = Absent THEN Absent ELSE FromToml(files[d])
  <2>1. files[d] # Empty
    BY <1>1 DEF SitesInv, EmptyKnown, Busy
  <2>2. Reads(files[d], Last(asked[d]), d)
    BY DEF SitesInv, FilesRead
  <2>. QED  BY <2>1, <2>2 DEF Reads
<1>. QED  BY <1>1 DEF SitesAsAsked, SitesInv, SitesAsked

\* Requests and certificates of a running server.
LEMMA InvServed == SitesInv => SitesServed
<1>. SUFFICES ASSUME SitesInv, Up PROVE SitesServed
  BY DEF SitesServed
<1>1. PICK rs : Ordered(rs)
  BY UpOrdered
<1>2. ASSUME NEW h \in Domains, NEW P \in Paths
      PROVE  LET path == Render(P)
                 m == MatchRoute(Router, h, path)
                 n == MatchRoute(config.routes, h, path)
                 mine == {i \in DOMAIN server.sites :
                            server.sites[i].domain = h /\ server.sites[i].enabled}
             IN IF mine # {}
                THEN m # 0 /\ Router[m].host = h /\ Router[m].path = None
                     /\ \E i \in mine : Router[m].static_dir = server.sites[i].root
                ELSE /\ (m = 0) = (n = 0)
                     /\ m # 0 => /\ Router[m].static_dir = config.routes[n].root
                                /\ Router[m].targets = config.routes[n].upstream
  <2>. DEFINE mine == {i \in DOMAIN server.sites :
                         server.sites[i].domain = h /\ server.sites[i].enabled}
  <2>1. CASE mine # {}
    <3>1. PICK j \in DOMAIN server.sites : server.sites[j].domain = h /\ server.sites[j].enabled
      BY <2>1
    <3>. QED  BY <1>1, <2>1, <3>1, SiteFound, Zenon
  <2>2. CASE mine = {}
    <3>1. \A j \in DOMAIN server.sites :
             ~(server.sites[j].domain = h /\ server.sites[j].enabled)
      BY <2>2
    <3>. QED  BY <1>1, <2>2, <3>1, OthersFound, Zenon
  <2>. QED  BY <2>1, <2>2
<1>3. server.domains = MergedDomains(config, AutoDomains(server.sites))
  BY DEF SitesInv, ServerInv, Up
<1>4. server.domains =
         IF "acme" \notin config.sections THEN {}
         ELSE Range(config.domains) \cup
              {server.sites[i].domain : i \in {j \in DOMAIN server.sites :
                 server.sites[j].enabled /\ server.sites[j].tls = "auto"}}
  BY <1>3 DEF MergedDomains, AutoDomains
<1>. QED  BY <1>2, <1>4 DEF SitesServed

\* No route is without a handler: those of sites have directories, those of the
\* configuration were validated.
LEMMA InvHandled == SitesInv => EveryRouteServes
<1>. SUFFICES ASSUME SitesInv, Up, NEW i \in DOMAIN Router PROVE Handler(Router[i]) # "404"
  BY DEF EveryRouteServes
<1>1. PICK rs : Ordered(rs)
  BY UpOrdered
<1>2. CASE i \in 1 .. Len(rs)
  <2>1. Router[i].static_dir \in {"root", "public"}
    BY <1>1, <1>2, SiteRoute
  <2>. QED  BY <2>1, SitesConstants DEF Handler
<1>3. CASE ~(i \in 1 .. Len(rs))
  <2>. DEFINE k == i - Len(rs)
  <2>1. k \in DOMAIN config.routes /\ k \in 1 .. Len(config.routes) /\ i = Len(rs) + k
    BY <1>1, <1>3 DEF Ordered
  <2>2. Router[i].static_dir = config.routes[k].root
        /\ Router[i].targets = config.routes[k].upstream
    BY <1>1, <2>1 DEF Ordered
  <2>3. ValidRoute(config.routes[k])
    BY <2>1, UpOrdered DEF Validate
  <2>. HIDE DEF k
  <2>4. config.routes[k].upstream # <<>> \/ config.routes[k].root # None
    BY <2>3 DEF ValidRoute
  <2>. QED  BY <2>2, <2>4 DEF Handler
<1>. QED  BY <1>2, <1>3

-----------------------------------------------------------------------------
(* FlattenSeq(), of which Render() is made: induction by a least           *)
(* counterexample, which MinOf gives.                                      *)

\* f is what FlattenSeq() computes of the first n sequences, one after the other.
Flattens(f, n, seqs) ==
    f = [i \in 1 .. n |-> IF i = 1 THEN seqs[i] ELSE f[i - 1] \o seqs[i]]

\* Two sequences are the same up to their n-th element.
SameUpTo(n, s, t) == \A i \in 1 .. n : s[i] = t[i]

\* There is such a function, and its values are sequences.
LEMMA FlattenExists ==
    ASSUME NEW C, NEW seqs \in Seq(Seq(C)), NEW n \in 0 .. Len(seqs)
    PROVE  \E f \in [1 .. n -> Seq(C)] : Flattens(f, n, seqs)
<1>. DEFINE Bad == {k \in 0 .. Len(seqs) :
                      ~ \E f \in [1 .. k -> Seq(C)] : Flattens(f, k, seqs)}
<1>1. SUFFICES ASSUME Bad # {} PROVE FALSE
  OBVIOUS
<1>. DEFINE m == Min(Bad)
<1>2. Bad \in SUBSET Nat /\ Bad \subseteq 0 .. Len(seqs)
  OBVIOUS
<1>3. m \in Bad /\ \A k \in Bad : m <= k
  <2>. HIDE DEF Bad
  <2>. QED  BY <1>2, <1>1, MinOf
<1>. HIDE DEF m
<1>4. m # 0
  <2>. DEFINE e == [i \in 1 .. 0 |-> <<>>]
  <2>1. e \in [1 .. 0 -> Seq(C)] /\ 1 .. 0 = {}
    OBVIOUS
  <2>2. Flattens(e, 0, seqs)
    BY <2>1 DEF Flattens
  <2>. HIDE DEF e
  <2>. QED  BY <2>1, <2>2, <1>3
<1>5. m - 1 \in 0 .. Len(seqs) /\ m - 1 \notin Bad /\ m \in 1 .. Len(seqs)
  <2>. HIDE DEF Bad
  <2>. QED  BY <1>2, <1>3, <1>4
<1>6. PICK f \in [1 .. m - 1 -> Seq(C)] : Flattens(f, m - 1, seqs)
  BY <1>5
<1>. DEFINE g == [i \in 1 .. m |-> IF i = m THEN IF m = 1 THEN seqs[m] ELSE f[m - 1] \o seqs[m]
                                  ELSE f[i]]
<1>7. g \in [1 .. m -> Seq(C)]
  <2>1. \A i \in 1 .. m : i # m => i \in 1 .. m - 1
    BY <1>5
  <2>2. m # 1 => m - 1 \in 1 .. m - 1
    BY <1>5
  <2>3. seqs[m] \in Seq(C)
    BY <1>5
  <2>4. m # 1 => f[m - 1] \o seqs[m] \in Seq(C)
    BY <2>2, <2>3, <1>6
  <2>. QED  BY <2>1, <2>3, <2>4, <1>6
<1>8. ASSUME NEW i \in 1 .. m
      PROVE  g[i] = IF i = 1 THEN seqs[i] ELSE g[i - 1] \o seqs[i]
  <2>1. i # 1 => i - 1 \in 1 .. m - 1 /\ i - 1 # m /\ i - 1 \in 1 .. m
    BY <1>5
  <2>2. i # 1 => g[i - 1] = f[i - 1]
    BY <2>1
  <2>3. CASE i = m
    BY <2>2, <2>3, <1>5
  <2>4. CASE i # m
    <3>1. i \in 1 .. m - 1
      BY <2>4, <1>5
    <3>2. f[i] = IF i = 1 THEN seqs[i] ELSE f[i - 1] \o seqs[i]
      BY <3>1, <1>6 DEF Flattens
    <3>. QED  BY <3>2, <2>2, <2>4
  <2>. QED  BY <2>3, <2>4
<1>9. Flattens(g, m, seqs)
  <2>. DEFINE h == [i \in 1 .. m |-> IF i = 1 THEN seqs[i] ELSE g[i - 1] \o seqs[i]]
  <2>1. DOMAIN g = 1 .. m /\ g = [i \in 1 .. m |-> g[i]]
    OBVIOUS
  <2>. HIDE DEF g
  <2>2. g = h
    BY <2>1, <1>8
  <2>. QED  BY <2>2 DEF Flattens
<1>. QED  BY <1>3, <1>7, <1>9

\* It is the only one, whatever becomes of the sequences after the first n.
LEMMA FlattenUnique ==
    ASSUME NEW f, NEW g, NEW seqs, NEW more, NEW n, NEW k,
           Flattens(f, n, seqs), Flattens(g, k, more),
           n \in Nat, k \in Nat, n <= k, SameUpTo(n, seqs, more)
    PROVE  SameUpTo(n, f, g)
<1>. DEFINE Bad == {i \in 1 .. n : f[i] # g[i]}
<1>1. SUFFICES ASSUME Bad # {} PROVE FALSE
  BY DEF SameUpTo
<1>. DEFINE m == Min(Bad)
<1>2. m \in Bad /\ \A i \in Bad : m <= i
  BY <1>1, MinOf
<1>. HIDE DEF m
<1>3. m \in 1 .. n /\ m \in 1 .. k /\ f[m] # g[m] /\ seqs[m] = more[m]
  BY <1>2 DEF SameUpTo
<1>4. (m = 1 => f[m] = seqs[m]) /\ (m # 1 => f[m] = f[m - 1] \o seqs[m])
  BY <1>3 DEF Flattens
<1>5. (m = 1 => g[m] = more[m]) /\ (m # 1 => g[m] = g[m - 1] \o more[m])
  BY <1>3 DEF Flattens
<1>6. m # 1 => f[m - 1] = g[m - 1]
  BY <1>2, <1>3
<1>. QED  BY <1>3, <1>4, <1>5, <1>6

\* FlattenSeq() is the last value of that function.
LEMMA FlattenIs ==
    ASSUME NEW C, NEW seqs \in Seq(Seq(C)), seqs # <<>>
    PROVE  \E f \in [1 .. Len(seqs) -> Seq(C)] :
              Flattens(f, Len(seqs), seqs) /\ FlattenSeq(seqs) = f[Len(seqs)]
<1>. DEFINE n == Len(seqs)
            f == CHOOSE x : Flattens(x, n, seqs)
<1>1. n \in Nat /\ n # 0 /\ n \in 0 .. Len(seqs)
  BY EmptySeq, LenProperties
<1>2. PICK g \in [1 .. n -> Seq(C)] : Flattens(g, n, seqs)
  BY <1>1, FlattenExists
<1>3. Flattens(f, n, seqs)
  BY <1>2
<1>4. FlattenSeq(seqs) = f[n]
  BY <1>1 DEF FlattenSeq, Flattens
<1>. HIDE DEF f
<1>5. n <= n /\ SameUpTo(n, seqs, seqs)
  BY <1>1 DEF SameUpTo
<1>6. SameUpTo(n, f, g)
  BY <1>1, <1>2, <1>3, <1>5, FlattenUnique, Zenon
<1>7. f[n] = g[n]
  BY <1>1, <1>6 DEF SameUpTo
<1>. QED  BY <1>2, <1>4, <1>7

\* One sequence more is added at the end.
LEMMA FlattenMore ==
    ASSUME NEW C, NEW seqs \in Seq(Seq(C)), NEW more \in Seq(Seq(C)), seqs # <<>>,
           Len(more) = Len(seqs) + 1, SameUpTo(Len(seqs), seqs, more)
    PROVE  /\ FlattenSeq(seqs) \in Seq(C)
           /\ FlattenSeq(more) = FlattenSeq(seqs) \o more[Len(more)]
<1>. DEFINE n == Len(seqs)
            k == Len(more)
<1>1. k \in 1 .. k /\ n <= k /\ k - 1 = n /\ n \in 1 .. n /\ k # 1 /\ n \in Nat /\ k \in Nat
  BY EmptySeq
<1>2. PICK f \in [1 .. n -> Seq(C)] : Flattens(f, n, seqs) /\ FlattenSeq(seqs) = f[n]
  BY FlattenIs
<1>3. PICK g \in [1 .. k -> Seq(C)] : Flattens(g, k, more) /\ FlattenSeq(more) = g[k]
  <2>1. more # <<>>
    BY <1>1
  <2>. QED  BY ONLY <2>1, more \in Seq(Seq(C)), FlattenIs
<1>4. SameUpTo(n, f, g)
  BY <1>1, <1>2, <1>3, FlattenUnique, Zenon
<1>5. g[k] = g[n] \o more[k]
  BY <1>1, <1>3 DEF Flattens
<1>6. f[n] = g[n] /\ f[n] \in Seq(C)
  BY <1>1, <1>4 DEF SameUpTo
<1>. QED  BY <1>2, <1>3, <1>5, <1>6

\* One sequence flattens to itself.
LEMMA FlattenOne ==
    ASSUME NEW C, NEW more \in Seq(Seq(C)), Len(more) = 1
    PROVE  FlattenSeq(more) = more[1]
<1>1. PICK g \in [1 .. 1 -> Seq(C)] : Flattens(g, 1, more) /\ FlattenSeq(more) = g[1]
  BY FlattenIs
<1>. QED  BY <1>1 DEF Flattens

\* The empty sequence flattens to itself, and one sequence more is added at the end.
LEMMA FlattenAppend ==
    ASSUME NEW C, NEW seqs \in Seq(Seq(C)), NEW s \in Seq(C)
    PROVE  /\ FlattenSeq(<<>>) = <<>>
           /\ FlattenSeq(seqs) \in Seq(C)
           /\ FlattenSeq(Append(seqs, s)) = FlattenSeq(seqs) \o s
<1>. DEFINE more == Append(seqs, s)
<1>1. FlattenSeq(<<>>) = <<>>
  BY DEF FlattenSeq
<1>2. /\ Len(seqs) \in Nat /\ Len(more) \in Nat /\ Len(more) = Len(seqs) + 1
      /\ more[Len(more)] = s /\ more \in Seq(Seq(C)) /\ more # <<>>
      /\ SameUpTo(Len(seqs), seqs, more)
  BY AppendProperties DEF SameUpTo
<1>. HIDE DEF more
<1>3. CASE seqs = <<>>
  <2>1. Len(more) = 1
    BY <1>2, <1>3
  <2>2. FlattenSeq(more) = s
    BY <1>2, <2>1, FlattenOne
  <2>3. <<>> \o s = s /\ <<>> \in Seq(C)
    BY ConcatEmptySeq
  <2>. QED  BY <1>1, <1>3, <2>2, <2>3 DEF more
<1>4. CASE seqs # <<>>
  <2>1. FlattenSeq(seqs) \in Seq(C) /\ FlattenSeq(more) = FlattenSeq(seqs) \o s
    BY <1>2, <1>4, FlattenMore
  <2>. QED  BY <1>1, <2>1 DEF more
<1>. QED  BY <1>3, <1>4

-----------------------------------------------------------------------------
(* Paths and their segments.                                               *)

\* Concatenation, to be reasoned about by its laws only.
Cat(x, y) == x \o y

LEMMA CatLaws ==
    ASSUME NEW C
    PROVE  /\ \A x, y \in Seq(C) : Cat(x, y) \in Seq(C)
           /\ \A x, y, z \in Seq(C) : Cat(Cat(x, y), z) = Cat(x, Cat(y, z))
           /\ \A x, y, z \in Seq(C) : Cat(x, y) = Cat(x, z) => y = z
<1>1. ASSUME NEW x \in Seq(C), NEW y \in Seq(C) PROVE x \o y \in Seq(C)
  BY ConcatProperties
<1>2. ASSUME NEW x \in Seq(C), NEW y \in Seq(C), NEW z \in Seq(C)
      PROVE  (x \o y) \o z = x \o (y \o z)
  BY ConcatAssociative
<1>3. ASSUME NEW x \in Seq(C), NEW y \in Seq(C), NEW z \in Seq(C), x \o y = x \o z
      PROVE  y = z
  <2>1. Len(y) = Len(z)
    BY <1>3, ConcatProperties
  <2>2. \A i \in 1 .. Len(y) : (x \o y)[Len(x) + i] = y[i] /\ (x \o z)[Len(x) + i] = z[i]
    BY <2>1, ConcatIs
  <2>. QED  BY <2>1, <2>2, <1>3, SeqEqual
<1>. QED  BY <1>1, <1>2, <1>3 DEF Cat

\* Segments of a path over the characters C: sequences without a slash.
Segmented(C) == Seq(Seq(C \ {"/"}))

\* A path that is empty or begins with a slash.
Rooted(x) == x = <<>> \/ x[1] = "/"

\* One segment more adds a slash and the segment.
LEMMA RenderAppend ==
    ASSUME NEW C, "/" \in C, NEW P \in Segmented(C), NEW s \in Seq(C \ {"/"})
    PROVE  /\ Render(<<>>) = <<>>
           /\ Render(P) \in Seq(C)
           /\ <<"/">> \o s \in Seq(C)
           /\ Render(Append(P, s)) = Render(P) \o (<<"/">> \o s)
<1>. DEFINE slashed(Q) == [i \in DOMAIN Q |-> <<"/">> \o Q[i]]
<1>1. \A w \in Seq(C \ {"/"}) : w \in Seq(C) /\ <<"/">> \o w \in Seq(C)
  <2>1. <<"/">> \in Seq(C)
    OBVIOUS
  <2>. SUFFICES ASSUME NEW w \in Seq(C \ {"/"})
                PROVE  w \in Seq(C) /\ <<"/">> \o w \in Seq(C)
    OBVIOUS
  <2>2. w \in Seq(C)
    BY SeqMonotonic
  <2>. QED  BY <2>1, <2>2, ConcatProperties
<1>2. slashed(P) \in Seq(Seq(C)) /\ Len(slashed(P)) = Len(P)
  <2>1. DOMAIN P = 1 .. Len(P) /\ Len(P) \in Nat /\ \A i \in 1 .. Len(P) : P[i] \in Seq(C \ {"/"})
    BY DEF Segmented
  <2>2. \A i \in 1 .. Len(P) : <<"/">> \o P[i] \in Seq(C)
    BY <1>1, <2>1
  <2>. QED  BY <2>1, <2>2
<1>3. slashed(Append(P, s)) = Append(slashed(P), <<"/">> \o s)
  <2>1. /\ Append(P, s) \in Seq(Seq(C \ {"/"})) /\ Len(Append(P, s)) = Len(P) + 1
        /\ Append(P, s)[Len(P) + 1] = s /\ \A i \in 1 .. Len(P) : Append(P, s)[i] = P[i]
        /\ DOMAIN P = 1 .. Len(P) /\ DOMAIN Append(P, s) = 1 .. Len(P) + 1 /\ Len(P) \in Nat
    BY AppendProperties, LenProperties DEF Segmented
  <2>2. /\ Append(slashed(P), <<"/">> \o s) \in Seq(Seq(C))
        /\ Len(Append(slashed(P), <<"/">> \o s)) = Len(P) + 1
        /\ Append(slashed(P), <<"/">> \o s)[Len(P) + 1] = <<"/">> \o s
        /\ \A i \in 1 .. Len(P) : Append(slashed(P), <<"/">> \o s)[i] = slashed(P)[i]
    <3>. HIDE DEF slashed
    <3>. QED  BY <1>1, <1>2, AppendProperties
  <2>3. \A i \in 1 .. Len(P) : slashed(P)[i] = <<"/">> \o P[i]
    BY <2>1
  <2>. DEFINE a == Append(slashed(P), <<"/">> \o s)
  <2>. HIDE DEF slashed
  <2>4. a = [i \in 1 .. Len(P) + 1 |-> a[i]]
    <3>. HIDE DEF a
    <3>1. a \in Seq(Seq(C)) /\ Len(a) = Len(P) + 1
      BY <2>2 DEF a
    <3>. QED  BY <3>1, LenProperties
  <2>5. \A i \in 1 .. Len(P) + 1 : a[i] = <<"/">> \o Append(P, s)[i]
    <3>1. \A i \in 1 .. Len(P) + 1 : i = Len(P) + 1 \/ i \in 1 .. Len(P)
      BY <2>1
    <3>. QED  BY <3>1, <2>1, <2>2, <2>3
  <2>. HIDE DEF a
  <2>6. a = [i \in DOMAIN Append(P, s) |-> <<"/">> \o Append(P, s)[i]]
    BY <2>1, <2>4, <2>5
  <2>. QED  BY <2>6 DEF a, slashed
<1>4. Render(<<>>) = <<>>
  BY DEF Render, FlattenSeq
<1>5. Render(P) = FlattenSeq(slashed(P)) /\ Render(Append(P, s)) = FlattenSeq(slashed(Append(P, s)))
  BY DEF Render
<1>. HIDE DEF slashed
<1>. QED  BY <1>1, <1>2, <1>3, <1>4, <1>5, FlattenAppend

\* A path renders part by part.
LEMMA RenderConcat ==
    ASSUME NEW C, "/" \in C, NEW Q \in Segmented(C), NEW R \in Segmented(C)
    PROVE  Render(Q \o R) = Render(Q) \o Render(R)
<1>. DEFINE W == Seq(C \ {"/"})
            Fails(X) == Render(Q \o X) # Render(Q) \o Render(X)
            Bad == {n \in Nat : \E X \in Seq(W) : Len(X) = n /\ Fails(X)}
<1>1. SUFFICES ASSUME Bad # {} PROVE FALSE
  <2>1. R \in Seq(W) /\ Len(R) \in Nat
    BY DEF Segmented
  <2>. QED  BY <2>1
<1>. DEFINE m == Min(Bad)
<1>2. Bad \in SUBSET Nat
  OBVIOUS
<1>3. m \in Bad /\ \A k \in Bad : m <= k
  <2>. HIDE DEF Bad
  <2>. QED  BY <1>1, <1>2, MinOf
<1>. HIDE DEF m
<1>4. PICK X \in Seq(W) : Len(X) = m /\ Fails(X)
  BY <1>3
<1>5. Render(<<>>) = <<>> /\ Render(Q) \in Seq(C) /\ Q \in Seq(W)
  <2>1. <<>> \in Seq(C \ {"/"})
    OBVIOUS
  <2>. QED  BY <2>1, RenderAppend DEF Segmented
<1>6. X # <<>>
  <2>1. Q \o <<>> = Q /\ Render(Q) \o <<>> = Render(Q)
    BY <1>5, ConcatEmptySeq
  <2>. QED  BY <2>1, <1>4, <1>5
<1>7. PICK Y \in Seq(W), s \in W : X = Append(Y, s)
  <2>. HIDE DEF W, Fails
  <2>. QED  BY <1>4, <1>6, SequenceEmptyOrAppend
<1>8. Len(Y) \in Nat /\ m = Len(Y) + 1
  <2>. HIDE DEF W
  <2>. QED  BY <1>4, <1>7, AppendProperties, LenProperties
<1>9. Render(Q \o Y) = Render(Q) \o Render(Y)
  <2>1. Len(Y) \notin Bad
    <3>. HIDE DEF Bad
    <3>. QED  BY <1>3, <1>8
  <2>. QED  BY <2>1, <1>8
<1>10. Q \o X = Append(Q \o Y, s) /\ Q \o Y \in Seq(W)
  <2>. HIDE DEF W
  <2>1. X = Y \o <<s>> /\ Q \o Y \in Seq(W) /\ <<s>> \in Seq(W)
    BY <1>5, <1>7, AppendIsConcat, ConcatProperties
  <2>2. Append(Q \o Y, s) = (Q \o Y) \o <<s>>
    BY <2>1, <1>7, AppendIsConcat
  <2>3. (Q \o Y) \o <<s>> = Q \o (Y \o <<s>>)
    BY <2>1, <1>5, ConcatAssociative
  <2>. QED  BY <2>1, <2>2, <2>3
<1>11. /\ Render(Y) \in Seq(C) /\ <<"/">> \o s \in Seq(C)
       /\ Render(X) = Render(Y) \o (<<"/">> \o s)
       /\ Render(Q \o X) = Render(Q \o Y) \o (<<"/">> \o s)
  BY <1>7, <1>10, RenderAppend DEF Segmented
<1>12. (Render(Q) \o Render(Y)) \o (<<"/">> \o s) = Render(Q) \o (Render(Y) \o (<<"/">> \o s))
  <2>1. PICK x \in Seq(C), y \in Seq(C), z \in Seq(C) :
           x = Render(Q) /\ y = Render(Y) /\ z = <<"/">> \o s
    BY <1>5, <1>11
  <2>2. Cat(Cat(x, y), z) = Cat(x, Cat(y, z))
    BY ONLY CatLaws, x \in Seq(C), y \in Seq(C), z \in Seq(C)
  <2>. QED  BY <2>1, <2>2 DEF Cat
<1>. QED  BY <1>4, <1>9, <1>11, <1>12

\* A path with segments is a slash, the first segment, and the path of the others; and
\* so it begins with a slash.
LEMMA RenderFirst ==
    ASSUME NEW C, "/" \in C, NEW s \in Seq(C \ {"/"}), NEW T \in Segmented(C)
    PROVE  /\ <<s>> \o T \in Segmented(C)
           /\ s \o Render(T) \in Seq(C)
           /\ Render(<<s>> \o T) = <<"/">> \o (s \o Render(T))
<1>. DEFINE W == Seq(C \ {"/"})
<1>1. /\ <<>> \in Segmented(C) /\ <<s>> \in Segmented(C) /\ <<s>> = Append(<<>>, s)
      /\ <<s>> \o T \in Segmented(C)
  <2>1. <<>> \in Seq(W) /\ <<s>> \in Seq(W) /\ <<s>> = Append(<<>>, s)
    OBVIOUS
  <2>. HIDE DEF W
  <2>2. T \in Seq(W) => <<s>> \o T \in Seq(W)
    BY <2>1, ConcatProperties
  <2>. QED  BY <2>1, <2>2 DEF Segmented, W
<1>2. s \in Seq(C) /\ <<"/">> \in Seq(C) /\ <<>> \in Seq(C)
  BY SeqMonotonic
<1>3. /\ Render(<<>>) = <<>> /\ Render(T) \in Seq(C) /\ <<"/">> \o s \in Seq(C)
      /\ Render(<<s>>) = <<>> \o (<<"/">> \o s)
  BY <1>1, RenderAppend
<1>4. Render(<<s>>) = <<"/">> \o s
  BY <1>3, ConcatEmptySeq
<1>5. Render(<<s>> \o T) = (<<"/">> \o s) \o Render(T)
  BY <1>1, <1>4, RenderConcat
<1>6. (<<"/">> \o s) \o Render(T) = <<"/">> \o (s \o Render(T))
  <2>. DEFINE slash == <<"/">>
  <2>1. slash \in Seq(C)
    BY <1>2
  <2>. HIDE DEF slash
  <2>2. (slash \o s) \o Render(T) = slash \o (s \o Render(T))
    BY <2>1, <1>2, <1>3, ConcatAssociative
  <2>. QED  BY <2>2 DEF slash
<1>7. s \o Render(T) \in Seq(C)
  BY <1>2, <1>3, ConcatProperties, Zenon
<1>. QED  BY <1>1, <1>5, <1>6, <1>7

\* A nonempty sequence is its first element and the others.
LEMMA FirstAndRest ==
    ASSUME NEW S, NEW q \in Seq(S), q # <<>>
    PROVE  \E x \in S, r \in Seq(S) : q = <<x>> \o r /\ Len(r) = Len(q) - 1
<1>1. q[1] \in S /\ Tail(q) \in Seq(S) /\ Len(Tail(q)) = Len(q) - 1 /\ Len(q) \in Nat \ {0}
  BY EmptySeq, HeadTailProperties
<1>2. q = <<q[1]>> \o Tail(q)
  <2>1. SubSeq(q, 1, Len(q)) = <<q[1]>> \o SubSeq(q, 2, Len(q))
    <3>1. 1 \in 1 .. Len(q) /\ Len(q) \in 1 .. Len(q) /\ 1 + 1 = 2
      BY <1>1
    <3>. QED  BY <3>1, SubSeqRecursiveFirst
  <2>. QED  BY <2>1, SubSeqFull, TailIsSubSeq, Zenon
<1>. QED  BY <1>1, <1>2

\* A path is empty if it has no segments, and begins with a slash if it has.
LEMMA RenderRooted ==
    ASSUME NEW C, "/" \in C, NEW P \in Segmented(C)
    PROVE  /\ Render(P) \in Seq(C)
           /\ Rooted(Render(P))
           /\ Render(P) = <<>> <=> P = <<>>
<1>. DEFINE W == Seq(C \ {"/"})
<1>1. CASE P = <<>>
  <2>1. <<>> \in W /\ <<>> \in Seq(C)
    OBVIOUS
  <2>. QED  BY <1>1, <2>1, RenderAppend DEF Rooted
<1>2. CASE P # <<>>
  <2>1. PICK s \in W, T \in Seq(W) : P = <<s>> \o T
    <3>1. P \in Seq(W)
      BY DEF Segmented
    <3>. HIDE DEF W
    <3>. QED  BY <3>1, <1>2, FirstAndRest
  <2>2. s \o Render(T) \in Seq(C) /\ Render(P) = <<"/">> \o (s \o Render(T))
    BY <2>1, RenderFirst DEF Segmented
  <2>. DEFINE w == s \o Render(T)
  <2>. HIDE DEF w
  <2>3. w \in Seq(C) /\ Render(P) = <<"/">> \o w /\ <<"/">> \in Seq(C)
    BY <2>2 DEF w
  <2>4. Render(P) \in Seq(C) /\ Render(P)[1] = "/" /\ Render(P) # <<>>
    BY <2>3
  <2>. QED  BY <2>4, <1>2 DEF Rooted
<1>. QED  BY <1>1, <1>2

\* Where a segment ends is where the next slash is.
LEMMA Cut ==
    ASSUME NEW C, NEW p \in Seq(C \ {"/"}), NEW q \in Seq(C \ {"/"}),
           NEW x \in Seq(C), NEW y \in Seq(C), Rooted(x), Rooted(y), Cat(p, x) = Cat(q, y)
    PROVE  p = q /\ x = y
<1>1. p \in Seq(C) /\ q \in Seq(C)
  BY SeqMonotonic
<1>2. p \o x = q \o y
  BY DEF Cat
<1>3. ASSUME NEW u \in Seq(C \ {"/"}), NEW v \in Seq(C \ {"/"}), NEW a \in Seq(C), NEW b \in Seq(C),
             Rooted(a), u \o a = v \o b
      PROVE  ~ Len(u) < Len(v)
  <2>. SUFFICES ASSUME Len(u) < Len(v) PROVE FALSE
    OBVIOUS
  <2>0. u \in Seq(C) /\ v \in Seq(C)
    BY SeqMonotonic
  <2>. DEFINE k == Len(u) + 1
  <2>1. k \in 1 .. Len(v) /\ v[k] # "/" /\ Len(a) \in Nat /\ Len(u) \in Nat
    OBVIOUS
  <2>2. Len(u) + Len(a) = Len(v) + Len(b)
    BY <2>0, <1>3, ConcatProperties
  <2>3. (v \o b)[k] = v[k]
    BY <2>0, <2>1, ConcatProperties
  <2>4. Len(a) # 0
    BY <2>1, <2>2
  <2>5. (u \o a)[k] = a[1]
    BY <2>0, <2>1, <2>4, ConcatProperties
  <2>6. a[1] = "/"
    BY <2>4, <1>3 DEF Rooted
  <2>. QED  BY <2>1, <2>3, <2>5, <2>6, <1>3
<1>4. ~ Len(p) < Len(q) /\ ~ Len(q) < Len(p)
  BY <1>2, <1>3
<1>5. Len(p) = Len(q)
  BY <1>4
<1>6. p = q
  <2>1. \A i \in 1 .. Len(p) : (p \o x)[i] = p[i] /\ (q \o y)[i] = q[i]
    BY <1>1, <1>5, ConcatIs
  <2>. QED  BY <2>1, <1>2, <1>5, SeqEqual
<1>7. x = y
  BY <1>2, <1>1, <1>6, ConcatSimplifications
<1>. QED  BY <1>6, <1>7

\* Segment s is the first of P, and T are the others.
Unrolls(C, P, s, T) ==
    /\ P = <<s>> \o T /\ Len(T) = Len(P) - 1
    /\ s \in Seq(C) /\ Render(T) \in Seq(C) /\ Rooted(Render(T))
    /\ Cat(s, Render(T)) \in Seq(C)
    /\ Render(P) = Cat(<<"/">>, Cat(s, Render(T)))

\* A path that is not empty has a first segment, and the path of the others.
LEMMA Unrolled ==
    ASSUME NEW C, "/" \in C, NEW P \in Segmented(C), P # <<>>
    PROVE  \E s \in Seq(C \ {"/"}), T \in Segmented(C) : Unrolls(C, P, s, T)
<1>. DEFINE W == Seq(C \ {"/"})
<1>1. PICK s \in W, T \in Seq(W) : P = <<s>> \o T /\ Len(T) = Len(P) - 1
  <2>1. P \in Seq(W)
    BY DEF Segmented
  <2>. HIDE DEF W
  <2>. QED  BY <2>1, FirstAndRest
<1>2. s \in Seq(C \ {"/"}) /\ T \in Segmented(C)
  BY <1>1 DEF Segmented
<1>3. s \in Seq(C)
  BY <1>2, SeqMonotonic
<1>4. Render(T) \in Seq(C) /\ Rooted(Render(T))
  BY <1>2, RenderRooted
<1>5. s \o Render(T) \in Seq(C) /\ Render(P) = <<"/">> \o (s \o Render(T))
  BY <1>1, <1>2, RenderFirst
<1>6. Unrolls(C, P, s, T)
  BY <1>1, <1>3, <1>4, <1>5 DEF Unrolls, Cat
<1>. QED  BY <1>2, <1>6

\* What two sequences begin with is taken away from both.
LEMMA CancelFirst ==
    ASSUME NEW C, NEW h \in Seq(C), NEW s \in Seq(C), NEW r \in Seq(C), NEW w \in Seq(C),
           NEW u \in Seq(C), Cat(h, u) = Cat(Cat(h, Cat(s, r)), w)
    PROVE  Cat(r, w) \in Seq(C) /\ u = Cat(s, Cat(r, w))
<1>1. Cat(s, r) \in Seq(C) /\ Cat(r, w) \in Seq(C)
  BY CatLaws
<1>2. Cat(s, Cat(r, w)) \in Seq(C)
  BY <1>1, CatLaws
<1>3. Cat(Cat(h, Cat(s, r)), w) = Cat(h, Cat(Cat(s, r), w))
  BY <1>1, CatLaws
<1>4. Cat(Cat(s, r), w) = Cat(s, Cat(r, w))
  BY CatLaws
<1>5. Cat(h, u) = Cat(h, Cat(s, Cat(r, w)))
  BY <1>3, <1>4
<1>. QED  BY <1>1, <1>2, <1>5, CatLaws

\* What follows the rendering of some segments, if it is empty or begins with a slash, is
\* the rendering of the segments that follow them.
LEMMA RenderPrefix ==
    ASSUME NEW C, "/" \in C, NEW Q \in Segmented(C), NEW P \in Segmented(C),
           NEW w \in Seq(C), Rooted(w), Render(P) = Cat(Render(Q), w)
    PROVE  \E R \in Segmented(C) : P = Q \o R /\ w = Render(R)
<1>. DEFINE W == Seq(C \ {"/"})
            Fails(X, Y) == Render(Y) = Cat(Render(X), w)
                           /\ ~ \E R \in Seq(W) : Y = X \o R /\ w = Render(R)
            Bad == {n \in Nat : \E X, Y \in Seq(W) : Len(X) = n /\ Fails(X, Y)}
<1>1. SUFFICES ASSUME Bad # {} PROVE FALSE
  <2>1. Q \in Seq(W) /\ P \in Seq(W) /\ Len(Q) \in Nat
    BY DEF Segmented
  <2>. QED  BY <2>1 DEF Segmented
<1>. DEFINE m == Min(Bad)
<1>2. Bad \in SUBSET Nat
  OBVIOUS
<1>3. m \in Bad /\ \A k \in Bad : m <= k
  <2>. HIDE DEF Bad
  <2>. QED  BY <1>1, <1>2, MinOf
<1>. HIDE DEF m
<1>4. PICK X \in Seq(W), Y \in Seq(W) : Len(X) = m /\ Fails(X, Y)
  BY <1>3
<1>5. X # <<>>
  <2>1. SUFFICES ASSUME X = <<>> PROVE Y = X \o Y /\ w = Render(Y)
    BY <1>4
  <2>2. X \o Y = Y /\ Cat(<<>>, w) = w
    BY <2>1, ConcatEmptySeq DEF Cat
  <2>3. Render(<<>>) = <<>>
    BY <1>4, <2>1, RenderRooted DEF Segmented
  <2>. QED  BY <1>4, <2>1, <2>2, <2>3
<1>6. PICK s \in Seq(C \ {"/"}), T \in Segmented(C) : Unrolls(C, X, s, T)
  <2>1. X \in Segmented(C)
    BY DEF Segmented
  <2>. QED  BY <2>1, <1>5, Unrolled, Zenon
<1>7. Y # <<>>
  <2>1. Render(X) \in Seq(C) /\ Render(X) # <<>>
    BY <1>5, RenderRooted DEF Segmented
  <2>2. Cat(Render(X), w) # <<>>
    BY <2>1, ConcatEqualIffEmpty DEF Cat
  <2>. QED  BY <1>4, <2>2, RenderRooted DEF Segmented
<1>8. PICK t \in Seq(C \ {"/"}), U \in Segmented(C) : Unrolls(C, Y, t, U)
  <2>1. Y \in Segmented(C)
    BY DEF Segmented
  <2>. QED  BY <2>1, <1>7, Unrolled, Zenon
<1>9. Rooted(Cat(Render(T), w))
  <2>. DEFINE r == Render(T)
  <2>1. r \in Seq(C) /\ Rooted(r)
    BY <1>6 DEF Unrolls
  <2>. HIDE DEF r
  <2>2. Rooted(r \o w)
    BY <2>1, ConcatEmptySeq DEF Rooted
  <2>. QED  BY <2>2 DEF r, Cat
<1>10. /\ Cat(Render(T), w) \in Seq(C)
       /\ Cat(t, Render(U)) = Cat(s, Cat(Render(T), w))
  <2>1. <<"/">> \in Seq(C)
    OBVIOUS
  <2>2. /\ s \in Seq(C) /\ Render(T) \in Seq(C) /\ w \in Seq(C)
        /\ Cat(t, Render(U)) \in Seq(C)
    BY <1>6, <1>8 DEF Unrolls
  <2>3. Cat(<<"/">>, Cat(t, Render(U))) = Cat(Cat(<<"/">>, Cat(s, Render(T))), w)
    BY <1>4, <1>6, <1>8 DEF Unrolls
  <2>4. PICK h \in Seq(C), v \in Seq(C), r \in Seq(C), u \in Seq(C) :
           h = <<"/">> /\ v = s /\ r = Render(T) /\ u = Cat(t, Render(U))
    BY <2>1, <2>2
  <2>5. Cat(h, u) = Cat(Cat(h, Cat(v, r)), w)
    BY <2>3, <2>4
  <2>6. Cat(r, w) \in Seq(C) /\ u = Cat(v, Cat(r, w))
    BY ONLY <2>5, CancelFirst
  <2>. QED  BY <2>4, <2>6
<1>11. t = s /\ Render(U) = Cat(Render(T), w)
  <2>1. Render(U) \in Seq(C) /\ Rooted(Render(U))
    BY <1>8 DEF Unrolls
  <2>2. PICK x \in Seq(C), y \in Seq(C) : x = Render(U) /\ y = Cat(Render(T), w)
    BY <2>1, <1>10
  <2>3. Rooted(x) /\ Rooted(y) /\ Cat(t, x) = Cat(s, y)
    BY <2>1, <2>2, <1>9, <1>10
  <2>4. t = s /\ x = y
    BY ONLY <2>3, Cut
  <2>. QED  BY <2>2, <2>4
<1>12. Len(T) \in Nat /\ Len(T) \notin Bad
  <2>. HIDE DEF Bad, W
  <2>. QED  BY <1>3, <1>4, <1>6 DEF Segmented, Unrolls
<1>13. PICK R \in Seq(W) : U = T \o R /\ w = Render(R)
  BY <1>11, <1>12 DEF Segmented
<1>14. Y = X \o R
  <2>1. <<s>> \in Seq(W) /\ T \in Seq(W)
    BY DEF Segmented
  <2>. HIDE DEF W
  <2>2. PICK q \in Seq(W), x \in Seq(W), y \in Seq(W) : q = <<s>> /\ x = T /\ y = R
    BY <2>1
  <2>3. Cat(Cat(q, x), y) = Cat(q, Cat(x, y))
    BY ONLY CatLaws, q \in Seq(W), x \in Seq(W), y \in Seq(W)
  <2>4. (<<s>> \o T) \o R = <<s>> \o (T \o R)
    BY <2>2, <2>3 DEF Cat
  <2>. QED  BY <2>4, <1>6, <1>8, <1>11, <1>13 DEF Unrolls
<1>. QED  BY <1>4, <1>13, <1>14

-----------------------------------------------------------------------------
(* Prefixes of paths.                                                      *)

\* A sequence begins with another if it is that one and a rest, which SubSeq() finds.
LEMMA PrefixRest ==
    ASSUME NEW S, NEW u \in Seq(S), NEW v \in Seq(S), IsPrefix(u, v)
    PROVE  /\ SubSeq(v, Len(u) + 1, Len(v)) \in Seq(S)
           /\ v = u \o SubSeq(v, Len(u) + 1, Len(v))
<1>1. Len(u) \in Nat /\ Len(v) \in Nat /\ Len(u) <= Len(v)
  BY DEF IsPrefix
<1>2. SubSeq(v, 1, Len(u)) = u
  BY SubSeqFull DEF IsPrefix
<1>3. /\ 1 \in 1 .. Len(v) + 1 /\ Len(u) \in 1 - 1 .. Len(v) /\ Len(v) \in Len(u) .. Len(v)
      /\ Len(u) + 1 \in Int /\ Len(v) \in Int
  BY <1>1
<1>4. SubSeq(v, 1, Len(u)) \o SubSeq(v, Len(u) + 1, Len(v)) = SubSeq(v, 1, Len(v))
  BY <1>3, ConcatAdjacentSubSeq
<1>5. SubSeq(v, 1, Len(v)) = v
  BY SubSeqFull
<1>6. SubSeq(v, Len(u) + 1, Len(v)) \in Seq(S)
  <2>1. \A i \in Len(u) + 1 .. Len(v) : v[i] \in S
    BY <1>1
  <2>. QED  BY ONLY <2>1, <1>3, SubSeqProperties, Zenon
<1>. QED  BY <1>2, <1>4, <1>5, <1>6

LEMMA RestPrefix ==
    ASSUME NEW S, NEW u \in Seq(S), NEW r \in Seq(S)
    PROVE  IsPrefix(u, u \o r) /\ SubSeq(u \o r, Len(u) + 1, Len(u \o r)) = r
<1>. DEFINE v == u \o r
<1>1. /\ v \in Seq(S) /\ Len(v) = Len(u) + Len(r) /\ Len(u) \in Nat /\ Len(r) \in Nat
      /\ \A i \in 1 .. Len(u) : v[i] = u[i]
      /\ \A i \in 1 .. Len(r) : v[Len(u) + i] = r[i]
  BY ConcatProperties, ConcatIs
<1>. HIDE DEF v
<1>2. SubSeq(v, 1, Len(u)) = SubSeq(u, 1, Len(u))
  <2>1. \A i \in 1 .. Len(u) : v[i] \in S /\ u[i] \in S
    BY <1>1
  <2>2. /\ SubSeq(v, 1, Len(u)) \in Seq(S) /\ Len(SubSeq(v, 1, Len(u))) = Len(u)
        /\ \A i \in 1 .. Len(u) : SubSeq(v, 1, Len(u))[i] = v[i]
    BY <1>1, <2>1, SubSeqProperties
  <2>3. SubSeq(u, 1, Len(u)) = u
    BY SubSeqFull
  <2>. DEFINE x == SubSeq(v, 1, Len(u))
  <2>. HIDE DEF x
  <2>4. x \in Seq(S) /\ Len(x) = Len(u) /\ \A i \in 1 .. Len(u) : x[i] = u[i]
    BY <1>1, <2>2 DEF x
  <2>5. x = u
    BY <2>4, SeqEqual
  <2>. QED  BY <2>3, <2>5 DEF x
<1>3. IsPrefix(u, v)
  BY <1>1, <1>2 DEF IsPrefix
<1>4. SubSeq(v, Len(u) + 1, Len(v)) \in Seq(S) /\ v = u \o SubSeq(v, Len(u) + 1, Len(v))
  BY <1>1, <1>3, PrefixRest
<1>5. SubSeq(v, Len(u) + 1, Len(v)) = r
  <2>. DEFINE x == SubSeq(v, Len(u) + 1, Len(v))
  <2>1. x \in Seq(S) /\ Cat(u, x) = Cat(u, r)
    BY <1>4 DEF v, Cat
  <2>2. PICK y \in Seq(S) : y = x
    BY <2>1
  <2>3. Cat(u, y) = Cat(u, r)
    BY <2>1, <2>2
  <2>4. y = r
    BY ONLY <2>3, u \in Seq(S), y \in Seq(S), r \in Seq(S), CatLaws
  <2>. QED  BY <2>2, <2>4
<1>. QED  BY <1>3, <1>5 DEF v

\* The heart of path_under_prefix() and rewrite_path(): a prefix that is the segments Q
\* but for slashes at its end matches the paths whose segments begin with Q, and the
\* others are what is left.
LEMMA PrefixOfSegments ==
    ASSUME NEW C, "/" \in C, NEW Q \in Segmented(C), NEW P \in Segmented(C), NEW route,
           route.path # None, TrimEnd(route.path) = Render(Q)
    PROVE  /\ PathUnderPrefix(Render(P), route.path) <=> IsPrefix(Q, P)
           /\ route.strip_prefix /\ IsPrefix(Q, P) =>
                 RewritePath(route, Render(P)) =
                    IF P = Q THEN <<"/">> ELSE Render(SubSeq(P, Len(Q) + 1, Len(P)))
<1>. DEFINE p == Render(Q)
            path == Render(P)
            rest == SubSeq(path, Len(p) + 1, Len(path))
<1>1. /\ p \in Seq(C) /\ path \in Seq(C)
      /\ p = <<>> <=> Q = <<>>
  BY RenderRooted
<1>2. PathUnderPrefix(path, route.path) <=>
         p = <<>> \/ (IsPrefix(p, path) /\ (rest = <<>> \/ Head(rest) = "/"))
  BY DEF PathUnderPrefix
<1>3. ASSUME IsPrefix(Q, P)
      PROVE  /\ IsPrefix(p, path)
             /\ rest = Render(SubSeq(P, Len(Q) + 1, Len(P))) /\ rest \in Seq(C)
             /\ Rooted(rest)
             /\ rest = <<>> <=> P = Q
  <2>. DEFINE R == SubSeq(P, Len(Q) + 1, Len(P))
              W == Seq(C \ {"/"})
  <2>1. R \in Segmented(C) /\ P = Q \o R
    <3>1. Q \in Seq(W) /\ P \in Seq(W)
      BY DEF Segmented
    <3>2. R \in Seq(W) /\ P = Q \o R
      <4>. HIDE DEF W
      <4>. QED  BY <3>1, <1>3, PrefixRest
    <3>. QED  BY <3>2 DEF Segmented
  <2>. HIDE DEF R
  <2>2. path = p \o Render(R) /\ Render(R) \in Seq(C) /\ Rooted(Render(R))
        /\ (Render(R) = <<>> <=> R = <<>>)
    BY <2>1, RenderConcat, RenderRooted
  <2>3. IsPrefix(p, path) /\ rest = Render(R)
    <3>. HIDE DEF p, path
    <3>1. PICK r \in Seq(C) : r = Render(R)
      BY <2>2
    <3>2. path = p \o r
      BY <2>2, <3>1
    <3>. QED  BY ONLY <1>1, <3>1, <3>2, RestPrefix DEF rest
  <2>4. R = <<>> <=> P = Q
    <3>1. Q \in Seq(W) /\ R \in Seq(W)
      BY <2>1 DEF Segmented
    <3>. HIDE DEF W
    <3>. QED  BY <2>1, <3>1, ConcatEqualIffEmpty
  <2>. QED  BY <2>2, <2>3, <2>4 DEF R
<1>. HIDE DEF rest
<1>4. ASSUME NEW x \in Seq(C) PROVE x = <<>> \/ Head(x) = "/" <=> Rooted(x)
  BY DEF Rooted
<1>5. IsPrefix(Q, P) => PathUnderPrefix(path, route.path)
  BY <1>2, <1>3, <1>4
<1>6. PathUnderPrefix(path, route.path) => IsPrefix(Q, P)
  <2>1. ASSUME Q = <<>> PROVE IsPrefix(Q, P)
    <3>1. Len(Q) = 0 /\ Len(P) \in Nat
      BY <2>1 DEF Segmented
    <3>. QED  BY <3>1, SubSeqEmpty DEF IsPrefix
  <2>2. ASSUME IsPrefix(p, path), rest = <<>> \/ Head(rest) = "/" PROVE IsPrefix(Q, P)
    <3>1. rest \in Seq(C) /\ path = p \o rest
      <4>. HIDE DEF p, path
      <4>. QED  BY <1>1, <2>2, PrefixRest DEF rest
    <3>2. Rooted(rest)
      BY <3>1, <2>2, <1>4
    <3>3. PICK R \in Segmented(C) : P = Q \o R
      <4>1. Render(P) = Cat(Render(Q), rest)
        BY <3>1 DEF Cat
      <4>2. PICK w \in Seq(C) : w = rest
        BY <3>1
      <4>3. Rooted(w) /\ Render(P) = Cat(Render(Q), w)
        BY <3>2, <4>1, <4>2
      <4>. QED  BY ONLY "/" \in C, <4>3, RenderPrefix
    <3>4. Q \in Seq(Seq(C \ {"/"})) /\ R \in Seq(Seq(C \ {"/"}))
      BY DEF Segmented
    <3>. QED  BY <3>3, <3>4, RestPrefix
  <2>. QED  BY <1>1, <1>2, <2>1, <2>2
<1>7. ASSUME route.strip_prefix, IsPrefix(Q, P)
      PROVE  RewritePath(route, path) =
                IF P = Q THEN <<"/">> ELSE Render(SubSeq(P, Len(Q) + 1, Len(P)))
  <2>1. RewritePath(route, path) = IF rest = <<>> THEN <<"/">> ELSE rest
    BY <1>3, <1>7 DEF RewritePath, rest
  <2>. QED  BY <2>1, <1>3, <1>7
<1>. QED  BY <1>5, <1>6, <1>7

\* A nonempty set of numbers up to n has a greatest element, which Max() finds.
LEMMA MaxOf ==
    ASSUME NEW n \in Nat, NEW S \in SUBSET (0 .. n), S # {}
    PROVE  Max(S) \in S /\ \A y \in S : Max(S) >= y
<1>. DEFINE D == {n - y : y \in S}
<1>1. D \in SUBSET Nat /\ D # {}
  <2>1. \A y \in S : n - y \in Nat
    OBVIOUS
  <2>2. PICK y \in S : TRUE
    OBVIOUS
  <2>3. n - y \in D
    OBVIOUS
  <2>. QED  BY <2>1, <2>3
<1>2. Min(D) \in D /\ \A d \in D : Min(D) <= d
  <2>. HIDE DEF D
  <2>. QED  BY <1>1, MinOf
<1>3. PICK x \in S : Min(D) = n - x
  BY <1>2
<1>4. \A y \in S : x >= y
  <2>. TAKE y \in S
  <2>1. n - y \in D /\ n - x <= n - y
    BY <1>2, <1>3
  <2>. QED  BY <2>1
<1>. QED  BY <1>3, <1>4 DEF Max

\* A path keeps its first slash, unless slashes are all there is.
LEMMA TrimRooted ==
    ASSUME NEW C, NEW x \in Seq(C), Rooted(x)
    PROVE  TrimEnd(x) \in Seq(C) /\ Rooted(TrimEnd(x))
<1>. DEFINE S == {0} \cup {i \in DOMAIN x : x[i] # "/"}
            m == Max(S)
<1>1. S \in SUBSET (0 .. Len(x)) /\ S # {} /\ Len(x) \in Nat
  OBVIOUS
<1>2. m \in 0 .. Len(x)
  <2>. HIDE DEF S
  <2>. QED  BY <1>1, MaxOf
<1>3. TrimEnd(x) = SubSeq(x, 1, m)
  BY DEF TrimEnd
<1>. HIDE DEF m
<1>4. /\ SubSeq(x, 1, m) \in Seq(C) /\ Len(SubSeq(x, 1, m)) = m
      /\ \A i \in 1 .. m : SubSeq(x, 1, m)[i] = x[i]
  <2>1. \A i \in 1 .. m : x[i] \in C
    BY <1>2
  <2>. QED  BY <2>1, <1>2, SubSeqProperties
<1>5. CASE m = 0
  BY <1>3, <1>4, <1>5, EmptySeq DEF Rooted
<1>6. CASE m # 0
  <2>1. 1 \in 1 .. m /\ x # <<>>
    BY <1>2, <1>6
  <2>. QED  BY <2>1, <1>3, <1>4 DEF Rooted
<1>. QED  BY <1>5, <1>6

\* Every path that begins with a slash is the rendering of some segments.
LEMMA EveryPathSegmented ==
    ASSUME NEW C, "/" \in C, NEW x \in Seq(C), Rooted(x)
    PROVE  \E Q \in Segmented(C) : x = Render(Q)
<1>. DEFINE Fails(z) == Rooted(z) /\ ~ \E Q \in Segmented(C) : z = Render(Q)
            Bad == {n \in Nat : \E z \in Seq(C) : Len(z) = n /\ Fails(z)}
<1>1. SUFFICES ASSUME Bad # {} PROVE FALSE
  <2>1. Len(x) \in Nat
    OBVIOUS
  <2>. QED  BY <2>1
<1>. DEFINE m == Min(Bad)
<1>2. Bad \in SUBSET Nat
  OBVIOUS
<1>3. m \in Bad /\ \A k \in Bad : m <= k
  <2>. HIDE DEF Bad
  <2>. QED  BY <1>1, <1>2, MinOf
<1>. HIDE DEF m
<1>4. PICK z \in Seq(C) : Len(z) = m /\ Fails(z)
  BY <1>3
<1>5. <<>> \in Segmented(C) /\ Render(<<>>) = <<>> /\ <<>> \in Seq(C \ {"/"})
  <2>1. <<>> \in Segmented(C) /\ <<>> \in Seq(C \ {"/"})
    BY DEF Segmented
  <2>. QED  BY <2>1, RenderRooted
<1>6. z # <<>>
  BY <1>4, <1>5
<1>7. PICK y \in Seq(C), c \in C : z = Append(y, c)
  <2>. HIDE DEF Fails
  <2>. QED  BY <1>4, <1>6, SequenceEmptyOrAppend
<1>8. Len(y) \in Nat /\ Len(z) = Len(y) + 1 /\ z = y \o <<c>>
      /\ (y = <<>> => z[1] = c) /\ (y # <<>> => z[1] = y[1])
  BY <1>7, AppendProperties, AppendIsConcat, EmptySeq
<1>9. Rooted(y) /\ (y = <<>> => c = "/")
  BY <1>4, <1>6, <1>8 DEF Rooted
<1>10. PICK Q \in Segmented(C) : y = Render(Q)
  <2>1. Len(y) \notin Bad
    <3>. HIDE DEF Bad, Fails
    <3>. QED  BY <1>3, <1>4, <1>8
  <2>. QED  BY <2>1, <1>8, <1>9
<1>11. CASE c = "/"
  <2>1. Render(Append(Q, <<>>)) = Render(Q) \o (<<"/">> \o <<>>)
    BY <1>5, <1>10, RenderAppend
  <2>2. <<"/">> \o <<>> = <<"/">>
    BY ConcatEmptySeq
  <2>3. Append(Q, <<>>) \in Segmented(C)
    BY <1>5, AppendProperties DEF Segmented
  <2>. QED  BY <2>1, <2>2, <2>3, <1>4, <1>8, <1>10, <1>11
<1>12. CASE c # "/"
  <2>. DEFINE W == Seq(C \ {"/"})
  <2>1. Q # <<>>
    BY <1>5, <1>9, <1>10, <1>12
  <2>2. PICK T \in Seq(W), s \in W : Q = Append(T, s)
    <3>1. Q \in Seq(W)
      BY DEF Segmented
    <3>. HIDE DEF W
    <3>. QED  BY <2>1, <3>1, SequenceEmptyOrAppend
  <2>3. T \in Segmented(C) /\ Append(s, c) \in W
    BY <1>12, <2>2, AppendProperties DEF Segmented
  <2>4. Append(T, Append(s, c)) \in Segmented(C)
    <3>1. T \in Seq(W)
      OBVIOUS
    <3>2. Append(T, Append(s, c)) \in Seq(W)
      <4>. HIDE DEF W
      <4>. QED  BY <2>3, AppendProperties
    <3>. QED  BY <3>2 DEF Segmented
  <2>5. y = Render(T) \o (<<"/">> \o s) /\ Render(T) \in Seq(C) /\ <<"/">> \o s \in Seq(C)
    BY <2>2, <2>3, <1>10, RenderAppend
  <2>6. Render(Append(T, Append(s, c))) = Render(T) \o (<<"/">> \o Append(s, c))
    BY <2>3, RenderAppend
  <2>7. Append(s, c) = s \o <<c>> /\ s \in Seq(C) /\ <<c>> \in Seq(C) /\ <<"/">> \in Seq(C)
    BY SeqMonotonic, AppendIsConcat
  <2>8. PICK r \in Seq(C), h \in Seq(C), t \in Seq(C), d \in Seq(C) :
           r = Render(T) /\ h = <<"/">> /\ t = s /\ d = <<c>>
    BY <2>5, <2>7
  <2>9. Cat(Cat(r, Cat(h, t)), d) = Cat(r, Cat(h, Cat(t, d)))
    <3>1. Cat(h, t) \in Seq(C)
      BY ONLY h \in Seq(C), t \in Seq(C), CatLaws
    <3>2. Cat(Cat(r, Cat(h, t)), d) = Cat(r, Cat(Cat(h, t), d))
      BY ONLY <3>1, r \in Seq(C), d \in Seq(C), CatLaws
    <3>3. Cat(Cat(h, t), d) = Cat(h, Cat(t, d))
      BY ONLY h \in Seq(C), t \in Seq(C), d \in Seq(C), CatLaws
    <3>. QED  BY ONLY <3>2, <3>3
  <2>10. z = Cat(Cat(r, Cat(h, t)), d)
    BY <1>8, <2>5, <2>8 DEF Cat
  <2>11. Render(Append(T, Append(s, c))) = Cat(r, Cat(h, Cat(t, d)))
    BY <2>6, <2>7, <2>8 DEF Cat
  <2>. QED  BY <2>4, <2>9, <2>10, <2>11, <1>4
<1>. QED  BY <1>11, <1>12

\* Every prefix that validate() accepts is the rendering of some segments, but for slashes
\* at its end, and matches exactly the paths whose segments begin with these.
LEMMA PrefixesSegmented ==
    ASSUME NEW C, "/" \in C, NEW route, route.path # None, route.path \in Seq(C),
           Rooted(route.path)
    PROVE  \E Q \in Segmented(C) :
              /\ TrimEnd(route.path) = Render(Q)
              /\ \A P \in Segmented(C) : MatchesSegments(route, Q, P)
<1>1. PICK x \in Seq(C) : x = TrimEnd(route.path) /\ Rooted(x)
  <2>1. PICK y \in Seq(C) : y = route.path
    OBVIOUS
  <2>2. Rooted(y)
    BY <2>1
  <2>3. TrimEnd(y) \in Seq(C) /\ Rooted(TrimEnd(y))
    BY ONLY <2>2, TrimRooted
  <2>. QED  BY <2>1, <2>3
<1>2. PICK Q \in Segmented(C) : x = Render(Q)
  BY ONLY "/" \in C, <1>1, EveryPathSegmented
<1>3. ASSUME NEW P \in Segmented(C) PROVE MatchesSegments(route, Q, P)
  <2>1. TrimEnd(route.path) = Render(Q)
    BY <1>1, <1>2
  <2>. QED  BY ONLY "/" \in C, route.path # None, <2>1, PrefixOfSegments DEF MatchesSegments
<1>. QED  BY <1>1, <1>2, <1>3

\* A route of a running server that has a prefix is one of a configuration that was
\* validated.
LEMMA PrefixValid ==
    ASSUME SitesInv, Up, NEW i \in DOMAIN Router, Router[i].path # None
    PROVE  /\ config \in Configs /\ Validate(config)
           /\ \E k \in DOMAIN config.routes : Router[i].path = config.routes[k].path
           /\ Router[i].path # <<>> /\ Head(Router[i].path) = "/"
<1>1. PICK rs : Ordered(rs)
  BY UpOrdered
<1>2. ~(i \in 1 .. Len(rs))
  BY <1>1, SiteRoute
<1>. DEFINE k == i - Len(rs)
<1>3. k \in DOMAIN config.routes /\ k \in 1 .. Len(config.routes) /\ i = Len(rs) + k
  BY <1>1, <1>2 DEF Ordered
<1>4. Router[i].path = config.routes[k].path
  BY <1>1, <1>3 DEF Ordered
<1>5. ValidRoute(config.routes[k]) /\ Validate(config)
  BY <1>3, UpOrdered DEF Validate
<1>. HIDE DEF k
<1>6. Router[i].path # <<>> /\ Head(Router[i].path) = "/"
  BY <1>4, <1>5 DEF ValidRoute
<1>7. config \in Configs
  BY DEF SitesInv, OthersTyped
<1>. QED  BY <1>3, <1>4, <1>5, <1>6, <1>7

\* The paths tried are paths of segments.
LEMMA TriedSegmented ==
    /\ "/" \in Characters \cup {"/"}
    /\ \A P \in Paths \cup {<<>>} : P \in Segmented(Characters \cup {"/"})
<1>1. (Characters \cup {"/"}) \ {"/"} = Characters
  BY PathsTried
<1>2. <<>> \in Seq(Seq(Characters))
  OBVIOUS
<1>. QED  BY <1>1, <1>2, PathsTried DEF Segmented

\* The prefixes of a running server's routes match by segments.
LEMMA InvSegments == SitesInv => RoutedBySegments
<1>. SUFFICES ASSUME SitesInv, Up, NEW i \in DOMAIN Router, Router[i].path # None
              PROVE  \E Q \in Paths \cup {<<>>} :
                        /\ TrimEnd(Router[i].path) = Render(Q)
                        /\ \A P \in Paths : MatchesSegments(Router[i], Q, P)
  BY DEF RoutedBySegments
<1>1. PICK Q \in Paths \cup {<<>>} : TrimEnd(Router[i].path) = Render(Q)
  BY PrefixValid, PathsTried
<1>2. ASSUME NEW P \in Paths PROVE MatchesSegments(Router[i], Q, P)
  <2>. DEFINE C == Characters \cup {"/"}
  <2>1. "/" \in C /\ Q \in Segmented(C) /\ P \in Segmented(C)
    BY TriedSegmented
  <2>. HIDE DEF C
  <2>. QED  BY <1>1, <2>1, PrefixOfSegments DEF MatchesSegments
<1>. QED  BY <1>1, <1>2

\* What RoutedBySegments says, of all paths over the characters C instead of those that
\* are tried.
SegmentsOver(C) ==
    Up =>
       \A i \in DOMAIN Router :
          Router[i].path # None /\ Router[i].path \in Seq(C) =>
             \E Q \in Segmented(C) :
                /\ TrimEnd(Router[i].path) = Render(Q)
                /\ \A P \in Segmented(C) : MatchesSegments(Router[i], Q, P)

-----------------------------------------------------------------------------
(* The theorems.                                                           *)

\* The invariant holds throughout.
LEMMA Invariance == Spec => []SitesInv
  BY InitInv, StepInv, PTL DEF Spec

\* Every state has its types: in particular every site file that was written whole
\* parses as a site.
THEOREM TypesCorrect == Spec => []TypeOK
  BY Invariance, InvTyped, PTL

\* A site file reads as what the last command for it asked for, unless a write failed,
\* and the server has read nothing that was not asked for.
THEOREM FilesAsAsked == Spec => []SitesAsAsked
  BY Invariance, InvAsAsked, PTL

\* Requests for the host of an enabled site get to that site, all others where they would
\* without sites, and certificates are for the domains of the enabled sites.
THEOREM RequestsReachSites == Spec => []SitesServed
  BY Invariance, InvServed, PTL

\* Every route of a running server has a directory or an upstream to serve with.
THEOREM RoutesAllServe == Spec => []EveryRouteServes
  BY Invariance, InvHandled, PTL

\* A prefix matches whole segments of the paths that are tried, and rewrite_path() takes
\* these away and leaves a path that begins with a slash.
THEOREM PrefixesMatchSegments == Spec => []RoutedBySegments
  BY Invariance, InvSegments, PTL

\* The same for every path there is, over any set of characters.
THEOREM AnyPathMatchesSegments ==
    ASSUME NEW C, "/" \in C
    PROVE  Spec => []SegmentsOver(C)
<1>1. SitesInv => SegmentsOver(C)
  <2>. SUFFICES ASSUME SitesInv, Up, NEW i \in DOMAIN Router, Router[i].path # None,
                       Router[i].path \in Seq(C)
                PROVE  \E Q \in Segmented(C) :
                          /\ TrimEnd(Router[i].path) = Render(Q)
                          /\ \A P \in Segmented(C) : MatchesSegments(Router[i], Q, P)
    BY DEF SegmentsOver
  <2>1. Rooted(Router[i].path)
    BY PrefixValid DEF Rooted
  <2>. QED  BY <2>1, PrefixesSegmented
<1>. QED  BY <1>1, Invariance, PTL
-----------------------------------------------------------------------------
(* Starts that fail.                                                       *)

\* The file of domain d is in the way of a start: it was removed after the directory
\* was listed, a command is writing it, or one has failed to.
InTheWay(d) ==
    \/ files[d] = Absent /\ Last(asked[d]) = Absent
    \/ /\ files[d] = Empty
       /\ \/ d \in damaged
          \/ \E o \in Operators : command[o].stage = "write" /\ command[o].file = d

\* A start fails for what the main file says, or for a site file in the way.
FailsWithReason ==
    server.stage # "failed" /\ server'.stage = "failed" =>
       \/ server.stage = "down" /\ ~Validate(config)
       \/ server.stage = "loading" /\ \E d \in server.pending : InTheWay(d)
       \/ server.stage = "loaded" /\ ~config.sound

\* A file that does not parse is truncated: whatever else is there was written by hand
\* or by a command, and reads as a site.
LEMMA UnreadInTheWay ==
    ASSUME SitesInv, NEW d \in Domains, files[d] = Absent \/ FromToml(files[d]) = None
    PROVE  InTheWay(d)
<1>1. Reads(files[d], Last(asked[d]), d)
  BY DEF SitesInv, FilesRead
<1>2. CASE files[d] = Empty
  BY <1>2 DEF SitesInv, EmptyKnown, InTheWay
<1>3. CASE files[d] = Absent /\ Last(asked[d]) = Absent
  BY <1>3 DEF InTheWay
<1>4. CASE files[d] # Absent /\ FromToml(files[d]) \in Site
  BY <1>4, SitesConstants
<1>. QED  BY <1>1, <1>2, <1>3, <1>4 DEF Reads

\* The steps of the server that end a start.
LEMMA StepFails ==
    ASSUME SitesInv, Next
    PROVE  FailsWithReason
<1>1. /\ server \in Server
      /\ Fresh("loading", {d \in Domains : files[d] # Absent}).stage = "loading"
      /\ Down.stage = "down" /\ Failed.stage = "failed"
  BY DEF SitesInv, OthersTyped, Fresh, Down, Failed
<1>2. ASSUME server' = server PROVE FailsWithReason
  BY <1>2 DEF FailsWithReason
<1>3. CASE Start
  BY <1>1, <1>3 DEF Start, FailsWithReason
<1>4. CASE ReadSite
  <2>1. PICK i \in DOMAIN Sorted :
           /\ Sorted[i] \in server.pending
           /\ \/ files[Sorted[i]] = Absent \/ FromToml(files[Sorted[i]]) = None
              \/ \E x, y, z, w : server' = [server EXCEPT !.pending = x, !.sites = y,
                                               !.routes = z, !.domains = w]
    BY <1>4 DEF ReadSite
  <2>2. server.stage = "loading" /\ Sorted[i] \in Domains
    BY <1>1, <1>4, <2>1 DEF ReadSite, Server
  <2>3. CASE files[Sorted[i]] = Absent \/ FromToml(files[Sorted[i]]) = None
    BY <2>1, <2>2, <2>3, UnreadInTheWay DEF FailsWithReason
  <2>4. CASE \E x, y, z, w : server' = [server EXCEPT !.pending = x, !.sites = y,
                                           !.routes = z, !.domains = w]
    <3>1. server'.stage = server.stage
      BY <1>1, <2>4 DEF Server
    <3>. QED  BY <3>1 DEF FailsWithReason
  <2>. QED  BY <2>1, <2>3, <2>4
<1>5. CASE Loaded
  <2>1. server'.stage = "loaded"
    BY <1>1, <1>5 DEF Loaded, Server
  <2>. QED  BY <2>1 DEF FailsWithReason
<1>6. CASE Assemble
  <2>1. [server EXCEPT !.stage = "up"].stage = "up"
    BY <1>1 DEF Server
  <2>. QED  BY <1>1, <1>6, <2>1 DEF Assemble, FailsWithReason
<1>7. CASE Restart
  BY <1>1, <1>7 DEF Restart, FailsWithReason
<1>8. CASE \E o \in Operators : CommandStep(o)
  BY <1>2, <1>8 DEF CommandStep, OpenFile, WriteFile, WriteFails
<1>9. CASE \E o \in Operators, d \in Domains :
              \/ \E f \in Options : SiteAdd(o, d, f)
              \/ \E enabled \in BOOLEAN : SiteSetEnabled(o, d, enabled)
              \/ SiteRemove(o, d)
  BY <1>2, <1>9 DEF SiteAdd, SiteSetEnabled, SiteRemove
<1>. QED
  BY <1>3, <1>4, <1>5, <1>6, <1>7, <1>8, <1>9 DEF Next, ServerStep

\* Whatever commands run while the server reads the site files, its start fails only
\* for a main file that is not valid or sound, or because it met a file that was
\* removed since the directory was listed, that a command is writing at that moment,
\* or that a failed write has left empty: no sequence of completed commands leaves a
\* file that stops it.
THEOREM StartsFailWithReason == Spec => [][FailsWithReason]_vars
<1>1. SitesInv /\ [Next]_vars => [FailsWithReason]_vars
  BY StepFails
<1>. QED  BY <1>1, Invariance, PTL DEF Spec
=============================================================================
