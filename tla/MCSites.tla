------------------------------- MODULE MCSites -------------------------------
(* Instances of Sites.                                                     *)
EXTENDS Sites

CONSTANTS a, b, app1, fpm1, origin, o1, o2

InOrder == <<a, b>>

Flags == [app : Apps \cup {None}, php : BOOLEAN, static : BOOLEAN, no_tls : BOOLEAN,
          force : BOOLEAN]

\* One flag at a time, and an application with --force.
SomeFlags ==
    {f \in Flags : f.app # None => ~f.php /\ ~f.static /\ ~f.no_tls}
    \cap {f \in Flags : ~(f.php /\ f.static) /\ (f.force => f.app # None)}

\* A file as short as it can be, with the address of php-fpm.
ByHand ==
    {[text |-> [domain |-> b, root |-> "root", type |-> "php", php_fpm |-> fpm1],
      site |-> [domain |-> b, root |-> "root", type |-> "php", tls |-> "auto",
                app |-> None, php_fpm |-> fpm1, enabled |-> TRUE]]}

Laid == (a :> {}) @@ (b :> {"composer.json", "public"})

\* Paths of up to three segments.
Segments == {<<>>, <<"v">>, <<"v", "1">>}
AllPaths == UNION {[1 .. n -> Segments] : n \in 1 .. 3}

Origin == << [address |-> origin, port |-> TRUE] >>
Route(host, path, upstream, root, strip) ==
    [host |-> host, path |-> path, upstream |-> upstream, root |-> root,
     strip_prefix |-> strip]
CatchAll == Route(None, None, Origin, None, FALSE)
Api(path) == Route(None, path, Origin, None, TRUE)
Main(routes, sections, domains) ==
    [routes |-> routes, sections |-> sections, domains |-> domains, blank |-> {},
     zero |-> {}, sound |-> TRUE]

\* Configurations that start, and some that validate() or main() refuses.
SomeConfigs ==
    { Main(<<CatchAll>>, {"acme"}, <<a>>),
      Main(<<Api(<<"/", "v", "/">>), Api(<<"/">>), CatchAll>>, {}, <<>>),
      Main(<<Route(a, <<"/", "v", "/", "v", "1">>, Origin, None, TRUE)>>, {"tls"}, <<>>),
      Main(<<Route(None, None, <<>>, None, FALSE), CatchAll>>, {}, <<>>),
      [Main(<<CatchAll>>, {}, <<>>) EXCEPT !.sound = FALSE],
      [Main(<<CatchAll>>, {}, <<>>) EXCEPT !.zero = {"max_entries"}],
      Main(<<CatchAll>>, {"http3"}, <<>>) }
=============================================================================
