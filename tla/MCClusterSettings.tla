------------------------ MODULE MCClusterSettings ------------------------
EXTENDS ClusterSettings, TLC

LowerMC == "a" :> "a" @@ "A" :> "a" @@ "w" :> "w" @@ "*" :> "*"
CoversMC == "a" :> {"a"} @@ "w" :> {"w"} @@ "*" :> {"a", "w"}
LowerCaseMC == [s \in {"v", "V", "d", "x", ""} |-> IF s = "V" THEN "v" ELSE s]
PathsMC == {<<>>, <<"v">>, <<"V", "x">>, <<"v", "x">>, <<"v", "d">>, <<"v", "d", "x">>}

Services == "web" :> [targets |-> {8080}, job |-> FALSE] @@ "jobs" :> [targets |-> {1}, job |-> TRUE]
Web == [service |-> "web", host |-> Nothing, port |-> 0]
Elsewhere == [service |-> Nothing, host |-> "w", port |-> 9]
Rule(matches) == [matches |-> matches, rewrite |-> Nothing, backend |-> Web]
Match(kind, path) == [kind |-> kind, ignore_case |-> kind = "prefix", path |-> path]
Route(hosts, canonical, tls, http, rules) ==
    [hosts |-> hosts, canonical |-> canonical, tls |-> tls, http |-> http, rules |-> rules]
Gateway(routes, tcp) ==
    [gateway |-> [tls |-> "serve", http |-> "redirect", routes |-> routes, tcp |-> tcp], services |-> Services]
Fallback == <<Rule(<<>>)>>
Tcp(port) == [listen |-> port, service |-> "web", port |-> 8080]

\* A file whose rules are in no order of precedence.
Site == Gateway(<<Route(<<"A", "w">>, "A", Nothing, Nothing,
                   <<Rule(<<>>), Rule(<<Match("regex", {<<"v">>, <<"v", "x">>})>>),
                     [Rule(<<Match("prefix", <<"v", "">>), Match("prefix", <<"v", "x">>)>>)
                        EXCEPT !.rewrite = "strip_prefix"],
                     [Rule(<<Match("exact", <<"v", "x">>)>>) EXCEPT !.backend = Elsewhere]>>)>>, <<>>)
Plain == Gateway(<<Route(<<"a">>, Nothing, "disabled", "serve", Fallback)>>, <<>>)
Wild == Gateway(<<Route(<<"*">>, Nothing, Nothing, "serve", <<Rule(<<Match("prefix", <<>>)>>)>>)>>, <<Tcp(81)>>)
Ports == Gateway(<<>>, <<Tcp(81), Tcp(82)>>)
\* Files that are refused.
Twice == Gateway(<<Route(<<"a">>, Nothing, Nothing, Nothing, Fallback),
                   Route(<<"A">>, Nothing, Nothing, Nothing, Fallback)>>, <<>>)
NoTls == Gateway(<<Route(<<"w">>, Nothing, "disabled", Nothing, Fallback)>>, <<>>)
\* An alias that covers the canonical name.
Looped == Gateway(<<Route(<<"*", "w">>, "w", Nothing, Nothing, Fallback)>>, <<>>)

SpecsMC == {Site, Plain, Wild, Ports, Twice, NoTls, Looped}

With(k, v) == [set |-> k :> v, unset |-> {}]
Without(k) == [set |-> <<>>, unset |-> {k}]
CliUpdatesMC ==
    {With("interval", 0), With("proxy", "p"), With("image", "custom"), With("domain", "A"), With("domain", "*"),
     With("window", 1), With("window", 9), With("listen", {80, 81}), With("listen", {2019}),
     With("initial", 2), With("initial", 3), With("max", 3)}
    \union {Without(k) : k \in {"proxy", "image", "domain", "max"}}
UpdatesMC ==
    {NoUpdate, With("listen", {2019}), With("listen", {}), With("max", 0),
     [set |-> "initial" :> 3 @@ "max" :> 3 @@ "domain" :> "w", unset |-> {"listen"}],
     [set |-> "image" :> "custom", unset |-> {"image"}]}
DeployPathMC == <<"v", "d">>
OrderMC == <<"one", "two">>
==========================================================================
