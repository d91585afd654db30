----------------------------- MODULE MCWebRequest -----------------------------
(***************************************************************************)
(* WebRequest for requests that vary in one respect each and are right in  *)
(* the others: the address, the asking page, the domain of the asking      *)
(* page, the arguments, the private key, the login.                        *)
(***************************************************************************)
EXTENDS WebRequest

\* Names of up to four characters, and some with three labels.
UpToFour == UNION {[1..n -> Char \ {Colon}] : n \in 1..4}
Longer   == {<<"a", ".", "b", ".", "a">>, <<"b", ".", "b", ".", "a">>,
             <<"a", "b", ".", "a">>, <<"b", ".", "a", "b", ".", "a">>}
\* IPv6 addresses without their brackets, and what is left of them.
Addresses == {<<":", ":", "a">>, <<":", ":", "b">>, <<":">>, <<>>}
SomeDomains == UpToFour \cup Longer \cup Addresses

ab == <<"a", ".", "b">>
bb == <<"b", "b">>

Page(scheme, domain, port) == [scheme |-> scheme, domain |-> domain, port |-> port]
Host(domain, port) == [domain |-> domain, port |-> port]

Setting == [ssl |-> FALSE, redirect |-> TRUE, fbidhttp |-> TRUE, tdstream |-> FALSE,
            debug |-> FALSE, origin |-> "same", urls |-> {}, reject |-> FALSE,
            encoding |-> FALSE]

Request == [protocol |-> "http", peer |-> "private", downstream |-> TRUE,
            iphost |-> FALSE, host |-> Host(ab, NoPort), header |-> <<>>,
            event |-> <<>>, hostname |-> <<"word">>, port |-> <<>>,
            username |-> TRUE, known |-> TRUE, reachable |-> TRUE, file |-> NoFile]

PasswordServer == [chains |-> {<<"password">>}, rounds |-> <<>>]
ByPassword == [key |-> "none", password |-> TRUE, totp |-> "none"]
ByKey      == [key |-> "good", password |-> FALSE, totp |-> "none"]

ACase(s, r, m, l) == [setting |-> s, request |-> r, server |-> m, login |-> l]

AddressCases ==
    {ACase([Setting EXCEPT !.ssl = c[1], !.redirect = c[2], !.fbidhttp = c[3],
                           !.tdstream = c[4]],
           [Request EXCEPT !.downstream = c[5], !.iphost = c[6], !.peer = c[7],
                           !.protocol = c[8]],
           PasswordServer, ByPassword) :
        c \in {d \in BOOLEAN \X BOOLEAN \X BOOLEAN \X BOOLEAN \X BOOLEAN \X BOOLEAN
                     \X {"public", "private"} \X {"http", "https"} :
               d[8] = "https" => d[1]}}

Pages == {Page(s, d, p) : s \in {"http", "https"}, d \in {ab, bb}, p \in {80, 443, 8080}}
Urls  == {Page(s, d, p) : s \in {"", "http", "https"}, d \in {ab, bb},
                          p \in {NoPort, 80, 443, 8080}}
Policies ==
    {[Setting EXCEPT !.origin = o] : o \in {"*", "same"}}
    \cup {[Setting EXCEPT !.debug = TRUE]}
    \cup {[Setting EXCEPT !.origin = "list", !.urls = {url}] : url \in Urls}
    \cup {[Setting EXCEPT !.origin = "list",
                          !.urls = {Page("", bb, 8080), Page("https", ab, 443)}]}
Hosts == {Host(ab, NoPort), Host(ab, 8080)}

OriginCases ==
    {ACase(s, [Request EXCEPT !.host = h, !.header = <<p>>], PasswordServer, ByPassword) :
        s \in Policies, h \in Hosts, p \in Pages}
    \cup {ACase(s, [Request EXCEPT !.host = h, !.event = <<p>>,
                                   !.header = <<Page("http", ab, 80)>>],
                PasswordServer, ByPassword) :
        s \in Policies, h \in Hosts, p \in Pages}

DomainCases ==
    {ACase([Setting EXCEPT !.origin = "primary"],
           [Request EXCEPT !.host = Host(d, NoPort), !.header = <<Page("http", e, 8080)>>],
           PasswordServer, ByPassword) :
        d, e \in UpToFour \cup Longer}
    \cup {ACase([Setting EXCEPT !.origin = "primary"],
           [Request EXCEPT !.host = Host(d, h), !.header = <<Page("http", e, p)>>],
           PasswordServer, ByPassword) :
        d, e \in {<<":", ":", "a">>, <<":", ":", "b">>, ab},
        h \in {NoPort, 8080}, p \in {80, 8080}}

Names == {<<>>, <<"word">>, <<"word", "">>, <<"">>, <<"", "">>, <<"word", "bad">>,
          <<"word", "number">>, <<"number", "word">>, <<"number", "">>, <<"ipv6">>,
          <<"number", "number", "number", "number">>}

ArgumentCases ==
    {ACase([Setting EXCEPT !.reject = rj, !.encoding = en],
           [Request EXCEPT !.hostname = n, !.port = p, !.username = u, !.known = k,
                           !.reachable = re],
           PasswordServer, ByPassword) :
        rj \in BOOLEAN, en \in BOOLEAN, n \in Names,
        p \in {<<>>, <<0>>, <<1>>, <<22>>, <<65535>>, <<65536>>},
        u \in BOOLEAN, k \in BOOLEAN, re \in BOOLEAN}

Lines == {<<"text">>, <<"OTHER">>, <<"RSA">>, <<"DSA">>, <<"EC">>, <<"OPENSSH">>,
          <<"text", "OPENSSH", "text">>, <<"OTHER", "EC">>, <<"text", "DSA", "RSA">>}

SomeFiles == {[lines |-> x, type |-> t, encrypted |-> e, passphrase |-> p] :
                x \in Lines, t \in Types, e \in BOOLEAN, p \in {"", "right", "wrong"}}

KeyCases ==
    {ACase(Setting, [Request EXCEPT !.file = f],
           [chains |-> {<<"publickey">>}, rounds |-> <<>>], ByKey) : f \in SomeFiles}

Chains == {<<"publickey">>, <<"password">>, <<"keyboard-interactive">>,
           <<"publickey", "keyboard-interactive">>, <<"publickey", "password">>,
           <<"password", "keyboard-interactive">>}
Rounds == {<<>>, << <<"password">> >>, << <<"verification">> >>,
           << <<"password">>, <<"verification">> >>, << <<"password", "verification">> >>,
           << <<>>, <<"verification">>, <<"password">> >>, << <<"other">> >>}

SomeServers ==
    {[chains |-> {c, d}, rounds |-> r] : c, d \in Chains, r \in Rounds}
SomeLogins == [key : {"none", "good", "bad"}, password : BOOLEAN,
               totp : {"none", "good", "bad"}]

AKey == [lines |-> <<"RSA">>, type |-> "RSA", encrypted |-> FALSE, passphrase |-> ""]

LoginCases ==
    {ACase(Setting,
           [Request EXCEPT !.file = IF l.key = "none" THEN NoFile ELSE AKey], m, l) :
        m \in SomeServers, l \in SomeLogins}

Families == {AddressCases, OriginCases, DomainCases, ArgumentCases, KeyCases,
             LoginCases}

===============================================================================
