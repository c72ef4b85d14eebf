------------------------------- MODULE MCSites -------------------------------
(* Model pages and listings of the four sites, look-alikes of them on other   *)
(* hosts and schemes, and the addresses people type for a library server.     *)
EXTENDS Sites

MCSpecial == {"http", "https", "file"}
MCDigits == {"1", "2", "80"}
MCTokens == {"model", "models", "en", "thing", ":", "1", "2", "-", "slug", "slug%", "api", ".", "..", "%"}
MCDecoded == [t \in MCTokens |-> IF t = "slug%" THEN "slug" ELSE t]
MCAppOrigin == [scheme |-> "http", host |-> <<"127.0.0.1">>, port |-> "1"]

Text(scheme, host, port, path) ==
    [scheme |-> scheme, slashes |-> "//", creds |-> FALSE, host |-> host, port |-> port,
     path |-> path, query |-> FALSE, fragment |-> FALSE]

SiteHosts == {<<"thingiverse", ".com">>, <<"printables", ".com">>, <<"makerworld", ".com">>, <<"cults3d", ".com">>}

Paths ==
    {<<>>, <<<<>>>>, <<<<"thing", ":", "1">>>>, <<<<"thing", ":", "1">>, <<"api">>>>,
     <<<<"thing", ":", "1", "-">>>>, <<<<"model">>, <<"1", "-", "slug">>>>,
     <<<<"model">>, <<"1">>, <<>>>>, <<<<"models">>, <<"1", "-", "slug">>>>,
     <<<<"en">>, <<"models">>, <<"1", "-", "slug">>>>, <<<<"models">>, <<"1", "2", "slug">>>>,
     <<<<"models">>, <<"models">>, <<"2">>>>, <<<<"en">>, <<"slug%">>>>, <<<<"en">>, <<"slug">>>>,
     <<<<"api">>, <<"..">>>>, <<<<"api">>, <<".">>, <<"slug">>>>}

ModelPages ==
    {Text("https", host, "", path) : host \in SiteHosts, path \in Paths}
    \union {Text("http", <<"www.">> \o host, "", path) : host \in SiteHosts, path \in Paths}

Lookalikes ==
    {Text("https", host, port, path) :
        host \in {<<"thingiverse">>, <<"www.", "thingiverse">>, <<"thingiverse", ".com">>, <<"www.">>, <<"localhost">>},
        port \in {"", "1", "80"}, path \in {<<>>, <<<<"1">>>>, <<<<"thing", ":", "1">>>>}}

Machines == {<<"localhost">>, <<"127.0.0.1">>, <<"[", ":", ":", "1", "]">>}

Typed ==
    {[Text(scheme, host, port, path) EXCEPT !.slashes = slashes] :
        scheme \in {"http", "https"}, host \in Machines, port \in {"", "1", "80"},
        path \in {<<>>, <<<<>>>>, <<<<"api">>, <<"..">>>>}, slashes \in {"//", ""}}
    \union {[Text("http", host, port, <<<<"thing", ":", "1">>>>)
                EXCEPT !.creds = creds, !.query = query, !.fragment = fragment] :
        host \in Machines \union {<<"thingiverse", ".com">>}, port \in {"", "1"},
        creds \in BOOLEAN, query \in BOOLEAN, fragment \in BOOLEAN}

Elsewhere ==
    {[Text(scheme, <<>>, "", path) EXCEPT !.slashes = IF scheme = "file" THEN "//" ELSE ""] :
        scheme \in {"", "file", "data", "blob", "javascript", "about", "x"},
        path \in {<<<<"thingiverse", ":", "1">>>>, <<<<"blank">>>>, <<<<"1">>>>}}

MCTexts == ModelPages \union Lookalikes \union Typed \union Elsewhere
=============================================================================
