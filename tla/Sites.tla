-------------------------------- MODULE Sites --------------------------------
(***************************************************************************)
(* The URLs the program decides by: the key by which two pages are the     *)
(* same model (match_key.rs, browse/registry.rs, browse/land.rs), where    *)
(* the two webviews may go (nav.rs, browse/policy.rs), the address of a    *)
(* library server (remote.rs) and the origins and cookies a server answers *)
(* with (origin.rs, session.rs, dev_proxy.rs).                             *)
(*                                                                         *)
(* A text is what somebody typed, a site linked or a project stores:       *)
(*   scheme   "" where the URL parser refuses the text                     *)
(*   slashes  "//", or "" for `http:host`, which the parser takes as well  *)
(*   creds    whether it carries a user or a password                      *)
(*   host     tokens, the first of them "www." where it has that prefix    *)
(*   port     "" where there is none                                       *)
(*   path     segments, each a sequence of tokens; the last one is empty   *)
(*            after a trailing slash                                       *)
(*   query, fragment   whether it has a non-empty one                      *)
(* A colon is always a token of its own, so that two texts are the same    *)
(* string only if they are the same tokens. Case and white space, which    *)
(* every reader below folds, are left out.                                 *)
(***************************************************************************)
EXTENDS Naturals, Sequences, FiniteSets

CONSTANTS
    Texts,          \* the texts that are tried
    Special,        \* the schemes whose URLs have a host and a hierarchical path
    Digits,         \* the tokens that are runs of digits
    Decoded,        \* Decoded[t]: what percent-decoding makes of the token t
    AppOrigin       \* the origin of the desktop app's own server

SE == INSTANCE SequencesExt

VARIABLES url, previous     \* the text at hand and the one before it

vars == <<url, previous>>

-----------------------------------------------------------------------------
(* The URL parser (the `url` crate).                                       *)

Http == {"http", "https"}

DefaultPort(scheme) == IF scheme = "http" THEN "80" ELSE "443"

\* Dot segments are resolved; a last one leaves the directory it names.
Resolve(path) ==
    LET Add(done, i) ==
            IF path[i] \notin {<<".">>, <<"..">>} THEN Append(done, path[i])
            ELSE LET up == IF path[i] = <<"..">> /\ done # <<>> THEN SE!Front(done) ELSE done
                 IN  IF i = Len(path) THEN Append(up, <<>>) ELSE up
    IN  SE!FoldLeft(Add, <<>>, [i \in DOMAIN path |-> i])

Parses(text) == text.scheme # ""

Parse(text) ==
    IF text.scheme \notin Special THEN text
    ELSE [text EXCEPT !.slashes = "//",
                      !.port = IF @ = DefaultPort(text.scheme) THEN "" ELSE @,
                      !.path = IF @ = <<>> THEN <<<<>>>> ELSE Resolve(@)]

\* Origin::ascii_serialization
Origin(u) == [scheme |-> u.scheme, host |-> u.host, port |-> u.port]

NoOrigin == [scheme |-> "", host |-> <<>>, port |-> ""]

Joined(segments) == SE!FlattenSeq([i \in DOMAIN segments |-> <<"/">> \o segments[i]])

\* Url::path: a URL that is not hierarchical has the rest of its text there.
PathText(u) == IF u.scheme \in Special THEN Joined(u.path) ELSE SE!FlattenSeq(u.path)

-----------------------------------------------------------------------------
(* match_key, and the rows of the registry it is given.                    *)

Row(id, host, kind, marker) == [id |-> id, host |-> host, kind |-> kind, marker |-> marker]

Rows ==
    <<Row("thingiverse", <<"thingiverse", ".com">>, "thing", ""),
      Row("printables", <<"printables", ".com">>, "idAfter", "model"),
      Row("makerworld", <<"makerworld", ".com">>, "idAfter", "models"),
      Row("cults3d", <<"cults3d", ".com">>, "lastSegment", "")>>

Segments(u) ==
    IF u.scheme \in Special THEN SelectSeq(u.path, LAMBDA segment : segment # <<>>) ELSE <<>>

First(S) == CHOOSE i \in S : \A j \in S : i <= j

Where(text, token) == {i \in DOMAIN text : text[i] = token}

\* 0 where there is none.
Latest(S) == CHOOSE i \in S \union {0} : \A j \in S : j <= i

\* What a row reads from a URL that is no model page.
NoIdentity == <<>>

LeadingDigits(segment) ==
    SE!LongestCommonPrefix({segment, SelectSeq(segment, LAMBDA token : token \in Digits)})

\* The id is digits up to the end of the segment or to a dash.
IdIn(segment) ==
    LET digits == LeadingDigits(segment)
        rest == SubSeq(segment, Len(digits) + 1, Len(segment))
    IN  IF rest = <<>> \/ Head(rest) = "-" THEN digits ELSE NoIdentity

IdAfter(u, marker) ==
    LET parts == Segments(u)
        marked == {i \in DOMAIN parts : parts[i] = <<marker>>}
    IN  IF marked = {} \/ First(marked) = Len(parts) THEN NoIdentity
        ELSE IdIn(parts[First(marked) + 1])

IsThing(segment) ==
    /\ Len(segment) > 2 /\ segment[1] = "thing" /\ segment[2] = ":"
    /\ \A i \in 3 .. Len(segment) : segment[i] \in Digits

ThingId(u) ==
    LET parts == Segments(u)
        things == {i \in DOMAIN parts : IsThing(parts[i])}
    IN  IF things = {} THEN NoIdentity
        ELSE SubSeq(parts[First(things)], 3, Len(parts[First(things)]))

LastSegment(u) ==
    LET parts == Segments(u)
    IN  IF parts = <<>> THEN NoIdentity
        ELSE [i \in DOMAIN SE!Last(parts) |-> Decoded[SE!Last(parts)[i]]]

Identity(row, u) ==
    CASE row.kind = "thing" -> ThingId(u)
      [] row.kind = "idAfter" -> IdAfter(u, row.marker)
      [] row.kind = "lastSegment" -> LastSegment(u)

StripWww(host) == IF host # <<>> /\ Head(host) = "www." THEN Tail(host) ELSE host

WithPort(host, separator, port) == IF port = "" THEN host ELSE host \o <<separator, port>>

\* What a row's hosts are compared with.
NormalisedHost(u) == WithPort(StripWww(u.host), ":", u.port)

RowsOf(u) == SelectSeq(Rows, LAMBDA row : row.host = NormalisedHost(u))

\* A bug: the port is set off by the colon that sets off a site's id.
FallbackHostByColon(u) ==
    WithPort(IF StripWww(u.host) = <<>> THEN u.host ELSE StripWww(u.host), ":", u.port)

\* A host the parser will not set, as an empty one, stays what it was.
FallbackHost(u) ==
    WithPort(IF StripWww(u.host) = <<>> THEN u.host ELSE StripWww(u.host), "_", u.port)

Trimmed(text) == SubSeq(text, 1, Latest(DOMAIN text \ Where(text, "/")))

Fallback(u) == FallbackHost(u) \o Trimmed(PathText(u))

\* The rows whose site reads a model in u.
Keyed(u) == SelectSeq(RowsOf(u), LAMBDA row : Identity(row, u) # NoIdentity)

SiteKey(row, u) == <<row.id, ":">> \o Identity(row, u)

\* The query and the fragment are gone before any row sees the URL.
MatchKey(text) ==
    LET u == Parse(text)
    IN  IF ~Parses(text) THEN PathText(text)
        ELSE IF Keyed(u) # <<>> THEN SiteKey(Head(Keyed(u)), u)
        ELSE Fallback(u)

\* SiteRegistry::site_for_url: by the host alone; "" for none.
SiteForUrl(text) ==
    LET u == Parse(text)
    IN  IF ~Parses(text) \/ u.host = <<>> \/ RowsOf(u) = <<>> THEN "" ELSE Head(RowsOf(u)).id

\* match_projects: whether a project with this website is offered for the page.
IsHttpUrl(text) == text.scheme \in Http

Suggested(page, website) ==
    /\ IsHttpUrl(page) /\ IsHttpUrl(website)
    /\ MatchKey(website) = MatchKey(page)

-----------------------------------------------------------------------------
(* Where the two webviews may go.                                          *)

NavigationPolicy(text) ==
    IF text.scheme \notin Http \/ text.creds THEN "block"
    ELSE IF Origin(Parse(text)) = AppOrigin THEN "allow"
    ELSE "external"

IsOpenableExternally(text) == text.scheme \in Http /\ text.host # <<>> /\ ~text.creds

BrowseNavigationPolicy(text) ==
    IF \/ text.scheme \in Http \union {"blob", "data"}
       \/ text.scheme = "about" /\ PathText(text) = <<"blank">>
    THEN "allow" ELSE "block"

BrowseOpenDecision(text) ==
    IF BrowseNavigationPolicy(text) = "block" THEN "deny"
    ELSE IF text.scheme \in Http \union {"blob", "data"} THEN "navigate"
    ELSE "popup"

-----------------------------------------------------------------------------
(* Servers by their address.                                               *)

\* What stands after the host in the text: nothing is read after a scheme that is
\* not followed by "//".
TypedPath(text) == IF text.slashes = "//" THEN text.path ELSE <<>>

IsNoPath(path) == path \in {<<>>, <<<<>>>>}

\* parse_remote_origin, which refuses with a sentence for each of these.
AcceptsRemote(text) ==
    /\ IsHttpUrl(text)
    /\ ~text.creds /\ ~text.query /\ ~text.fragment
    /\ IsNoPath(Parse(text).path)
    /\ IsNoPath(TypedPath(text))

\* NoOrigin stands for the refusal.
ParseRemoteOrigin(text) == IF AcceptsRemote(text) THEN Origin(Parse(text)) ELSE NoOrigin

\* An origin as it is written down and read again.
OriginText(origin) ==
    [scheme |-> origin.scheme, slashes |-> "//", creds |-> FALSE, host |-> origin.host,
     port |-> origin.port, path |-> <<>>, query |-> FALSE, fragment |-> FALSE]

ThisMachine == {<<"localhost">>, <<"127.0.0.1">>, <<"[", ":", ":", "1", "]">>}

IsPlaintextToAnotherMachine(origin) ==
    origin.scheme = "http" /\ origin.host \notin ThisMachine

\* normalize_public_origin and resolve_dev_ui_origin.
NormalizePublicOrigin(text) == IF IsHttpUrl(text) THEN Origin(Parse(text)) ELSE NoOrigin

\* The authority a client addresses this text's server by, as the request has it.
Authority(text) ==
    (IF text.creds THEN <<"user", ":", "1", "@">> ELSE <<>>)
    \o WithPort(text.host, ":", text.port)

\* The parser finds no URL in an authority without a host.
RequestOrigin(text) ==
    IF text.host = <<>> THEN [scheme |-> "http", host |-> <<"localhost">>, port |-> ""]
    ELSE Origin(Parse([text EXCEPT !.scheme = "http", !.path = <<>>]))

\* Where an activation link leads: the public origin where there is one.
ActivationOrigin(text, public) == IF public = NoOrigin THEN RequestOrigin(text) ELSE public

\* session.rs reads the authority by itself: what follows the last "@", up to the
\* bracket that closes a literal address, or up to a port.
\* A bug: a user is taken for a part of the name.
WithUser(authority) == authority

AfterUser(authority) == SubSeq(authority, Latest(Where(authority, "@")) + 1, Len(authority))

BeforePort(host) ==
    LET colon == Latest(Where(host, ":"))
    IN  IF colon # 0 /\ \A i \in colon + 1 .. Len(host) : host[i] \in Digits
        THEN SubSeq(host, 1, colon - 1) ELSE host

Hostname(authority) ==
    LET host == AfterUser(authority)
    IN  IF host # <<>> /\ Head(host) = "["
        THEN IF Where(host, "]") = {} THEN host ELSE SubSeq(host, 1, First(Where(host, "]")))
        ELSE BeforePort(host)

\* Whether the session cookie goes without Secure.
IsLocalHttp(authority) == Hostname(authority) \in {<<"localhost">>, <<"127.0.0.1">>}

-----------------------------------------------------------------------------
\* The page a browser with nothing to go back to opens.
StartUrl == [scheme |-> "https", slashes |-> "//", creds |-> FALSE,
             host |-> <<"www.", "thingiverse", ".com">>, port |-> "",
             path |-> <<<<>>>>, query |-> FALSE, fragment |-> FALSE]

Init == url = StartUrl /\ previous = StartUrl

Visit(text) == url' = text /\ previous' = url

Next == \E text \in Texts : Visit(text)

Spec == Init /\ [][Next]_vars

-----------------------------------------------------------------------------
(* Properties.                                                             *)

\* What a web page is about, told apart without writing it down as a string.
Meaning(text) ==
    LET u == Parse(text)
    IN  IF Keyed(u) # <<>>
        THEN [site |-> Head(Keyed(u)).id, id |-> Identity(Head(Keyed(u)), u), port |-> "", path |-> <<>>]
        ELSE [site |-> "", id |-> IF StripWww(u.host) = <<>> THEN u.host ELSE StripWww(u.host),
              port |-> u.port, path |-> Trimmed(Joined(u.path))]

\* A page is offered the projects of its own model and no others: two pages have one
\* key exactly when they are about one thing, whatever strings their parts are.
SuggestionIsSameModel ==
    IsHttpUrl(url) /\ IsHttpUrl(previous) =>
        (Suggested(url, previous) <=> Meaning(url) = Meaning(previous))

\* The one page, as its site, its search results and a copied link spell it.
Respelled(a, b) ==
    /\ IsHttpUrl(a) /\ IsHttpUrl(b) /\ a.port = "" /\ b.port = ""
    /\ StripWww(a.host) = StripWww(b.host)
    /\ \/ a.path = b.path
       \/ a.path \o <<<<>>>> = b.path
       \/ Keyed(Parse(a)) # <<>> /\ a.host = <<"makerworld", ".com">> /\ Len(b.path) > 1 /\ Tail(b.path) = a.path

\* Neither the scheme, nor www., a query, a fragment, a trailing slash or a locale
\* makes another model of one.
RespellingKeepsTheKey == Respelled(url, previous) => Suggested(url, previous)

\* registry.rs: "the two have to agree or a page can be attributed to Thingiverse and
\* keyed as something else".
AttributionAgrees ==
    Parses(url) /\ Keyed(Parse(url)) # <<>> => SiteForUrl(url) = Head(Keyed(Parse(url))).id

KeysAreFaithful == SuggestionIsSameModel /\ RespellingKeepsTheKey /\ AttributionAgrees

\* No page but the app's own loads in the app's window, what leaves it can be opened
\* outside, and the browser's view goes exactly where that window does not; a popup
\* never asks the view to go where the view may not, or to go nowhere.
PoliciesComplement ==
    /\ NavigationPolicy(url) = "external" => IsOpenableExternally(url)
    /\ NavigationPolicy(url) # "block" => BrowseNavigationPolicy(url) = "allow"
    /\ NavigationPolicy(url) = "allow" => Origin(Parse(url)) = AppOrigin
    /\ BrowseOpenDecision(url) = "navigate" =>
          BrowseNavigationPolicy(url) = "allow" /\ url.scheme # "about"

\* A server's address, once accepted, is accepted again at the next start as the same
\* origin, on the host that was typed; a configured origin is its own configuration.
OriginsAreStable ==
    /\ ParseRemoteOrigin(url) # NoOrigin =>
          /\ ParseRemoteOrigin(url).host = url.host
          /\ ParseRemoteOrigin(OriginText(ParseRemoteOrigin(url))) = ParseRemoteOrigin(url)
    /\ NormalizePublicOrigin(url) # NoOrigin =>
          NormalizePublicOrigin(OriginText(NormalizePublicOrigin(url))) = NormalizePublicOrigin(url)

\* The activation link and the cookie its page sets are decided by two readings of
\* one authority, the URL parser's and session.rs's: they find one host, so that the
\* cookie goes without Secure only where the link leads to this machine.
LinkAndCookieAgree ==
    /\ url.host # <<>> => Hostname(Authority(url)) = ActivationOrigin(url, NoOrigin).host
    /\ IsLocalHttp(Authority(url)) => ~IsPlaintextToAnotherMachine(RequestOrigin(url))

AddressesAreReadAlike == PoliciesComplement /\ OriginsAreStable /\ LinkAndCookieAgree

\* match_key.rs: a site key and a fallback key are never the same string: "the two
\* key namespaces are structurally disjoint".
KeysAreDisjoint ==
    Parses(url) /\ Parses(previous) /\ MatchKey(url) = MatchKey(previous) =>
        (Keyed(Parse(url)) = <<>> <=> Keyed(Parse(previous)) = <<>>)

\* remote.rs: "What was *typed* after the host must be no path at all."
TypedPathIsRefused == AcceptsRemote(url) => IsNoPath(url.path)

\* What two parts of the app read of one address, they read alike.
ReadingsAgree == KeysAreFaithful /\ AddressesAreReadAlike
=============================================================================
