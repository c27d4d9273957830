----------------------------- MODULE HttpRouting -----------------------------
(***************************************************************************)
(* Which handler answers an HTTP request: router, get and add_route         *)
(* (http/routes.rs) and serve_static (http/stfile.rs) fill the table of     *)
(* routes before the server starts; handle_http walks through it for every  *)
(* request.                                                                 *)
(*                                                                         *)
(* A path is the sequence of its segments: slashes at its end and double    *)
(* slashes in it make no difference to a route, and requests for "//" and   *)
(* the like are left out.  What a handler answers is not modelled, only     *)
(* which one is asked.  Requests share nothing but the table, which does    *)
(* not change any more: one at a time is enough.                            *)
(***************************************************************************)
EXTENDS Integers, Sequences, FiniteSets

CONSTANTS
    Segments,         \* what stands between the slashes of a path
    Placeholders,     \* segments that begin with a colon
    StaticPrefixed,   \* segments that begin with "static"
    Dotted,           \* segments with ".." in them
    Paths,            \* the paths that routes and requests may have
    Listings,         \* what may be in the directory that serve_static serves
    RouteMethods,     \* the methods of HttpMethod that routes have
    MaxRoutes         \* bound: the routes of the application

HttpMethod     == {"GET", "POST", "PUT", "DELETE", "PATCH"}
RequestMethods == RouteMethods \cup {"OPTIONS"}

\* A file, and whether an HTML page refers to it.  "other" has one of the other
\* extensions of get_content_type; "refused" has none of them, or is rejected
\* by the validation function.
Kinds    == {"html", "css", "js", "other", "refused"}
FileType == [name : Segments, kind : Kinds, referenced : BOOLEAN]

ASSUME PathsAssumption ==
    /\ Placeholders \cup StaticPrefixed \cup Dotted \subseteq Segments
    /\ {"static", "favicon.ico"} \subseteq Segments \ (Placeholders \cup Dotted)
    /\ Paths \subseteq Seq(Segments)
    /\ RouteMethods \subseteq HttpMethod /\ "GET" \in RouteMethods
    /\ MaxRoutes \in Nat

\* A file that is named "static" has no extension, and is refused.
ASSUME ListingsAssumption ==
    \A L \in Listings :
        /\ L \subseteq FileType /\ IsFiniteSet(L)
        /\ \A f \in L : f.name = "static" => f.kind = "refused"

VARIABLES
    pc,          \* "configure", "ready", "search" or "answered"
    routes,      \* the table
    listing,     \* the files in the directory
    served,      \* serve_static has been called: "no", "ok" or "error"
    req,         \* the request that is answered
    next,        \* the route to try next
    notAllowed,  \* a route matched the path but not the method
    answer       \* the answer: a status and the route that gives it, 0 for none

vars == <<pc, routes, listing, served, req, next, notAllowed, answer>>

Request == [method : RequestMethods, path : Paths]
Answers == [status : {200, 400, 404, 405}, route : Nat]

Init ==
    /\ pc = "configure"
    /\ routes = <<>>
    /\ listing \in Listings
    /\ served = "no"
    /\ req = [method |-> "GET", path |-> <<>>]
    /\ next = 1
    /\ notAllowed = FALSE
    /\ answer = [status |-> 404, route |-> 0]

search == <<req, next, notAllowed, answer>>

-----------------------------------------------------------------------------
(* The table *)

\* A route, and what its handler gives: a file's name, or "handler".
Route(m, p, gives) == [method |-> m, path |-> p, gives |-> gives]

RouteType == [method : RouteMethods, path : Seq(Segments), gives : Segments \cup {"handler"}]

\* router, internal and add_route: the route goes to the end of the table.
Router(m, p) ==
    /\ pc = "configure"
    /\ Cardinality({n \in DOMAIN routes : routes[n].gives = "handler"}) < MaxRoutes
    /\ routes' = Append(routes, Route(m, p, "handler"))
    /\ UNCHANGED <<pc, listing, served, search>>

\* The sequences that hold every element of S once.
Orders(S) ==
    {s \in [1..Cardinality(S) -> S] : \A i, j \in DOMAIN s : s[i] = s[j] => i = j}

Get(f, p) == Route("GET", p, f.name)

\* A route for each file of s, at its name in the root.
AtRoot(s) == [i \in DOMAIN s |-> Get(s[i], <<s[i].name>>)]

\* A route for each file of s, at its name under /static.
AtUrl(s) == [i \in DOMAIN s |-> Get(s[i], <<"static", s[i].name>>)]

OfKind(kind)     == {f \in listing : f.kind = kind}
References(kind) == {f \in OfKind(kind) : f.referenced}

Favicon == <<Route("GET", <<"favicon.ico">>, "favicon.ico")>>

\* The URL itself gives the last page of the listing.
UrlGives(pages) ==
    IF pages = <<>> THEN <<>> ELSE <<Get(pages[Len(pages)], <<"static">>)>>

\* Mutated form: the pages get their routes under the URL.
AddedAtUrl(pages, css, js, others) ==
    AtUrl(pages) \o Favicon \o AtRoot(css) \o AtRoot(js) \o UrlGives(pages) \o AtUrl(others)

\* What serve_static adds when no file is refused: pages while the directory is
\* listed, style sheets and scripts from hash sets, the URL, the other files.
Added(pages, css, js, others) ==
    AtRoot(pages) \o Favicon \o AtRoot(css) \o AtRoot(js) \o UrlGives(pages) \o AtUrl(others)

\* serve_static(url = "/static") on a directory that can be read.
ServeStatic ==
    /\ pc = "configure" /\ served = "no"
    /\ OfKind("refused") = {}
    /\ \E pages \in Orders(OfKind("html")), css \in Orders(References("css")),
          js \in Orders(References("js")), others \in Orders(OfKind("other")) :
             routes' = routes \o Added(pages, css, js, others)
    /\ served' = "ok"
    /\ UNCHANGED <<pc, listing, search>>

\* The first refused file of the listing ends it with an error, and the pages
\* listed before it keep their routes.
ServeStaticFails ==
    /\ pc = "configure" /\ served = "no"
    /\ OfKind("refused") # {}
    /\ \E before \in SUBSET OfKind("html") : \E pages \in Orders(before) :
          routes' = routes \o AtRoot(pages)
    /\ served' = "error"
    /\ UNCHANGED <<pc, listing, search>>

\* The server goes behind an Arc: the table is fixed.
Start ==
    /\ pc = "configure"
    /\ pc' = "ready"
    /\ UNCHANGED <<routes, listing, served, search>>

-----------------------------------------------------------------------------
(* handle_http *)

\* Any path that begins with "/static" matches any route at or under "/static".
StaticMatch(r, p) ==
    /\ p # <<>> /\ p[1] \in StaticPrefixed
    /\ r.path # <<>> /\ r.path[1] = "static"

\* Segment by segment, placeholders matching anything.
SegmentMatch(r, p) ==
    /\ Len(r.path) = Len(p)
    /\ \A k \in DOMAIN p : r.path[k] \in Placeholders \/ r.path[k] = p[k]

PathMatch(r, p) == StaticMatch(r, p) \/ SegmentMatch(r, p)

Replies(status, route) ==
    /\ answer' = [status |-> status, route |-> route]
    /\ pc' = "answered"

HasDots(p) == \E k \in DOMAIN p : p[k] \in Dotted

\* The checks before the loop.
Receive(q) ==
    /\ pc = "ready"
    /\ req' = q
    /\ next' = 1
    /\ notAllowed' = FALSE
    /\ IF HasDots(q.path) THEN Replies(400, 0)
       ELSE IF q.path = <<>> THEN Replies(200, 0)
       ELSE pc' = "search" /\ UNCHANGED answer
    /\ UNCHANGED <<routes, listing, served>>

\* Mutated form: the first route that matches the path decides.
TryRouteFirst ==
    /\ pc = "search"
    /\ next <= Len(routes)
    /\ LET r == routes[next] IN
       IF PathMatch(r, req.path)
         THEN /\ Replies(IF r.method = req.method THEN 200 ELSE 405,
                         IF r.method = req.method THEN next ELSE 0)
              /\ UNCHANGED <<next, notAllowed>>
         ELSE /\ next' = next + 1
              /\ UNCHANGED <<pc, answer, notAllowed>>
    /\ UNCHANGED <<routes, listing, served, req>>

\* Mutated form: a route behind one of another method is skipped.
TryRouteSkips ==
    /\ pc = "search"
    /\ next <= Len(routes)
    /\ LET r == routes[next] IN
       IF PathMatch(r, req.path) /\ r.method = req.method
         THEN /\ Replies(200, next)
              /\ notAllowed' = FALSE
              /\ UNCHANGED next
         ELSE /\ notAllowed' = (notAllowed \/ PathMatch(r, req.path))
              /\ next' = IF PathMatch(r, req.path) THEN next + 2 ELSE next + 1
              /\ UNCHANGED <<pc, answer>>
    /\ UNCHANGED <<routes, listing, served, req>>

\* One turn of the loop over the routes.
TryRoute ==
    /\ pc = "search"
    /\ next <= Len(routes)
    /\ LET r == routes[next] IN
       IF PathMatch(r, req.path) /\ r.method = req.method
         THEN /\ Replies(200, next)
              /\ notAllowed' = FALSE
              /\ UNCHANGED next
         ELSE /\ notAllowed' = (notAllowed \/ PathMatch(r, req.path))
              /\ next' = next + 1
              /\ UNCHANGED <<pc, answer>>
    /\ UNCHANGED <<routes, listing, served, req>>

\* No route is left.
GiveUp ==
    /\ pc = "search"
    /\ next > Len(routes)
    /\ Replies(IF notAllowed THEN 405 ELSE 404, 0)
    /\ UNCHANGED <<routes, listing, served, req, next, notAllowed>>

\* The answer is sent and the connection is ready for another request.
Sent ==
    /\ pc = "answered"
    /\ pc' = "ready"
    /\ UNCHANGED <<routes, listing, served, search>>

Next ==
    \/ \E m \in RouteMethods, p \in Paths : Router(m, p)
    \/ ServeStatic
    \/ ServeStaticFails
    \/ Start
    \/ \E q \in Request : Receive(q)
    \/ TryRoute
    \/ GiveUp
    \/ Sent

Spec == Init /\ [][Next]_vars

-----------------------------------------------------------------------------
(* Properties *)

TypeOK ==
    /\ pc \in {"configure", "ready", "search", "answered"}
    /\ routes \in Seq(RouteType)
    /\ listing \in Listings
    /\ served \in {"no", "ok", "error"}
    /\ req \in [method : RequestMethods, path : Seq(Segments)]
    /\ next \in 1..(Len(routes) + 1)
    /\ notAllowed \in BOOLEAN
    /\ answer \in Answers

Matching(p)     == {n \in 1..Len(routes) : PathMatch(routes[n], p)}
Answering(m, p) == {n \in Matching(p) : routes[n].method = m}

\* Whatever the table holds, the first route that has both the path and the
\* method answers; 405 says that the path has routes, and none with the method;
\* 404 that it has none.
RoutesExactly ==
    pc = "answered" /\ req.path # <<>> /\ ~HasDots(req.path) =>
        LET all == Answering(req.method, req.path) IN
        \/ /\ answer.status = 200
           /\ answer.route \in all
           /\ \A n \in all : answer.route <= n
        \/ answer.status = 405 /\ all = {} /\ Matching(req.path) # {}
        \/ answer.status = 404 /\ Matching(req.path) = {}

\* What the answer to the request is made of.
Gives(name) == answer.route # 0 /\ routes[answer.route].gives = name

\* An application's own route stands before a file's and matches its path.
Hidden(p) == \E n \in Answering("GET", p) : routes[n].gives = "handler"

Asked(p) == pc = "answered" /\ req = [method |-> "GET", path |-> p]

\* After serve_static every page, and every style sheet and script that a page
\* refers to, is found at its name in the root, unless a route of the
\* application hides it.
PagesReachable ==
    \A f \in listing :
        /\ served = "ok" /\ Asked(<<f.name>>) /\ ~Hidden(<<f.name>>)
        /\ f.kind = "html" \/ (f.kind \in {"css", "js"} /\ f.referenced)
        => Gives(f.name)

\* Other files are served (http/stfile.rs:34).
OthersReachable ==
    \A f \in listing :
        /\ served = "ok" /\ f.kind = "other"
        /\ Asked(<<"static", f.name>>) /\ ~Hidden(<<"static", f.name>>)
        => Gives(f.name)
=============================================================================
