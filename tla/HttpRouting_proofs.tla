-------------------------- MODULE HttpRouting_proofs --------------------------
(* Theorems about HttpRouting. *)
EXTENDS HttpRouting, FiniteSetTheorems, TLAPS

-----------------------------------------------------------------------------
(* The table of routes keeps its type *)

\* Any order of a set of files is a sequence of files.
LEMMA OrderType ==
    ASSUME NEW S \in SUBSET FileType, IsFiniteSet(S), NEW s \in Orders(S)
    PROVE  s \in Seq(FileType)
<1>1. Cardinality(S) \in Nat
  BY FS_CardinalityType
<1>2. s \in [1..Cardinality(S) -> S]
  BY DEF Orders
<1> QED BY <1>1, <1>2

LEMMA FunctionIsSeq ==
    ASSUME NEW S, NEW n \in Nat, NEW f \in [1..n -> S]
    PROVE  f \in Seq(S)
OBVIOUS

LEMMA ConcatType ==
    ASSUME NEW S, NEW s \in Seq(S), NEW t \in Seq(S)
    PROVE  s \o t \in Seq(S) /\ Len(s \o t) = Len(s) + Len(t)
OBVIOUS

\* The route of a file is a route, at its name in the root and under /static.
LEMMA FileRoute ==
    ASSUME NEW f \in FileType
    PROVE  /\ Get(f, <<f.name>>) \in RouteType
           /\ Get(f, <<"static", f.name>>) \in RouteType
           /\ Get(f, <<"static">>) \in RouteType
<1>1. f.name \in Segments /\ "static" \in Segments /\ "GET" \in RouteMethods
  BY PathsAssumption DEF FileType
<1>2. /\ <<f.name>> \in Seq(Segments)
      /\ <<"static", f.name>> \in Seq(Segments)
      /\ <<"static">> \in Seq(Segments)
  BY <1>1
<1> QED BY <1>1, <1>2 DEF Get, Route, RouteType

LEMMA FileRoutes ==
    ASSUME NEW s \in Seq(FileType)
    PROVE  /\ AtRoot(s) \in Seq(RouteType)
           /\ AtUrl(s) \in Seq(RouteType)
           /\ UrlGives(s) \in Seq(RouteType)
<1>1. \A i \in DOMAIN s : s[i] \in FileType
  OBVIOUS
<1>2. DOMAIN s = 1..Len(s) /\ Len(s) \in Nat
  OBVIOUS
<1>3. AtRoot(s) \in Seq(RouteType)
  <2>1. AtRoot(s) \in [1..Len(s) -> RouteType]
    BY <1>1, <1>2, FileRoute DEF AtRoot
  <2> QED BY <1>2, <2>1, FunctionIsSeq
<1>4. AtUrl(s) \in Seq(RouteType)
  <2>1. AtUrl(s) \in [1..Len(s) -> RouteType]
    BY <1>1, <1>2, FileRoute DEF AtUrl
  <2> QED BY <1>2, <2>1, FunctionIsSeq
<1>5. UrlGives(s) \in Seq(RouteType)
  <2>1. CASE s = <<>>
    BY <2>1 DEF UrlGives
  <2>2. CASE s # <<>>
    <3>1. s[Len(s)] \in FileType
      BY <2>2
    <3>2. Get(s[Len(s)], <<"static">>) \in RouteType
      BY <3>1, FileRoute
    <3>3. UrlGives(s) = <<Get(s[Len(s)], <<"static">>)>>
      BY <2>2 DEF UrlGives
    <3> QED BY <3>2, <3>3
  <2> QED BY <2>1, <2>2
<1> QED BY <1>3, <1>4, <1>5

LEMMA FaviconType == Favicon \in Seq(RouteType)
<1>1. "favicon.ico" \in Segments /\ "GET" \in RouteMethods
  BY PathsAssumption
<1>2. <<"favicon.ico">> \in Seq(Segments)
  BY <1>1
<1>3. Route("GET", <<"favicon.ico">>, "favicon.ico") \in RouteType
  BY <1>1, <1>2 DEF Route, RouteType
<1> QED BY <1>3 DEF Favicon

\* Whatever serve_static adds keeps the table a table, and makes it no shorter.
LEMMA AddedType ==
    ASSUME NEW pages \in Seq(FileType), NEW css \in Seq(FileType),
           NEW js \in Seq(FileType), NEW others \in Seq(FileType)
    PROVE  Added(pages, css, js, others) \in Seq(RouteType)
<1>1. AtRoot(pages) \o Favicon \in Seq(RouteType)
  BY FileRoutes, FaviconType, ConcatType
<1>2. AtRoot(pages) \o Favicon \o AtRoot(css) \in Seq(RouteType)
  BY <1>1, FileRoutes, ConcatType
<1>3. AtRoot(pages) \o Favicon \o AtRoot(css) \o AtRoot(js) \in Seq(RouteType)
  BY <1>2, FileRoutes, ConcatType
<1>4. AtRoot(pages) \o Favicon \o AtRoot(css) \o AtRoot(js) \o UrlGives(pages) \in Seq(RouteType)
  BY <1>3, FileRoutes, ConcatType
<1> QED BY <1>4, FileRoutes, ConcatType DEF Added

\* The files of one kind, and any of them, are finitely many files.
LEMMA SomeFiles ==
    ASSUME listing \in Listings, NEW S \in SUBSET listing
    PROVE  S \in SUBSET FileType /\ IsFiniteSet(S)
BY ListingsAssumption, FS_Subset

\* serve_static adds routes at the end of the table, also when it fails.
LEMMA FilesAdded ==
    ASSUME TypeOK, ServeStatic \/ ServeStaticFails
    PROVE  \E more \in Seq(RouteType) : routes' = routes \o more
<1>1. listing \in Listings
  BY DEF TypeOK
<1>2. CASE ServeStatic
  <2>1. PICK pages \in Orders(OfKind("html")), css \in Orders(References("css")),
             js \in Orders(References("js")), others \in Orders(OfKind("other")) :
                routes' = routes \o Added(pages, css, js, others)
    BY <1>2 DEF ServeStatic
  <2>2. /\ OfKind("html") \in SUBSET listing /\ References("css") \in SUBSET listing
        /\ References("js") \in SUBSET listing /\ OfKind("other") \in SUBSET listing
    BY DEF OfKind, References
  <2>3. /\ pages \in Seq(FileType) /\ css \in Seq(FileType)
        /\ js \in Seq(FileType) /\ others \in Seq(FileType)
    BY <1>1, <2>1, <2>2, SomeFiles, OrderType
  <2>4. Added(pages, css, js, others) \in Seq(RouteType)
    BY <2>3, AddedType
  <2> QED BY <2>1, <2>4
<1>3. CASE ServeStaticFails
  <2>1. PICK before \in SUBSET OfKind("html") :
           \E pages \in Orders(before) : routes' = routes \o AtRoot(pages)
    BY <1>3 DEF ServeStaticFails
  <2>2. PICK pages \in Orders(before) : routes' = routes \o AtRoot(pages)
    BY <2>1
  <2>3. before \in SUBSET listing
    BY DEF OfKind
  <2>4. AtRoot(pages) \in Seq(RouteType)
    BY <1>1, <2>2, <2>3, SomeFiles, OrderType, FileRoutes
  <2> QED BY <2>2, <2>4
<1> QED BY <1>2, <1>3

LEMMA Grows ==
    ASSUME TypeOK, pc' = pc, UNCHANGED search,
           NEW more \in Seq(RouteType), routes' = routes \o more,
           UNCHANGED listing, served' \in {"ok", "error"}
    PROVE  TypeOK'
<1>1. routes \in Seq(RouteType)
  BY DEF TypeOK
<1>2. routes' \in Seq(RouteType) /\ Len(routes') = Len(routes) + Len(more)
  BY <1>1, ConcatType
<1>3. Len(routes) \in Nat /\ Len(more) \in Nat
  BY <1>1
<1>4. next' \in 1..(Len(routes') + 1)
  BY <1>2, <1>3 DEF TypeOK, search
<1> QED BY <1>2, <1>4 DEF TypeOK, search

\* The table holds routes, and the search stays inside it.
THEOREM Typing == Spec => []TypeOK
<1>1. Init => TypeOK
  <2> SUFFICES ASSUME Init PROVE TypeOK
    OBVIOUS
  <2>1. <<>> \in Seq(RouteType) /\ <<>> \in Seq(Segments) /\ Len(<<>>) = 0
    OBVIOUS
  <2>2. "GET" \in RequestMethods
    BY PathsAssumption DEF RequestMethods
  <2>3. [method |-> "GET", path |-> <<>>] \in [method : RequestMethods, path : Seq(Segments)]
    BY <2>1, <2>2
  <2>4. [status |-> 404, route |-> 0] \in Answers
    BY DEF Answers
  <2>5. 1 \in 1..(Len(<<>>) + 1)
    BY <2>1
  <2> QED BY <2>1, <2>3, <2>4, <2>5 DEF Init, TypeOK
<1>2. TypeOK /\ [Next]_vars => TypeOK'
  <2> SUFFICES ASSUME TypeOK, [Next]_vars PROVE TypeOK'
    OBVIOUS
  <2>0. routes \in Seq(RouteType) /\ Len(routes) \in Nat /\ next \in 1..(Len(routes) + 1)
    BY DEF TypeOK
  <2>1. ASSUME NEW m \in RouteMethods, NEW p \in Paths, Router(m, p) PROVE TypeOK'
    <3>1. Route(m, p, "handler") \in RouteType
      BY PathsAssumption DEF Route, RouteType
    <3>2. /\ routes' \in Seq(RouteType)
          /\ Len(routes') = Len(routes) + 1
      BY <2>0, <2>1, <3>1 DEF Router
    <3>3. next' \in 1..(Len(routes') + 1)
      BY <2>0, <2>1, <3>2 DEF Router, search
    <3> QED BY <2>1, <3>2, <3>3 DEF Router, TypeOK, search
  <2>2. CASE ServeStatic \/ ServeStaticFails
    <3>1. PICK more \in Seq(RouteType) : routes' = routes \o more
      BY <2>2, FilesAdded
    <3>2. pc' = pc /\ UNCHANGED search /\ UNCHANGED listing /\ served' \in {"ok", "error"}
      BY <2>2 DEF ServeStatic, ServeStaticFails
    <3> QED BY <3>1, <3>2, Grows
  <2>4. CASE Start
    BY <2>4 DEF Start, TypeOK, search
  <2>5. ASSUME NEW q \in Request, Receive(q) PROVE TypeOK'
    <3>1. q \in [method : RequestMethods, path : Seq(Segments)]
      BY PathsAssumption DEF Request
    <3>2. /\ req' = q /\ next' = 1 /\ notAllowed' = FALSE
          /\ UNCHANGED <<routes, listing, served>>
      BY <2>5 DEF Receive
    <3>3. pc' \in {"search", "answered"} /\ answer' \in Answers
      BY <2>5 DEF Receive, Replies, TypeOK, Answers
    <3>4. next' \in 1..(Len(routes') + 1)
      BY <2>0, <3>2
    <3> QED BY <3>1, <3>2, <3>3, <3>4 DEF TypeOK
  <2>6. CASE TryRoute
    <3>1. /\ UNCHANGED <<routes, listing, served, req>>
          /\ next' \in 1..(Len(routes) + 1)
      BY <2>0, <2>6 DEF TryRoute
    <3>0. notAllowed' \in BOOLEAN
      BY <2>6 DEF TryRoute, PathMatch, StaticMatch
    <3>2. [status |-> 200, route |-> next] \in Answers
      BY <2>0 DEF Answers
    <3>3. pc' \in {"search", "answered"} /\ answer' \in Answers
      BY <2>6, <3>2 DEF TryRoute, Replies, TypeOK
    <3> QED BY <3>0, <3>1, <3>3 DEF TypeOK
  <2>7. CASE GiveUp
    <3>1. \A c \in {404, 405} : [status |-> c, route |-> 0] \in Answers
      BY DEF Answers
    <3>2. pc' = "answered" /\ answer' \in Answers
      BY <2>7, <3>1 DEF GiveUp, Replies
    <3> QED BY <2>7, <3>2 DEF GiveUp, TypeOK
  <2>8. CASE Sent
    BY <2>8 DEF Sent, TypeOK, search
  <2>9. CASE UNCHANGED vars
    BY <2>9 DEF vars, TypeOK
  <2> QED BY <2>1, <2>2, <2>4, <2>5, <2>6, <2>7, <2>8, <2>9 DEF Next
<1> QED BY <1>1, <1>2, PTL DEF Spec

-----------------------------------------------------------------------------
(* The answer *)

\* What the loop over the routes knows before it tries route `next`.
Searched ==
    pc = "search" =>
        /\ \A n \in 1..(next - 1) :
              PathMatch(routes[n], req.path) => routes[n].method # req.method
        /\ notAllowed <=> \E n \in 1..(next - 1) : PathMatch(routes[n], req.path)

IInv == Searched /\ RoutesExactly

\* An answer that is given when the search has come to a decision is exact.
LEMMA Exact ==
    ASSUME TypeOK, TypeOK', IInv, [Next]_vars
    PROVE  RoutesExactly'
<1> SUFFICES ASSUME pc' = "answered", req'.path # <<>>, ~HasDots(req'.path)
             PROVE  LET all == Answering(req.method, req.path)' IN
                    \/ /\ answer'.status = 200
                       /\ answer'.route \in all
                       /\ \A n \in all : answer'.route <= n
                    \/ answer'.status = 405 /\ all = {} /\ Matching(req.path)' # {}
                    \/ answer'.status = 404 /\ Matching(req.path)' = {}
  BY DEF RoutesExactly
<1>0. Len(routes) \in Nat /\ next \in 1..(Len(routes) + 1)
  BY DEF TypeOK
<1>1. CASE TryRoute
  <2>1. /\ routes' = routes /\ req' = req /\ pc = "search" /\ next <= Len(routes)
        /\ PathMatch(routes[next], req.path) /\ routes[next].method = req.method
        /\ answer' = [status |-> 200, route |-> next]
    BY <1>1 DEF TryRoute, Replies
  <2>2. \A n \in Answering(req.method, req.path) : next <= n
    BY <1>0, <2>1 DEF IInv, Searched, Answering, Matching
  <2>3. next \in Answering(req.method, req.path)
    BY <1>0, <2>1 DEF Answering, Matching
  <2>4. Answering(req.method, req.path)' = Answering(req.method, req.path)
    BY <2>1 DEF Answering, Matching
  <2> QED BY <2>1, <2>2, <2>3, <2>4
<1>2. CASE GiveUp
  <2>1. /\ routes' = routes /\ req' = req /\ pc = "search" /\ next = Len(routes) + 1
        /\ answer' = [status |-> IF notAllowed THEN 405 ELSE 404, route |-> 0]
    BY <1>0, <1>2 DEF GiveUp, Replies
  <2>2. /\ Answering(req.method, req.path) = {}
        /\ notAllowed <=> Matching(req.path) # {}
    BY <1>0, <2>1 DEF IInv, Searched, Answering, Matching
  <2>3. /\ Answering(req.method, req.path)' = Answering(req.method, req.path)
        /\ Matching(req.path)' = Matching(req.path)
    BY <2>1 DEF Answering, Matching
  <2> QED BY <2>1, <2>2, <2>3
<1>3. ASSUME NEW q \in Request, Receive(q) PROVE FALSE
  BY <1>3 DEF Receive, Replies
<1>4. CASE UNCHANGED vars
  BY <1>4 DEF vars, IInv, RoutesExactly, Answering, Matching
<1>5. CASE Start \/ Sent
  BY <1>5 DEF Start, Sent
<1>6. CASE ServeStatic \/ ServeStaticFails
  BY <1>6 DEF ServeStatic, ServeStaticFails
<1>7. ASSUME NEW m \in RouteMethods, NEW p \in Paths, Router(m, p) PROVE FALSE
  BY <1>7 DEF Router
<1> QED BY <1>1, <1>2, <1>3, <1>4, <1>5, <1>6, <1>7 DEF Next

LEMMA SearchGoesOn ==
    ASSUME TypeOK, Searched, [Next]_vars
    PROVE  Searched'
<1> SUFFICES ASSUME pc' = "search"
             PROVE  /\ \A n \in 1..(next' - 1) :
                          PathMatch(routes'[n], req'.path) => routes'[n].method # req'.method
                    /\ notAllowed' <=> \E n \in 1..(next' - 1) : PathMatch(routes'[n], req'.path)
  BY DEF Searched
<1>0. Len(routes) \in Nat /\ next \in 1..(Len(routes) + 1) /\ notAllowed \in BOOLEAN
  BY DEF TypeOK
<1>1. CASE TryRoute
  <2>1. /\ routes' = routes /\ req' = req /\ pc = "search" /\ next' = next + 1
        /\ notAllowed' = (notAllowed \/ PathMatch(routes[next], req.path))
        /\ PathMatch(routes[next], req.path) => routes[next].method # req.method
    BY <1>1 DEF TryRoute, Replies
  <2>2. 1..(next' - 1) = 1..(next - 1) \cup {next}
    BY <1>0, <2>1
  <2> QED BY <2>1, <2>2 DEF Searched
<1>2. CASE GiveUp
  BY <1>2 DEF GiveUp, Replies
<1>3. ASSUME NEW q \in Request, Receive(q)
      PROVE  /\ \A n \in 1..(next' - 1) :
                  PathMatch(routes'[n], req'.path) => routes'[n].method # req'.method
             /\ notAllowed' <=> \E n \in 1..(next' - 1) : PathMatch(routes'[n], req'.path)
  <2>1. next' = 1 /\ notAllowed' = FALSE
    BY <1>3 DEF Receive
  <2>2. 1..(next' - 1) = {}
    BY <2>1
  <2> QED BY <2>1, <2>2
<1>4. CASE UNCHANGED vars
  BY <1>4 DEF vars, Searched
<1>5. CASE Start \/ Sent
  BY <1>5 DEF Start, Sent
<1>6. CASE ServeStatic \/ ServeStaticFails
  BY <1>6 DEF ServeStatic, ServeStaticFails
<1>7. ASSUME NEW m \in RouteMethods, NEW p \in Paths, Router(m, p) PROVE FALSE
  BY <1>7 DEF Router
<1> QED BY <1>1, <1>2, <1>3, <1>4, <1>5, <1>6, <1>7 DEF Next

\* Every request gets the first route that has its path and its method, and 405
\* and 404 say why there is none, for every table of any length.
THEOREM FirstRouteAnswers == Spec => []RoutesExactly
<1>1. Init => IInv
  BY DEF Init, IInv, Searched, RoutesExactly
<1>2. TypeOK /\ TypeOK' /\ IInv /\ [Next]_vars => IInv'
  BY Exact, SearchGoesOn DEF IInv
<1>3. IInv => RoutesExactly
  BY DEF IInv
<1> QED BY <1>1, <1>2, <1>3, Typing, PTL DEF Spec

-----------------------------------------------------------------------------
(* The files are found *)

\* No file's name begins with a colon, which would make a placeholder of its
\* route, and none has ".." in it, which handle_http refuses.
OrdinaryNames == \A L \in Listings : \A f \in L : f.name \notin Placeholders \cup Dotted

\* The files that serve_static gives a route in the root.
RootFiles == OfKind("html") \cup References("css") \cup References("js")

\* The routes in the root: each gives the file that its path names.
RootRoutes == {r \in RouteType : /\ r.method = "GET" /\ r.path = <<r.gives>>
                                 /\ r.gives \notin Placeholders \cup {"static"}}

Among(r, s) == \E n \in 1..Len(s) : s[n] = r

\* Of the first n routes of the table, only the application's take a request
\* away from the file of this name.
FreeUpTo(table, name, n) ==
    \A k \in 1..n : table[k].gives \in {"handler", name} \/ ~PathMatch(table[k], <<name>>)

\* Before serve_static only the application has routes; after it every file in
\* the root has its route, and what stands before that are routes of the
\* application and of other files.
SiteInv ==
    /\ served = "no" => \A n \in 1..Len(routes) : routes[n].gives = "handler"
    /\ served = "ok" => \A f \in RootFiles : \E n \in 1..Len(routes) :
          routes[n] = Get(f, <<f.name>>) /\ FreeUpTo(routes, f.name, n)

\* An order of a finite set holds all of it.
LEMMA OrdersAll ==
    ASSUME NEW S, IsFiniteSet(S), NEW s \in Orders(S)
    PROVE  /\ s \in Seq(S)
           /\ \A e \in S : \E i \in 1..Len(s) : s[i] = e
<1> DEFINE n == Cardinality(S)
<1>1. n \in Nat
  BY FS_CardinalityType
<1>2. s \in [1..n -> S] /\ \A i, j \in 1..n : s[i] = s[j] => i = j
  BY DEF Orders
<1>3. IsFiniteSet(1..n) /\ Cardinality(1..n) = n
  BY <1>1, FS_Interval
<1> HIDE DEF n
<1>4. s \in Injection(1..n, S)
  BY <1>2 DEF Injection, IsInjective
<1>5. s \in Surjection(1..n, S)
  BY <1>3, <1>4, FS_Injection DEF n
<1>6. \A e \in S : \E i \in 1..n : s[i] = e
  BY <1>5 DEF Surjection
<1>7. s \in Seq(S) /\ Len(s) = n
  BY <1>1, <1>2
<1> QED BY <1>6, <1>7

\* What is among two sequences is among both together.
LEMMA AmongBoth ==
    ASSUME NEW S, NEW s \in Seq(S), NEW t \in Seq(S), NEW r, Among(r, s) \/ Among(r, t)
    PROVE  Among(r, s \o t)
<1>1. /\ Len(s) \in Nat /\ Len(t) \in Nat /\ Len(s \o t) = Len(s) + Len(t)
      /\ \A i \in 1..Len(s) : (s \o t)[i] = s[i]
      /\ \A i \in 1..Len(t) : (s \o t)[Len(s) + i] = t[i]
  OBVIOUS
<1> DEFINE u == s \o t
           k == Len(s)
           n == Len(t)
<1> HIDE DEF u, k, n
<1>2. /\ k \in Nat /\ n \in Nat /\ Len(u) = k + n
      /\ \A i \in 1..k : u[i] = s[i]
      /\ \A i \in 1..n : u[k + i] = t[i]
  BY <1>1 DEF u, k, n
<1>3. ASSUME NEW i \in 1..k, s[i] = r PROVE \E j \in 1..Len(u) : u[j] = r
  <2>1. i \in 1..Len(u) /\ u[i] = r
    BY <1>2, <1>3
  <2> QED BY <2>1
<1>4. ASSUME NEW i \in 1..n, t[i] = r PROVE \E j \in 1..Len(u) : u[j] = r
  <2>1. k + i \in 1..Len(u) /\ u[k + i] = r
    BY <1>2, <1>4
  <2> QED BY <2>1
<1>5. (\E i \in 1..k : s[i] = r) \/ (\E i \in 1..n : t[i] = r)
  BY DEF Among, k, n
<1>6. \E j \in 1..Len(u) : u[j] = r
  BY <1>3, <1>4, <1>5
<1> QED BY <1>6 DEF Among, u

\* The routes of some of these files in the root.
LEMMA RootRoutesOf ==
    ASSUME OrdinaryNames, listing \in Listings, NEW S \in SUBSET RootFiles, NEW s \in Orders(S)
    PROVE  /\ AtRoot(s) \in Seq(RootRoutes)
           /\ \A f \in S : Among(Get(f, <<f.name>>), AtRoot(s))
<1>1. S \in SUBSET listing /\ S \in SUBSET FileType /\ IsFiniteSet(S)
  BY SomeFiles DEF RootFiles, OfKind, References
<1>2. s \in Seq(S) /\ \A f \in S : \E i \in 1..Len(s) : s[i] = f
  BY <1>1, OrdersAll
<1>3. \A f \in S : Get(f, <<f.name>>) \in RootRoutes
  <2> TAKE f \in S
  <2>1. f \in FileType /\ f.name \notin Placeholders /\ f.kind # "refused"
    BY <1>1 DEF OrdinaryNames, RootFiles, OfKind, References
  <2>2. f.name # "static"
    BY <1>1, <2>1, ListingsAssumption
  <2>3. Get(f, <<f.name>>) \in RouteType
    BY <2>1, FileRoute
  <2>4. Get(f, <<f.name>>).method = "GET" /\ Get(f, <<f.name>>).path = <<f.name>>
        /\ Get(f, <<f.name>>).gives = f.name
    BY DEF Get, Route
  <2> QED BY <2>1, <2>2, <2>3, <2>4 DEF RootRoutes
<1> DEFINE n == Len(s)
           t == AtRoot(s)
<1>4. n \in Nat /\ DOMAIN s = 1..n /\ \A i \in 1..n : s[i] \in S
  BY <1>2
<1>5. t = [i \in 1..n |-> Get(s[i], <<s[i].name>>)]
  BY <1>4 DEF AtRoot
<1> HIDE DEF n, t
<1>6. t \in [1..n -> RootRoutes]
  BY <1>3, <1>4, <1>5
<1>7. t \in Seq(RootRoutes) /\ Len(t) = n
  BY <1>4, <1>6
<1>8. ASSUME NEW f \in S PROVE Among(Get(f, <<f.name>>), t)
  <2>1. PICK i \in 1..n : s[i] = f
    BY <1>2 DEF n
  <2>2. t[i] = Get(f, <<f.name>>)
    BY <1>5, <2>1
  <2> QED BY <1>7, <2>2 DEF Among
<1> QED BY <1>7, <1>8 DEF t

\* A route in the root takes requests for its own file only.
LEMMA OwnFile ==
    ASSUME NEW r \in RootRoutes, NEW name \in Segments, PathMatch(r, <<name>>)
    PROVE  r.gives = name
<1>1. r.path = <<r.gives>> /\ r.gives \notin Placeholders /\ r.gives # "static"
  BY DEF RootRoutes
<1>2. r.path[1] = r.gives /\ <<name>>[1] = name /\ 1 \in DOMAIN <<name>>
  BY <1>1
<1>3. SegmentMatch(r, <<name>>)
  BY <1>1, <1>2 DEF PathMatch, StaticMatch
<1> QED BY <1>1, <1>2, <1>3 DEF SegmentMatch

\* What serve_static adds begins with the routes in the root, of all these files.
LEMMA RootFirst ==
    ASSUME OrdinaryNames, TypeOK,
           NEW pages \in Orders(OfKind("html")), NEW css \in Orders(References("css")),
           NEW js \in Orders(References("js")), NEW others \in Orders(OfKind("other"))
    PROVE  \E root \in Seq(RootRoutes), rest \in Seq(RouteType) :
              /\ Added(pages, css, js, others) = root \o rest
              /\ \A f \in RootFiles : Among(Get(f, <<f.name>>), root)
<1> DEFINE A == AtRoot(pages)
           B == AtRoot(css)
           C == AtRoot(js)
           U == UrlGives(pages)
           O == AtUrl(others)
           root == A \o Favicon \o B \o C
<1>0. listing \in Listings
  BY DEF TypeOK
<1>1. /\ A \in Seq(RootRoutes) /\ \A f \in OfKind("html") : Among(Get(f, <<f.name>>), A)
      /\ B \in Seq(RootRoutes) /\ \A f \in References("css") : Among(Get(f, <<f.name>>), B)
      /\ C \in Seq(RootRoutes) /\ \A f \in References("js") : Among(Get(f, <<f.name>>), C)
  BY <1>0, RootRoutesOf DEF RootFiles
<1>2. Favicon \in Seq(RootRoutes)
  <2>1. "favicon.ico" \in Segments /\ "GET" \in RouteMethods /\ "favicon.ico" \notin Placeholders
    BY PathsAssumption
  <2>2. <<"favicon.ico">> \in Seq(Segments)
    BY <2>1
  <2>3. Route("GET", <<"favicon.ico">>, "favicon.ico") \in RootRoutes
    BY <2>1, <2>2 DEF Route, RouteType, RootRoutes
  <2> QED BY <2>3 DEF Favicon
<1>3. U \in Seq(RouteType) /\ O \in Seq(RouteType)
  <2>1. OfKind("html") \in SUBSET listing /\ OfKind("other") \in SUBSET listing
    BY DEF OfKind
  <2>2. pages \in Seq(FileType) /\ others \in Seq(FileType)
    BY <1>0, <2>1, SomeFiles, OrderType
  <2> QED BY <2>2, FileRoutes
<1>4. Added(pages, css, js, others) = root \o U \o O
  BY DEF Added
<1> HIDE DEF A, B, C, U, O
<1>5. A \o Favicon \in Seq(RootRoutes) /\ A \o Favicon \o B \in Seq(RootRoutes) /\ root \in Seq(RootRoutes)
  BY <1>1, <1>2, ConcatType
<1>6. ASSUME NEW f \in RootFiles PROVE Among(Get(f, <<f.name>>), root)
  <2> DEFINE r == Get(f, <<f.name>>)
  <2>1. Among(r, A) \/ Among(r, B) \/ Among(r, C)
    BY <1>1 DEF RootFiles
  <2> HIDE DEF r
  <2>2. Among(r, A) => Among(r, A \o Favicon)
    BY <1>1, <1>2, AmongBoth
  <2>3. Among(r, A) \/ Among(r, B) => Among(r, A \o Favicon \o B)
    BY <1>1, <1>5, <2>2, AmongBoth
  <2>4. Among(r, root)
    BY <1>1, <1>5, <2>1, <2>3, AmongBoth
  <2> QED BY <2>4 DEF r
<1> HIDE DEF root
<1>7. U \o O \in Seq(RouteType) /\ root \o U \o O = root \o (U \o O)
  <2>1. root \in Seq(RouteType)
    BY <1>5 DEF RootRoutes
  <2> QED BY <1>3, <2>1
<1> QED BY <1>4, <1>5, <1>6, <1>7

\* A route at the end of the table leaves the way to the others free.
LEMMA SiteGrows ==
    ASSUME TypeOK, SiteInv, listing' = listing, served' = served, NEW r,
           routes' = Append(routes, r), r.gives = "handler"
    PROVE  SiteInv'
<1>1. /\ Len(routes) \in Nat /\ Len(routes') = Len(routes) + 1 /\ routes'[Len(routes) + 1] = r
      /\ \A n \in 1..Len(routes) : routes'[n] = routes[n]
  <2>1. routes \in Seq(RouteType)
    BY DEF TypeOK
  <2>2. /\ Len(Append(routes, r)) = Len(routes) + 1 /\ Append(routes, r)[Len(routes) + 1] = r
        /\ \A n \in 1..Len(routes) : Append(routes, r)[n] = routes[n]
    BY <2>1
  <2> QED BY <2>1, <2>2
<1>2. RootFiles' = RootFiles
  BY DEF RootFiles, OfKind, References
<1>3. ASSUME served = "no", NEW n \in 1..Len(routes') PROVE routes'[n].gives = "handler"
  <2>1. n \in 1..Len(routes) \/ n = Len(routes) + 1
    BY <1>1
  <2> QED BY <1>1, <1>3, <2>1 DEF SiteInv
<1>4. ASSUME served = "ok", NEW f \in RootFiles
      PROVE  \E n \in 1..Len(routes') : routes'[n] = Get(f, <<f.name>>) /\ FreeUpTo(routes', f.name, n)
  <2>1. PICK n \in 1..Len(routes) : routes[n] = Get(f, <<f.name>>) /\ FreeUpTo(routes, f.name, n)
    BY <1>4 DEF SiteInv
  <2>2. \A k \in 1..n : k \in 1..Len(routes)
    BY <1>1, <2>1
  <2>3. FreeUpTo(routes', f.name, n)
    BY <1>1, <2>1, <2>2 DEF FreeUpTo
  <2> QED BY <1>1, <2>1, <2>3
<1> QED BY <1>2, <1>3, <1>4 DEF SiteInv

\* serve_static gives every file in the root its route.
LEMMA SiteServed ==
    ASSUME OrdinaryNames, TypeOK, SiteInv, ServeStatic
    PROVE  SiteInv'
<1>1. /\ served = "no" /\ served' = "ok" /\ listing' = listing /\ listing \in Listings
      /\ routes \in Seq(RouteType)
  BY DEF ServeStatic, TypeOK
<1>2. RootFiles' = RootFiles
  BY <1>1 DEF RootFiles, OfKind, References
<1>3. PICK root \in Seq(RootRoutes), rest \in Seq(RouteType) :
         /\ routes' = routes \o (root \o rest)
         /\ \A f \in RootFiles : Among(Get(f, <<f.name>>), root)
  <2>1. PICK pages \in Orders(OfKind("html")), css \in Orders(References("css")),
             js \in Orders(References("js")), others \in Orders(OfKind("other")) :
                routes' = routes \o Added(pages, css, js, others)
    BY DEF ServeStatic
  <2>2. PICK root \in Seq(RootRoutes), rest \in Seq(RouteType) :
           /\ Added(pages, css, js, others) = root \o rest
           /\ \A f \in RootFiles : Among(Get(f, <<f.name>>), root)
    BY RootFirst
  <2> QED BY <2>1, <2>2
<1> DEFINE l == Len(routes)
<1>4. /\ l \in Nat /\ Len(root) \in Nat /\ Len(rest) \in Nat
      /\ Len(routes') = l + Len(root) + Len(rest)
      /\ \A n \in 1..l : routes'[n] = routes[n]
      /\ \A n \in 1..Len(root) : routes'[l + n] = root[n]
  <2>1. root \in Seq(RouteType)
    BY DEF RootRoutes
  <2>2. /\ l \in Nat /\ Len(root) \in Nat /\ Len(rest) \in Nat
        /\ root \o rest \in Seq(RouteType) /\ Len(root \o rest) = Len(root) + Len(rest)
        /\ \A n \in 1..Len(root) : (root \o rest)[n] = root[n]
    BY <1>1, <2>1
  <2>3. /\ Len(routes \o (root \o rest)) = l + Len(root) + Len(rest)
        /\ \A n \in 1..l : (routes \o (root \o rest))[n] = routes[n]
        /\ \A n \in 1..Len(root) : (routes \o (root \o rest))[l + n] = (root \o rest)[n]
    BY <1>1, <2>2
  <2> QED BY <1>3, <2>2, <2>3
<1> HIDE DEF l
<1>5. ASSUME NEW f \in RootFiles
      PROVE  \E n \in 1..Len(routes') : routes'[n] = Get(f, <<f.name>>) /\ FreeUpTo(routes', f.name, n)
  <2>1. PICK i \in 1..Len(root) : root[i] = Get(f, <<f.name>>)
    BY <1>3 DEF Among
  <2>2. l + i \in 1..Len(routes') /\ routes'[l + i] = Get(f, <<f.name>>)
    BY <1>4, <2>1
  <2>3. f.name \in Segments
    BY <1>1, ListingsAssumption DEF RootFiles, OfKind, References, FileType
  <2>4. ASSUME NEW k \in 1..(l + i)
        PROVE  routes'[k].gives \in {"handler", f.name} \/ ~PathMatch(routes'[k], <<f.name>>)
    <3>1. CASE k \in 1..l
      BY <1>1, <1>4, <3>1 DEF SiteInv, l
    <3>2. CASE k \notin 1..l
      <4>1. k - l \in 1..Len(root) /\ l + (k - l) = k
        BY <1>4, <2>1, <3>2
      <4>2. routes'[k] = root[k - l] /\ root[k - l] \in RootRoutes
        BY <1>4, <4>1
      <4> QED BY <2>3, <4>2, OwnFile
    <3> QED BY <3>1, <3>2
  <2>5. FreeUpTo(routes', f.name, l + i)
    BY <1>1, <2>4 DEF FreeUpTo
  <2> QED BY <2>2, <2>5
<1> QED BY <1>1, <1>2, <1>5 DEF SiteInv

LEMMA SiteStep ==
    ASSUME OrdinaryNames, TypeOK, SiteInv, [Next]_vars
    PROVE  SiteInv'
<1>1. ASSUME UNCHANGED <<routes, listing, served>> PROVE SiteInv'
  <2>1. RootFiles' = RootFiles
    BY <1>1 DEF RootFiles, OfKind, References
  <2> QED BY <1>1, <2>1 DEF SiteInv, FreeUpTo
<1>2. ASSUME NEW m \in RouteMethods, NEW p \in Paths, Router(m, p) PROVE SiteInv'
  <2>1. Route(m, p, "handler").gives = "handler"
    BY DEF Route
  <2> QED BY <1>2, <2>1, SiteGrows DEF Router
<1>3. CASE ServeStatic
  BY <1>3, SiteServed
<1>4. CASE ServeStaticFails
  BY <1>4 DEF ServeStaticFails, SiteInv
<1>5. CASE UNCHANGED vars
  BY <1>1, <1>5 DEF vars
<1>6. CASE Start \/ (\E q \in Request : Receive(q)) \/ TryRoute \/ GiveUp \/ Sent
  BY <1>1, <1>6 DEF Start, Receive, TryRoute, GiveUp, Sent
<1> QED BY <1>2, <1>3, <1>4, <1>5, <1>6 DEF Next

\* The first route that answers is the file's own, or the application's.
LEMMA SiteMeansReachable ==
    ASSUME OrdinaryNames, TypeOK, SiteInv, RoutesExactly
    PROVE  PagesReachable
<1> SUFFICES ASSUME NEW f \in listing, served = "ok", Asked(<<f.name>>), ~Hidden(<<f.name>>),
                    f.kind = "html" \/ (f.kind \in {"css", "js"} /\ f.referenced)
             PROVE  Gives(f.name)
  BY DEF PagesReachable
<1> DEFINE name == f.name
           p == <<name>>
<1>1. f \in RootFiles /\ name \in Segments /\ name \notin Dotted
  BY ListingsAssumption DEF TypeOK, RootFiles, OfKind, References, FileType, OrdinaryNames
<1>2. PICK n \in 1..Len(routes) : routes[n] = Get(f, p) /\ FreeUpTo(routes, name, n)
  BY <1>1 DEF SiteInv
<1>3. routes[n].method = "GET" /\ routes[n].path = p /\ routes[n].gives = name
  BY <1>2 DEF Get, Route
<1> HIDE DEF name
<1>4. p # <<>> /\ ~HasDots(p)
  BY <1>1 DEF HasDots
<1>5. PathMatch(routes[n], p)
  BY <1>3 DEF PathMatch, SegmentMatch
<1>6. n \in Answering("GET", p)
  BY <1>3, <1>5 DEF Answering, Matching
<1> HIDE DEF p
<1>7. req.path = p /\ req.method = "GET" /\ pc = "answered"
  BY DEF Asked, p, name
<1>8. answer.route \in Answering("GET", p) /\ answer.route <= n
  <2>1. Answering("GET", p) \subseteq Matching(p)
    BY DEF Answering
  <2> QED BY <1>4, <1>6, <1>7, <2>1 DEF RoutesExactly
<1>9. /\ answer.route \in 1..Len(routes) /\ Len(routes) \in Nat
      /\ PathMatch(routes[answer.route], p)
  BY <1>8 DEF Answering, Matching, TypeOK
<1>10. answer.route \in 1..n
  BY <1>8, <1>9
<1>11. routes[answer.route].gives \in {"handler", name}
  BY <1>2, <1>9, <1>10 DEF FreeUpTo, p
<1>12. routes[answer.route].gives # "handler"
  BY <1>8 DEF Hidden, p, name
<1> QED BY <1>9, <1>11, <1>12 DEF Gives, name

\* In whatever order the directory is listed and the hash sets are walked, and
\* whatever routes the application registers before and after, a page, and a
\* style sheet or script that a page refers to, is found at its name.
THEOREM FilesFound ==
    ASSUME OrdinaryNames
    PROVE  Spec => []PagesReachable
<1>1. Init => SiteInv
  BY DEF Init, SiteInv
<1>2. TypeOK /\ SiteInv /\ [Next]_vars => SiteInv'
  BY SiteStep
<1>3. TypeOK /\ SiteInv /\ RoutesExactly => PagesReachable
  BY SiteMeansReachable
<1> QED BY <1>1, <1>2, <1>3, Typing, FirstRouteAnswers, PTL DEF Spec
=============================================================================
