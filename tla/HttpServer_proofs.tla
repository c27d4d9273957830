-------------------------- MODULE HttpServer_proofs --------------------------
(***************************************************************************)
(* Theorems about HttpServer: what is proved of the routes holds with the   *)
(* middlewares, the handler comes after all middlewares of a route, however *)
(* long its chains are, and both what the handler gets and the headers of   *)
(* the answer are what they should be.                                      *)
(***************************************************************************)
EXTENDS HttpServer, HttpRouting_proofs, WellFoundedInduction

-----------------------------------------------------------------------------
(* The routes *)

\* A step of the server finds a route, or leaves what routing knows alone.
LEMMA RoutingStep == ServerNext => [Next]_vars
<1> SUFFICES ASSUME ServerNext PROVE [Next]_vars
  OBVIOUS
<1>1. ASSUME NEW r \in Registrations, Register(r) PROVE Next
  BY <1>1, RegistrationsAssumption DEF Register, Next
<1>2. CASE RegisterFiles
  BY <1>2 DEF RegisterFiles, Next
<1>3. CASE Search
  BY <1>3 DEF Search, Next
<1>4. CASE CallRoute \/ Answer
  BY <1>4 DEF CallRoute, Answer
<1>5. CASE SendResponse
  BY <1>5 DEF SendResponse, Next
<1> QED BY <1>1, <1>2, <1>3, <1>4, <1>5 DEF ServerNext

\* The server finds its routes as HttpRouting does.
THEOREM ImplementsRouting == ServerSpec => Spec
<1>1. ServerInit => Init
  BY DEF ServerInit
<1>2. [ServerNext]_svars => [Next]_vars
  BY RoutingStep DEF svars
<1> QED BY <1>1, <1>2, PTL DEF ServerSpec, Spec

\* Every request gets the first route that has its path and its method, and 405
\* and 404 say why there is none, whatever the middlewares of the routes do.
THEOREM ServerRoutes == ServerSpec => []RoutesExactly
BY ImplementsRouting, FirstRouteAnswers, PTL

\* The files that serve_static found are served, whatever the middlewares of the
\* other routes do.
THEOREM ServerFiles ==
    ASSUME OrdinaryNames
    PROVE  ServerSpec => []PagesReachable
BY ImplementsRouting, FilesFound, PTL

-----------------------------------------------------------------------------
(* Induction *)

\* A set that holds 0 and the successor of every number in it holds them all.
LEMMA NatInd ==
  ASSUME NEW S, 0 \in S, \A n \in Nat : n \in S => n + 1 \in S
  PROVE  Nat \subseteq S
<1> DEFINE T == {n \in Nat : n \notin S}
<1> DEFINE R == {ss \in Nat \X Nat : ss[1] < ss[2]}
<1> SUFFICES ASSUME T # {} PROVE FALSE
  OBVIOUS
<1>1. IsWellFoundedOn(R, Nat)
  BY NatLessThanWellFounded DEF OpToRel
<1>2. T \subseteq Nat
  OBVIOUS
<1> HIDE DEF T, R
<1>3. PICK x \in T : \A y \in T : ~ (<<y, x>> \in R)
  BY <1>1, <1>2, WFMin
<1>5. x \in Nat /\ x # 0
  BY <1>2 DEF T
<1>6. x - 1 \in Nat /\ x - 1 < x /\ (x - 1) + 1 = x
  BY <1>5
<1>7. <<x - 1, x>> \in R
  BY <1>5, <1>6 DEF R
<1>8. x - 1 \notin T
  BY <1>3, <1>7
<1> QED
  BY <1>3, <1>5, <1>6, <1>8 DEF T

-----------------------------------------------------------------------------
(* The middlewares of the routes *)

\* The table of middlewares is as long as the table of routes, and a route that
\* answers is in it.
UsesIn(M) ==
    /\ uses \in Seq(M)
    /\ Len(uses) = Len(routes)
    /\ answer.route \in 0..Len(routes)

LEMMA UsesStep ==
    ASSUME NEW M, Standard \in M, \A r \in Registrations : r.uses \in M,
           TypeOK, UsesIn(M), [ServerNext]_svars
    PROVE  UsesIn(M)'
<1>0. /\ routes \in Seq(RouteType) /\ Len(routes) \in Nat /\ next \in 1..(Len(routes) + 1)
      /\ uses \in Seq(M) /\ Len(uses) = Len(routes)
      /\ answer.route \in 0..Len(routes)
  BY DEF TypeOK, UsesIn
<1>1. ASSUME NEW r \in Registrations, Register(r) PROVE UsesIn(M)'
  <2>1. r.uses \in M
    OBVIOUS
  <2>2. /\ uses' = Append(uses, r.uses) /\ answer' = answer
        /\ routes' = Append(routes, Route(r.method, r.path, "handler"))
    BY <1>1 DEF Register, Router, search
  <2>3. uses' \in Seq(M) /\ Len(uses') = Len(uses) + 1
    BY <1>0, <2>1, <2>2
  <2>4. Len(routes') = Len(routes) + 1
    BY <1>0, <2>2
  <2> QED BY <1>0, <2>2, <2>3, <2>4 DEF UsesIn
<1>2. CASE RegisterFiles
  <2>1. PICK more \in Seq(RouteType) : routes' = routes \o more
    BY <1>2, FilesAdded DEF RegisterFiles
  <2>2. Len(more) \in Nat /\ Len(routes') = Len(routes) + Len(more)
    BY <1>0, <2>1
  <2> DEFINE standards == [n \in 1..(Len(routes') - Len(routes)) |-> Standard]
  <2>3. standards \in [1..Len(more) -> M]
    BY <1>0, <2>2
  <2>4. standards \in Seq(M) /\ Len(standards) = Len(more)
    BY <2>2, <2>3, FunctionIsSeq
  <2>5. uses' = uses \o standards /\ answer' = answer
    BY <1>2 DEF RegisterFiles, ServeStatic, ServeStaticFails, search
  <2> HIDE DEF standards
  <2>6. uses' \in Seq(M) /\ Len(uses') = Len(uses) + Len(more)
    <3>1. uses \o standards \in Seq(M) /\ Len(uses \o standards) = Len(uses) + Len(standards)
      <4>1. uses \in Seq(M) /\ standards \in Seq(M)
        BY <1>0, <2>4
      <4> QED BY <4>1, ConcatType
    <3> QED BY <2>4, <2>5, <3>1
  <2> QED BY <1>0, <2>2, <2>5, <2>6 DEF UsesIn
<1>3. CASE Search
  <2>1. uses' = uses /\ routes' = routes
    BY <1>3 DEF Search, Start, Receive, TryRoute, GiveUp
  <2>2. answer'.route \in {0, next, answer.route} /\ (answer'.route = next => answer'.route = answer.route \/ next <= Len(routes))
    BY <1>0, <1>3 DEF Search, Start, Receive, TryRoute, GiveUp, Replies, search
  <2> QED BY <1>0, <2>1, <2>2 DEF UsesIn
<1>4. CASE CallRoute \/ Answer
  BY <1>4 DEF CallRoute, Answer, vars, UsesIn
<1>5. CASE SendResponse
  BY <1>5 DEF SendResponse, Sent, search, UsesIn
<1>6. CASE UNCHANGED svars
  BY <1>6 DEF svars, vars, UsesIn
<1> QED BY <1>1, <1>2, <1>3, <1>4, <1>5, <1>6 DEF ServerNext

-----------------------------------------------------------------------------
(* One request *)

\* How many middlewares m stands for, if it holds no chains of chains.
Width(m) == IF m.kind = "chain" THEN Len(m.chain) ELSE 1

\* The middlewares of a chain are numbered in their order, before[i] of them in
\* front of place i, and the chains in it hold no more chains.
Numbers(chain, before) ==
    /\ before[1] = 0
    /\ \A i \in 1..Len(chain) :
          /\ before[i + 1] = before[i] + Width(chain[i])
          /\ chain[i].kind # "chain" => chain[i].number = before[i] + 1
          /\ chain[i].kind = "chain" =>
                \A j \in 1..Len(chain[i].chain) :
                   /\ chain[i].chain[j].kind # "chain"
                   /\ chain[i].chain[j].number = before[i] + j

Numbered(m) ==
    IF m.kind = "chain"
      THEN \E before \in [1..(Len(m.chain) + 1) -> Nat] : Numbers(m.chain, before)
      ELSE m.number = 1

NumberedMiddlewares == {m \in Middlewares : Numbered(m)}

\* The routes of an application have single middlewares, chains of them, or
\* chains of such chains, numbered in the order in which they were chained.
NumberedRoutes == \A r \in Registrations : r.uses \in NumberedMiddlewares

Before(m) == CHOOSE before \in [1..(Len(m.chain) + 1) -> Nat] : Numbers(m.chain, before)

SizeOf(m) == IF m.kind = "chain" THEN Before(m)[Len(m.chain) + 1] ELSE 1

Size == SizeOf(whole)

RunType == [number : Nat, read : BOOLEAN, set : {"no", "fits", "other"},
            on : {"next", "default", "none"}]

\* The middlewares that were called are the first ones of the route.
RanInv ==
    /\ stage \in {"idle", "handle", "call", "back", "done"}
    /\ whole \in NumberedMiddlewares
    /\ ran \in Seq(RunType)
    /\ Len(ran) <= Size
    /\ \A k \in 1..Len(ran) : ran[k].number = k

\* The CORS middlewares among them admit the request, until somebody answers.
AdmittedSoFar ==
    \A l \in Leaves(whole) : l.kind = "cors" /\ l.number <= Len(ran) => Admits(l, asked)

Place(m, at) == [chain |-> m.chain, at |-> at]

\* Where a function can go on in route m: behind place i of its chain, or behind
\* place j of the chain at place i.
InRoute(m, f, i)    == m.kind = "chain" /\ i \in 1..Len(m.chain) /\ f = <<Place(m, i)>>
InInner(m, f, i, j) ==
    /\ m.kind = "chain" /\ i \in 1..Len(m.chain)
    /\ m.chain[i].kind = "chain" /\ j \in 1..Len(m.chain[i].chain)
    /\ f = <<Place(m.chain[i], j), Place(m, i)>>

\* f goes on behind the first n middlewares of route m.
GoesOn(m, f, n) ==
    \/ f = Handler /\ n = SizeOf(m)
    \/ \E i \in Nat : InRoute(m, f, i) /\ n = Before(m)[i + 1]
    \/ \E i, j \in Nat : InInner(m, f, i, j) /\ n = Before(m)[i] + j

\* The next middleware, or the chain that holds it, is called with the function
\* to go on behind it.
HandleInv ==
    stage = "handle" =>
        /\ by = "nobody"
        /\ AdmittedSoFar
        /\ \/ part = whole /\ func = Handler /\ ran = <<>>
           \/ \E i \in Nat : /\ InRoute(whole, func, i) /\ part = whole.chain[i]
                             /\ Len(ran) = Before(whole)[i]
           \/ \E i, j \in Nat : /\ InInner(whole, func, i, j) /\ part = whole.chain[i].chain[j]
                                /\ Len(ran) + 1 = Before(whole)[i] + j

\* The last middleware that was called passed the default function on.
Defaulted == Len(ran) > 0 /\ ran[Len(ran)].on = "default"

\* And it ends a chain.
DefaultEnds == Defaulted /\ \E l \in Leaves(whole) : l.number = Len(ran) /\ EndsChain(l)

\* A function is called that goes on behind the middlewares that were called,
\* with another one that does or, behind one that passed it on, with the default
\* one; or the default one is called at the end of a chain.
CallInv ==
    stage = "call" =>
        /\ by = "nobody"
        /\ AdmittedSoFar
        /\ \/ /\ GoesOn(whole, func, Len(ran))
              /\ \/ GoesOn(whole, given, Len(ran))
                 \/ /\ given = Default /\ Defaulted
                    /\ func # Handler => func[1].chain[func[1].at].kind # "chain"
           \/ func = Default /\ DefaultEnds

\* Who answered could.
BackInv ==
    stage \in {"back", "done"} =>
        /\ by \in {"handler", "size", "body"} => Len(ran) = Size /\ AdmittedSoFar
        /\ by = "handler" => ~TooLarge
        /\ by = "nobody" => DefaultEnds

IdleInv == stage = "idle" => by = "nobody" /\ ran = <<>> /\ func = Handler

RequestInv == RanInv /\ HandleInv /\ CallInv /\ BackInv /\ IdleInv

LEMMA StandardNumbered == Standard \in NumberedMiddlewares
BY MiddlewaresAssumption DEF NumberedMiddlewares, Numbered, Standard, Leaf

\* What `before` says of a chain whose middlewares are numbered.
LEMMA BeforeIs ==
    ASSUME NEW m \in NumberedMiddlewares, m.kind = "chain"
    PROVE  /\ m.chain \in Seq(Middlewares) /\ Len(m.chain) \in Nat
           /\ Before(m) \in [1..(Len(m.chain) + 1) -> Nat]
           /\ Numbers(m.chain, Before(m))
<1>1. \E before \in [1..(Len(m.chain) + 1) -> Nat] : Numbers(m.chain, before)
  BY DEF NumberedMiddlewares, Numbered
<1>2. /\ Before(m) \in [1..(Len(m.chain) + 1) -> Nat]
      /\ Numbers(m.chain, Before(m))
  BY <1>1 DEF Before
<1>3. m.chain \in Seq(Middlewares)
  BY MiddlewaresAssumption DEF NumberedMiddlewares
<1> QED BY <1>2, <1>3

\* The same, place by place.
LEMMA PlaceIs ==
    ASSUME NEW m \in NumberedMiddlewares, m.kind = "chain", NEW i \in 1..Len(m.chain)
    PROVE  /\ Len(m.chain) \in Nat /\ m.chain[i] \in Middlewares
           /\ m.chain[i].chain \in Seq(Middlewares) /\ Len(m.chain[i].chain) \in Nat
           /\ Before(m)[i] \in Nat /\ Before(m)[i + 1] \in Nat
           /\ Before(m)[i + 1] = Before(m)[i] + Width(m.chain[i])
           /\ m.chain[i].kind # "chain" => m.chain[i].number = Before(m)[i] + 1
           /\ m.chain[i].kind = "chain" =>
                \A j \in 1..Len(m.chain[i].chain) :
                   /\ m.chain[i].chain[j].kind # "chain"
                   /\ m.chain[i].chain[j].number = Before(m)[i] + j
<1>1. /\ m.chain \in Seq(Middlewares) /\ Len(m.chain) \in Nat
      /\ Before(m) \in [1..(Len(m.chain) + 1) -> Nat]
      /\ Numbers(m.chain, Before(m))
  BY BeforeIs
<1>2. m.chain[i] \in Middlewares /\ m.chain[i].chain \in Seq(Middlewares)
  BY <1>1, MiddlewaresAssumption
<1>3. i \in 1..(Len(m.chain) + 1) /\ i + 1 \in 1..(Len(m.chain) + 1)
  BY <1>1
<1>4. Before(m)[i] \in Nat /\ Before(m)[i + 1] \in Nat
  BY <1>1, <1>3
<1>5. /\ Before(m)[i + 1] = Before(m)[i] + Width(m.chain[i])
      /\ m.chain[i].kind # "chain" => m.chain[i].number = Before(m)[i] + 1
      /\ m.chain[i].kind = "chain" =>
           \A j \in 1..Len(m.chain[i].chain) :
              /\ m.chain[i].chain[j].kind # "chain"
              /\ m.chain[i].chain[j].number = Before(m)[i] + j
  <2> DEFINE before == Before(m)
  <2>1. Numbers(m.chain, before)
    BY <1>1
  <2> HIDE DEF before
  <2>2. /\ before[i + 1] = before[i] + Width(m.chain[i])
        /\ m.chain[i].kind # "chain" => m.chain[i].number = before[i] + 1
        /\ m.chain[i].kind = "chain" =>
             \A j \in 1..Len(m.chain[i].chain) :
                /\ m.chain[i].chain[j].kind # "chain"
                /\ m.chain[i].chain[j].number = before[i] + j
    BY <2>1 DEF Numbers
  <2> QED BY <2>2 DEF before
<1> QED BY <1>1, <1>2, <1>4, <1>5

\* The numbers of the middlewares at a place lie between those of its neighbours.
InPlace(m, i, l) ==
    \/ m.chain[i].kind # "chain" /\ l = m.chain[i]
    \/ m.chain[i].kind = "chain" /\ \E j \in 1..Len(m.chain[i].chain) : l = m.chain[i].chain[j]

LEMMA LeavesOf ==
    ASSUME NEW m \in NumberedMiddlewares, m.kind = "chain"
    PROVE  \A l : l \in Leaves(m) <=> \E i \in 1..Len(m.chain) : InPlace(m, i, l)
<1>1. m.chain \in Seq(Middlewares) /\ Len(m.chain) \in Nat
  BY BeforeIs
<1>2. Elements(m) = {m.chain[i] : i \in 1..Len(m.chain)}
  BY <1>1 DEF Elements
<1>3. ASSUME NEW i \in 1..Len(m.chain), NEW l
      PROVE  l \in Elements(m.chain[i]) <=> InPlace(m, i, l)
  <2>1. m.chain[i].chain \in Seq(Middlewares) /\ Len(m.chain[i].chain) \in Nat
    BY PlaceIs
  <2>2. DOMAIN m.chain[i].chain = 1..Len(m.chain[i].chain)
    BY <2>1
  <2> QED BY <2>2 DEF Elements, InPlace
<1>4. \A l : l \in Leaves(m) <=> \E e \in Elements(m) : l \in Elements(e)
  BY DEF Leaves
<1> QED BY <1>2, <1>3, <1>4

LEMMA InPlaceNumber ==
    ASSUME NEW m \in NumberedMiddlewares, m.kind = "chain", NEW i \in 1..Len(m.chain),
           NEW l, InPlace(m, i, l)
    PROVE  /\ l.kind # "chain" /\ l.number \in (Before(m)[i] + 1)..Before(m)[i + 1]
           /\ \A k : InPlace(m, i, k) /\ k.number = l.number => k = l
<1> DEFINE e == m.chain[i]
           b == Before(m)[i]
<1>1. /\ Len(e.chain) \in Nat /\ b \in Nat
      /\ Before(m)[i + 1] = b + Width(e)
      /\ e.kind # "chain" => e.number = b + 1
      /\ e.kind = "chain" => \A j \in 1..Len(e.chain) :
                                e.chain[j].kind # "chain" /\ e.chain[j].number = b + j
  BY PlaceIs
<1>2. /\ \/ e.kind # "chain" /\ l = e
         \/ e.kind = "chain" /\ \E j \in 1..Len(e.chain) : l = e.chain[j]
      /\ \A k : InPlace(m, i, k) =>
            \/ e.kind # "chain" /\ k = e
            \/ e.kind = "chain" /\ \E j \in 1..Len(e.chain) : k = e.chain[j]
  BY DEF InPlace
<1> HIDE DEF e, b
<1>3. CASE e.kind # "chain"
  BY <1>1, <1>2, <1>3 DEF Width, b
<1>4. CASE e.kind = "chain"
  <2>1. PICK j \in 1..Len(e.chain) : l = e.chain[j]
    BY <1>2, <1>4
  <2>2. l.kind # "chain" /\ l.number = b + j /\ Before(m)[i + 1] = b + Len(e.chain)
    BY <1>1, <1>4, <2>1 DEF Width
  <2>3. ASSUME NEW k, InPlace(m, i, k), k.number = l.number PROVE k = l
    <3>1. PICK h \in 1..Len(e.chain) : k = e.chain[h]
      BY <1>2, <1>4, <2>3
    <3>2. k.number = b + h
      BY <1>1, <1>4, <3>1
    <3>3. h = j
      BY <1>1, <2>2, <2>3, <3>2
    <3> QED BY <2>1, <3>1, <3>3
  <2>4. l.number \in (b + 1)..Before(m)[i + 1]
    BY <1>1, <2>2
  <2> QED BY <2>2, <2>3, <2>4 DEF b
<1> QED BY <1>3, <1>4

\* More middlewares come before a later place.
LEMMA BeforeGrows ==
    ASSUME NEW m \in NumberedMiddlewares, m.kind = "chain",
           NEW i \in 1..(Len(m.chain) + 1), NEW k \in 1..(Len(m.chain) + 1), i <= k
    PROVE  Before(m)[i] <= Before(m)[k]
<1> DEFINE n == Len(m.chain)
           B == Before(m)
           S == {d \in Nat : i + d \in 1..(n + 1) => B[i] <= B[i + d]}
<1>1. n \in Nat /\ B \in [1..(n + 1) -> Nat]
  BY BeforeIs
<1>2. \A h \in 1..n : B[h] <= B[h + 1]
  <2> TAKE h \in 1..n
  <2>1. Len(m.chain[h].chain) \in Nat /\ B[h] \in Nat /\ B[h + 1] = B[h] + Width(m.chain[h])
    BY PlaceIs
  <2>2. Width(m.chain[h]) \in Nat
    BY <2>1 DEF Width
  <2> QED BY <2>1, <2>2
<1> HIDE DEF n, B
<1>3. 0 \in S
  <2>1. i + 0 = i /\ B[i] \in Nat
    BY <1>1 DEF n
  <2> QED BY <2>1
<1>4. \A d \in Nat : d \in S => d + 1 \in S
  <2> SUFFICES ASSUME NEW d \in Nat, d \in S, i + (d + 1) \in 1..(n + 1) PROVE B[i] <= B[i + (d + 1)]
    OBVIOUS
  <2>1. i \in Nat /\ i >= 1
    BY <1>1 DEF n
  <2>2. i + d \in 1..n /\ i + d \in 1..(n + 1) /\ i + (d + 1) = (i + d) + 1
    BY <1>1, <2>1
  <2>3. B[i] <= B[i + d]
    BY <2>2
  <2>4. B[i + d] <= B[(i + d) + 1]
    BY <1>2, <2>2
  <2>5. B[i] \in Nat /\ B[i + d] \in Nat /\ B[(i + d) + 1] \in Nat
    BY <1>1, <2>2 DEF n
  <2> QED BY <2>2, <2>3, <2>4, <2>5
<1> HIDE DEF S
<1>5. k - i \in S
  <2>1. k - i \in Nat
    BY <1>1 DEF n
  <2> QED BY <1>3, <1>4, <2>1, NatInd
<1>6. i + (k - i) = k
  BY <1>1 DEF n
<1> QED BY <1>5, <1>6 DEF S, n, B

\* Every number up to the size is that of a middleware at some place.
LEMMA EveryNumber ==
    ASSUME NEW m \in NumberedMiddlewares, m.kind = "chain", NEW x \in 1..SizeOf(m)
    PROVE  \E i \in 1..Len(m.chain) : \E l : InPlace(m, i, l) /\ l.number = x
<1> DEFINE n == Len(m.chain)
           B == Before(m)
           S == {k \in Nat : k \in 0..n =>
                    (x <= B[k + 1] => \E i \in 1..n : x \in (B[i] + 1)..B[i + 1])}
<1>0. /\ n \in Nat /\ B \in [1..(n + 1) -> Nat] /\ B[1] = 0
      /\ SizeOf(m) = B[n + 1]
  BY BeforeIs DEF SizeOf, Numbers
<1>1. x \in Nat /\ x >= 1 /\ x <= B[n + 1]
  BY <1>0
<1> HIDE DEF n, B
<1>2. 0 \in S
  BY <1>0, <1>1
<1>3. \A k \in Nat : k \in S => k + 1 \in S
  <2> SUFFICES ASSUME NEW k \in Nat, k \in S, k + 1 \in 0..n, x <= B[(k + 1) + 1]
               PROVE  \E i \in 1..n : x \in (B[i] + 1)..B[i + 1]
    OBVIOUS
  <2>1. k \in 0..n /\ k + 1 \in 1..n /\ k + 1 \in 1..(n + 1) /\ (k + 1) + 1 \in 1..(n + 1)
    BY <1>0
  <2>2. CASE x <= B[k + 1]
    BY <2>1, <2>2
  <2>3. CASE ~ (x <= B[k + 1])
    <3>1. B[k + 1] \in Nat /\ B[(k + 1) + 1] \in Nat
      BY <1>0, <2>1
    <3>2. x \in (B[k + 1] + 1)..B[(k + 1) + 1]
      BY <1>1, <2>3, <3>1
    <3> QED BY <2>1, <3>2
  <2> QED BY <2>2, <2>3
<1> HIDE DEF S
<1>4. n \in S
  BY <1>0, <1>2, <1>3, NatInd
<1>5. PICK i \in 1..n : x \in (B[i] + 1)..B[i + 1]
  BY <1>0, <1>1, <1>4 DEF S
<1> DEFINE e == m.chain[i]
<1>6. /\ Len(e.chain) \in Nat /\ B[i] \in Nat
      /\ B[i + 1] = B[i] + Width(e)
      /\ e.kind # "chain" => e.number = B[i] + 1
      /\ e.kind = "chain" => \A j \in 1..Len(e.chain) : e.chain[j].number = B[i] + j
  BY PlaceIs DEF n, B
<1>7. \E l : InPlace(m, i, l) /\ l.number = x
  <2>1. CASE e.kind # "chain"
    <3>1. InPlace(m, i, e)
      BY <2>1 DEF InPlace
    <3>2. e.number = x
      BY <1>5, <1>6, <2>1 DEF Width
    <3> HIDE DEF e
    <3> QED BY <3>1, <3>2
  <2>2. CASE e.kind = "chain"
    <3> DEFINE j == x - B[i]
    <3>1. j \in 1..Len(e.chain) /\ B[i] + j = x
      BY <1>1, <1>5, <1>6, <2>2 DEF Width
    <3> HIDE DEF j
    <3>2. e.chain[j].number = x
      BY <1>6, <2>2, <3>1
    <3>3. InPlace(m, i, e.chain[j])
      BY <2>2, <3>1 DEF InPlace
    <3> HIDE DEF e
    <3> QED BY <3>2, <3>3
  <2> QED BY <2>1, <2>2
<1> QED BY <1>5, <1>7 DEF n

\* The numbers of the middlewares of a route are 1, 2, ... up to its size, and
\* each of them is that of one middleware only.
LEMMA LeafNumbers ==
    ASSUME NEW m \in NumberedMiddlewares
    PROVE  /\ SizeOf(m) \in Nat
           /\ {l.number : l \in Leaves(m)} = 1..SizeOf(m)
           /\ \A l \in Leaves(m) : l.kind # "chain" /\ l.number \in 1..SizeOf(m)
           /\ \A l, k \in Leaves(m) : l.number = k.number => l = k
<1>1. CASE m.kind # "chain"
  <2>1. Leaves(m) = {m}
    BY <1>1 DEF Leaves, Elements
  <2>2. SizeOf(m) = 1 /\ m.number = 1
    BY <1>1 DEF SizeOf, NumberedMiddlewares, Numbered
  <2> QED BY <1>1, <2>1, <2>2
<1>2. CASE m.kind = "chain"
  <2> DEFINE n == Len(m.chain)
             B == Before(m)
  <2>0. n \in Nat /\ B \in [1..(n + 1) -> Nat] /\ SizeOf(m) = B[n + 1]
    BY <1>2, BeforeIs DEF SizeOf
  <2>1. \A l : l \in Leaves(m) <=> \E i \in 1..n : InPlace(m, i, l)
    BY <1>2, LeavesOf
  <2>2. \A i \in 1..n : \A l : InPlace(m, i, l) =>
           /\ l.kind # "chain" /\ l.number \in (B[i] + 1)..B[i + 1]
           /\ \A k : InPlace(m, i, k) /\ k.number = l.number => k = l
    BY <1>2, InPlaceNumber
  <2>3. \A i, k \in 1..(n + 1) : i <= k => B[i] <= B[k]
    BY <1>2, BeforeGrows
  <2>4. \A x \in 1..SizeOf(m) : \E i \in 1..n : \E l : InPlace(m, i, l) /\ l.number = x
    BY <1>2, EveryNumber
  <2> HIDE DEF n, B
  <2>5. SizeOf(m) \in Nat
    BY <2>0
  <2>6. ASSUME NEW l \in Leaves(m) PROVE l.kind # "chain" /\ l.number \in 1..SizeOf(m)
    <3>1. PICK i \in 1..n : InPlace(m, i, l)
      BY <2>1
    <3>2. l.kind # "chain" /\ l.number \in (B[i] + 1)..B[i + 1]
      BY <2>2, <3>1
    <3>3. i + 1 \in 1..(n + 1) /\ n + 1 \in 1..(n + 1) /\ i + 1 <= n + 1 /\ i \in 1..(n + 1)
      BY <2>0
    <3>4. B[i + 1] <= B[n + 1] /\ B[i] \in Nat /\ B[i + 1] \in Nat /\ B[n + 1] \in Nat
      BY <2>0, <2>3, <3>3
    <3> QED BY <2>0, <3>2, <3>4
  <2>7. ASSUME NEW l \in Leaves(m), NEW k \in Leaves(m), l.number = k.number PROVE l = k
    <3>1. PICK i \in 1..n : InPlace(m, i, l)
      BY <2>1
    <3>2. PICK h \in 1..n : InPlace(m, h, k)
      BY <2>1
    <3>3. l.number \in (B[i] + 1)..B[i + 1] /\ l.number \in (B[h] + 1)..B[h + 1]
      BY <2>2, <2>7, <3>1, <3>2
    <3>4. /\ i \in 1..(n + 1) /\ h \in 1..(n + 1) /\ i + 1 \in 1..(n + 1) /\ h + 1 \in 1..(n + 1)
          /\ i \in Nat /\ h \in Nat
      BY <2>0
    <3>5. B[i] \in Nat /\ B[h] \in Nat /\ B[i + 1] \in Nat /\ B[h + 1] \in Nat
      BY <2>0, <3>4
    <3>6. i = h
      <4>1. ~ (i + 1 <= h)
        <5> SUFFICES ASSUME i + 1 <= h PROVE FALSE
          OBVIOUS
        <5>1. B[i + 1] <= B[h]
          BY <2>3, <3>4
        <5> QED BY <3>3, <3>5, <5>1
      <4>2. ~ (h + 1 <= i)
        <5> SUFFICES ASSUME h + 1 <= i PROVE FALSE
          OBVIOUS
        <5>1. B[h + 1] <= B[i]
          BY <2>3, <3>4
        <5> QED BY <3>3, <3>5, <5>1
      <4> QED BY <3>4, <4>1, <4>2
    <3> QED BY <2>2, <2>7, <3>1, <3>2, <3>6
  <2>8. ASSUME NEW x \in 1..SizeOf(m) PROVE x \in {l.number : l \in Leaves(m)}
    BY <2>1, <2>4
  <2> QED BY <2>5, <2>6, <2>7, <2>8
<1> QED BY <1>1, <1>2

LEMMA SeqEqual ==
    ASSUME NEW A, NEW s \in Seq(A), NEW t \in Seq(A), Len(s) = Len(t),
           \A i \in 1..Len(s) : s[i] = t[i]
    PROVE  s = t
OBVIOUS

LEMMA Singles ==
    ASSUME NEW p, NEW o
    PROVE  <<p>> \o <<>> = <<p>> /\ <<p>> \o <<o>> = <<p, o>>
<1>1. <<p>> \in Seq({p, o}) /\ <<o>> \in Seq({p, o}) /\ <<>> \in Seq({p, o}) /\ <<p, o>> \in Seq({p, o})
  OBVIOUS
<1>2. <<p>> \o <<>> = <<p>>
  BY <1>1
<1>3. <<p>> \o <<o>> = <<p, o>>
  <2> DEFINE s == <<p>> \o <<o>>
             t == <<p, o>>
  <2>1. s \in Seq({p, o}) /\ Len(s) = 2 /\ s[1] = p /\ s[2] = o
    BY <1>1
  <2>2. t \in Seq({p, o}) /\ Len(t) = 2 /\ t[1] = p /\ t[2] = o
    OBVIOUS
  <2> HIDE DEF s, t
  <2>3. \A i \in 1..2 : s[i] = t[i]
    <3>1. \A i \in 1..2 : i = 1 \/ i = 2
      OBVIOUS
    <3> QED BY <2>1, <2>2, <3>1
  <2>4. s = t
    BY <2>1, <2>2, <2>3, SeqEqual
  <2> QED BY <2>4 DEF s, t
<1> QED BY <1>2, <1>3

LEMMA Sizes ==
    ASSUME RanInv
    PROVE  /\ whole \in NumberedMiddlewares /\ whole \in Middlewares
           /\ Size \in Nat /\ Len(ran) \in Nat /\ Len(ran) <= Size
BY LeafNumbers DEF RanInv, Size, NumberedMiddlewares

\* Functions that go on behind different places are different.
LEMMA Functions1 ==
    ASSUME RanInv, NEW f, NEW i, InRoute(whole, f, i)
    PROVE  /\ f # Handler /\ f # Default /\ Tail(f) = Handler
           /\ f[1].chain = whole.chain /\ f[1].at = i
<1>0. Len(whole.chain) \in Nat
  BY Sizes, BeforeIs DEF InRoute
<1>1. f = <<[chain |-> whole.chain, at |-> i]>> /\ i >= 1
  BY <1>0 DEF InRoute, Place
<1>2. Len(f) = 1 /\ Len(Handler) = 0 /\ Tail(f) = Handler /\ f[1] = [chain |-> whole.chain, at |-> i]
  BY <1>1 DEF Handler
<1>3. f[1].chain = whole.chain /\ f[1].at = i /\ Default[1].at = 0
  BY <1>2 DEF Default
<1>4. f # Default
  <2> SUFFICES ASSUME f = Default PROVE FALSE
    OBVIOUS
  <2>1. f[1].at = Default[1].at
    OBVIOUS
  <2> QED BY <1>1, <1>3, <2>1
<1> QED BY <1>2, <1>3, <1>4

LEMMA Functions2 ==
    ASSUME NEW f, NEW i, NEW j, InInner(whole, f, i, j)
    PROVE  /\ f # Handler /\ f # Default
           /\ InRoute(whole, Tail(f), i)
           /\ f[1].chain = whole.chain[i].chain /\ f[1].at = j
           /\ Tail(f) = <<Place(whole, i)>>
<1> DEFINE p == Place(whole.chain[i], j)
           o == Place(whole, i)
<1>1. f = <<p, o>>
  BY DEF InInner
<1> HIDE DEF p, o
<1>2. Len(f) = 2 /\ Len(Handler) = 0 /\ Len(Default) = 1 /\ Tail(f) = <<o>> /\ f[1] = p
  BY <1>1 DEF Handler, Default
<1>3. p.chain = whole.chain[i].chain /\ p.at = j
  BY DEF p, Place
<1>4. InRoute(whole, Tail(f), i)
  BY <1>2 DEF InInner, InRoute, o
<1>5. f # Handler /\ f # Default
  BY <1>2
<1> QED BY <1>2, <1>3, <1>4, <1>5 DEF o

LEMMA Functions0 == Handler # Default /\ Len(Handler) = 0
BY DEF Handler, Default

LEMMA PlaceLeaf ==
    ASSUME RanInv, whole.kind = "chain", NEW i \in 1..Len(whole.chain), NEW l, InPlace(whole, i, l)
    PROVE  l \in Leaves(whole)
BY Sizes, LeavesOf

\* The middleware that is called is the next one of the route, and its function
\* goes on behind it.
LEMMA Called ==
    ASSUME RequestInv, stage = "handle", part.kind # "chain"
    PROVE  /\ part \in Leaves(whole) /\ part.number = Len(ran) + 1
           /\ Len(ran) + 1 \in 1..Size
           /\ GoesOn(whole, func, Len(ran) + 1)
           /\ func # Handler => func[1].chain[func[1].at] = part
<1>1. RanInv /\ HandleInv
  BY DEF RequestInv
<1>2. whole \in NumberedMiddlewares /\ Size \in Nat /\ Len(ran) \in Nat
  BY <1>1, Sizes
<1>3. /\ \A l \in Leaves(whole) : l.number \in 1..Size
  BY <1>2, LeafNumbers DEF Size
<1>4. CASE part = whole /\ func = Handler /\ ran = <<>>
  <2>1. Size = 1 /\ part.number = 1 /\ Len(ran) = 0
    BY <1>2, <1>4 DEF Size, SizeOf, NumberedMiddlewares, Numbered
  <2>2. part \in Leaves(whole)
    BY <1>4 DEF Leaves, Elements
  <2> QED BY <1>4, <2>1, <2>2 DEF GoesOn, Size
<1>5. ASSUME NEW i \in Nat, InRoute(whole, func, i), part = whole.chain[i], Len(ran) = Before(whole)[i]
      PROVE  /\ part \in Leaves(whole) /\ part.number = Len(ran) + 1
             /\ GoesOn(whole, func, Len(ran) + 1)
             /\ func # Handler => func[1].chain[func[1].at] = part
  <2>1. whole.kind = "chain" /\ i \in 1..Len(whole.chain)
    BY <1>5 DEF InRoute
  <2>2. part.number = Len(ran) + 1 /\ Before(whole)[i + 1] = Len(ran) + 1
    BY <1>2, <1>5, <2>1, PlaceIs DEF Width
  <2>3. part \in Leaves(whole)
    BY <1>1, <1>5, <2>1, PlaceLeaf DEF InPlace
  <2>4. func[1].chain[func[1].at] = part
    BY <1>1, <1>5, Functions1
  <2>5. GoesOn(whole, func, Len(ran) + 1)
    BY <1>5, <2>2 DEF GoesOn
  <2> QED BY <2>2, <2>3, <2>4, <2>5
<1>6. ASSUME NEW i \in Nat, NEW j \in Nat, InInner(whole, func, i, j), part = whole.chain[i].chain[j],
             Len(ran) + 1 = Before(whole)[i] + j
      PROVE  /\ part \in Leaves(whole) /\ part.number = Len(ran) + 1
             /\ GoesOn(whole, func, Len(ran) + 1)
             /\ func # Handler => func[1].chain[func[1].at] = part
  <2>1. whole.kind = "chain" /\ i \in 1..Len(whole.chain) /\ whole.chain[i].kind = "chain"
        /\ j \in 1..Len(whole.chain[i].chain)
    BY <1>6 DEF InInner
  <2>2. part.number = Len(ran) + 1
    BY <1>2, <1>6, <2>1, PlaceIs
  <2>3. part \in Leaves(whole)
    BY <1>1, <1>6, <2>1, PlaceLeaf DEF InPlace
  <2>4. func[1].chain[func[1].at] = part
    BY <1>6, Functions2
  <2>5. GoesOn(whole, func, Len(ran) + 1)
    BY <1>6 DEF GoesOn
  <2> QED BY <2>2, <2>3, <2>4, <2>5
<1>7. /\ part \in Leaves(whole) /\ part.number = Len(ran) + 1
      /\ GoesOn(whole, func, Len(ran) + 1)
      /\ func # Handler => func[1].chain[func[1].at] = part
  BY <1>1, <1>4, <1>5, <1>6 DEF HandleInv
<1> QED BY <1>2, <1>3, <1>7

\* The route and the request stay.
LEMMA SameRequest ==
    ASSUME UNCHANGED request
    PROVE  /\ whole' = whole /\ asked' = asked /\ Size' = Size
           /\ \A l : EndsChain(l)' <=> EndsChain(l)
           /\ TooLarge' = TooLarge
BY DEF request, Size, EndsChain, TooLarge

\* What the history says after a middleware was called.
LEMMA RanStep ==
    ASSUME RequestInv, stage = "handle", part.kind # "chain",
           NEW read \in BOOLEAN, NEW set \in {"no", "fits", "other"},
           NEW on \in {"next", "default", "none"},
           Ran(read, set, on), UNCHANGED request, stage' \in {"call", "back"}
    PROVE  /\ RanInv'
           /\ Len(ran') = Len(ran) + 1 /\ ran'[Len(ran')].on = on
           /\ (part.kind = "cors" => Admits(part, asked)) => AdmittedSoFar'
<1> DEFINE entry == [number |-> part.number, read |-> read, set |-> set, on |-> on]
<1>1. RanInv /\ AdmittedSoFar
  BY DEF RequestInv, HandleInv
<1>2. /\ whole \in NumberedMiddlewares /\ Size \in Nat /\ Len(ran) \in Nat
      /\ part \in Leaves(whole) /\ part.number = Len(ran) + 1 /\ Len(ran) + 1 \in 1..Size
  BY <1>1, Sizes, Called
<1>3. ran' = Append(ran, entry) /\ entry \in RunType /\ ran \in Seq(RunType)
  BY <1>1, <1>2 DEF Ran, RunType, RanInv
<1>4. /\ ran' \in Seq(RunType) /\ Len(ran') = Len(ran) + 1
      /\ ran'[Len(ran) + 1] = entry
      /\ \A k \in 1..Len(ran) : ran'[k] = ran[k]
  BY <1>2, <1>3
<1>5. whole' = whole /\ asked' = asked /\ Size' = Size
  BY SameRequest
<1>6. RanInv'
  <2>1. \A k \in 1..Len(ran') : ran'[k].number = k
    BY <1>1, <1>2, <1>4 DEF RanInv
  <2>2. Len(ran') <= Size'
    BY <1>2, <1>4, <1>5
  <2> QED BY <1>1, <1>4, <1>5, <2>1, <2>2 DEF RanInv
<1>7. ran'[Len(ran')].on = on
  BY <1>4
<1>8. ASSUME part.kind = "cors" => Admits(part, asked) PROVE AdmittedSoFar'
  <2> SUFFICES ASSUME NEW l \in Leaves(whole), l.kind = "cors", l.number <= Len(ran')
               PROVE  Admits(l, asked)
    <3>1. Leaves(whole') = Leaves(whole) /\ \A l : Admits(l, asked') = Admits(l, asked)
      BY <1>5
    <3> QED BY <3>1, <1>5 DEF AdmittedSoFar, Leaves, Elements, Admits, OriginFits
  <2>0. l.number \in 1..Size /\ (l.number = part.number => l = part)
    BY <1>2, LeafNumbers DEF Size
  <2>1. CASE l.number = Len(ran) + 1
    BY <1>2, <1>8, <2>0, <2>1
  <2>2. CASE l.number <= Len(ran)
    BY <1>1, <2>2 DEF AdmittedSoFar
  <2> QED BY <1>2, <1>4, <2>0, <2>1, <2>2
<1> QED BY <1>4, <1>6, <1>7, <1>8

\* A middleware passes the request on.
LEMMA Passes ==
    ASSUME RequestInv, stage = "handle", part.kind # "chain",
           NEW read \in BOOLEAN, NEW set \in {"no", "fits", "other"},
           NEW on \in {"next", "default"},
           Ran(read, set, on), PassOn(IF on = "next" THEN func ELSE Default), UNCHANGED request,
           part.kind = "cors" => Admits(part, asked)
    PROVE  RequestInv'
<1>1. /\ stage' = "call" /\ given' = (IF on = "next" THEN func ELSE Default)
      /\ func' = func /\ by' = by /\ by = "nobody"
  BY DEF PassOn, answered, RequestInv, HandleInv
<1>2. /\ RanInv' /\ AdmittedSoFar' /\ Len(ran') = Len(ran) + 1
      /\ ran'[Len(ran')].on = on
  BY <1>1, RanStep
<1>3. /\ GoesOn(whole, func, Len(ran) + 1) /\ Len(ran) \in Nat
      /\ func # Handler => func[1].chain[func[1].at] = part
  BY Called, Sizes DEF RequestInv
<1>4. GoesOn(whole', func', Len(ran'))
  <2>1. whole' = whole /\ func' = func /\ Len(ran') = Len(ran) + 1
    BY <1>1, <1>2, SameRequest
  <2> QED BY <1>3, <2>1
<1>5. CallInv'
  <2>1. CASE on = "next"
    BY <1>1, <1>2, <1>4, <2>1 DEF CallInv
  <2>2. CASE on = "default"
    <3>1. Defaulted'
      BY <1>2, <1>3, <2>2 DEF Defaulted
    <3> QED BY <1>1, <1>2, <1>3, <1>4, <2>2, <3>1 DEF CallInv
  <2> QED BY <2>1, <2>2
<1> QED BY <1>1, <1>2, <1>5 DEF RequestInv, HandleInv, BackInv, IdleInv

\* A middleware answers.
LEMMA Responds ==
    ASSUME RequestInv, stage = "handle", part.kind # "chain",
           NEW read \in BOOLEAN, NEW set \in {"no", "fits", "other"},
           Ran(read, set, "none"), stage' = "back", by' \in {"middleware", "cors"},
           UNCHANGED request
    PROVE  RequestInv'
<1>1. stage' \in {"call", "back"}
  OBVIOUS
<1>2. RanInv'
  BY <1>1, RanStep
<1> QED BY <1>2 DEF RequestInv, HandleInv, CallInv, BackInv, IdleInv

\* Behind the last middleware of a chain the function that goes on is the one
\* around the chain.
LEMMA BehindChain ==
    ASSUME RanInv, NEW f, f # Handler, f # Default, GoesOn(whole, f, Len(ran))
    PROVE  /\ f[1].at + 1 > Len(f[1].chain) => GoesOn(whole, Tail(f), Len(ran))
           /\ f[1].at + 1 <= Len(f[1].chain) =>
                \E i \in Nat :
                   \/ /\ InRoute(whole, <<[chain |-> f[1].chain, at |-> f[1].at + 1]>> \o Tail(f), i)
                      /\ f[1].chain[f[1].at + 1] = whole.chain[i] /\ Len(ran) = Before(whole)[i]
                   \/ \E j \in Nat :
                        /\ InInner(whole, <<[chain |-> f[1].chain, at |-> f[1].at + 1]>> \o Tail(f), i, j)
                        /\ f[1].chain[f[1].at + 1] = whole.chain[i].chain[j]
                        /\ Len(ran) + 1 = Before(whole)[i] + j
<1>0. whole \in NumberedMiddlewares /\ Size \in Nat /\ Len(ran) \in Nat
  BY Sizes
<1>1. CASE \E i \in Nat : InRoute(whole, f, i) /\ Len(ran) = Before(whole)[i + 1]
  <2>1. PICK i \in Nat : InRoute(whole, f, i) /\ Len(ran) = Before(whole)[i + 1]
    BY <1>1
  <2>2. whole.kind = "chain" /\ i \in 1..Len(whole.chain) /\ Len(whole.chain) \in Nat
    BY <1>0, <2>1, BeforeIs DEF InRoute
  <2>3. Tail(f) = Handler /\ f[1].chain = whole.chain /\ f[1].at = i
    BY <2>1, Functions1
  <2>4. ASSUME i + 1 > Len(whole.chain) PROVE GoesOn(whole, Tail(f), Len(ran))
    <3>1. i = Len(whole.chain)
      BY <2>2, <2>4
    <3>2. Size = Len(ran)
      BY <2>1, <2>2, <3>1 DEF Size, SizeOf
    <3> QED BY <2>3, <3>2 DEF GoesOn, Size
  <2>5. ASSUME i + 1 <= Len(whole.chain)
        PROVE  /\ InRoute(whole, <<[chain |-> f[1].chain, at |-> f[1].at + 1]>> \o Tail(f), i + 1)
               /\ f[1].chain[f[1].at + 1] = whole.chain[i + 1] /\ Len(ran) = Before(whole)[i + 1]
    <3>1. <<[chain |-> f[1].chain, at |-> f[1].at + 1]>> \o Tail(f) = <<Place(whole, i + 1)>>
      BY <2>3, Singles DEF Place, Handler
    <3> QED BY <2>1, <2>2, <2>3, <2>5, <3>1 DEF InRoute
  <2>6. i + 1 \in Nat
    OBVIOUS
  <2> QED BY <2>3, <2>4, <2>5, <2>6
<1>2. CASE \E i, j \in Nat : InInner(whole, f, i, j) /\ Len(ran) = Before(whole)[i] + j
  <2>1. PICK i \in Nat, j \in Nat : InInner(whole, f, i, j) /\ Len(ran) = Before(whole)[i] + j
    BY <1>2
  <2>2. whole.kind = "chain" /\ i \in 1..Len(whole.chain) /\ whole.chain[i].kind = "chain"
        /\ j \in 1..Len(whole.chain[i].chain)
    BY <2>1 DEF InInner
  <2>3. /\ Len(whole.chain[i].chain) \in Nat /\ Before(whole)[i] \in Nat
        /\ Before(whole)[i + 1] = Before(whole)[i] + Len(whole.chain[i].chain)
    BY <1>0, <2>2, PlaceIs DEF Width
  <2>4. /\ InRoute(whole, Tail(f), i) /\ f[1].chain = whole.chain[i].chain /\ f[1].at = j
        /\ Tail(f) = <<Place(whole, i)>>
    BY <2>1, Functions2
  <2>5. ASSUME j + 1 > Len(whole.chain[i].chain) PROVE GoesOn(whole, Tail(f), Len(ran))
    <3>1. Len(ran) = Before(whole)[i + 1]
      BY <2>1, <2>2, <2>3, <2>5
    <3> QED BY <2>4, <3>1 DEF GoesOn
  <2>6. ASSUME j + 1 <= Len(whole.chain[i].chain)
        PROVE  /\ InInner(whole, <<[chain |-> f[1].chain, at |-> f[1].at + 1]>> \o Tail(f), i, j + 1)
               /\ f[1].chain[f[1].at + 1] = whole.chain[i].chain[j + 1]
               /\ Len(ran) + 1 = Before(whole)[i] + (j + 1)
    <3> DEFINE p == Place(whole.chain[i], j + 1)
               o == Place(whole, i)
    <3>1. [chain |-> f[1].chain, at |-> f[1].at + 1] = p /\ Tail(f) = <<o>>
      BY <2>4 DEF Place
    <3> HIDE DEF p, o
    <3>2. <<[chain |-> f[1].chain, at |-> f[1].at + 1]>> \o Tail(f) = <<p, o>>
      BY <3>1, Singles
    <3>3. Len(ran) + 1 = Before(whole)[i] + (j + 1)
      BY <2>1, <2>3
    <3> QED BY <2>2, <2>3, <2>4, <2>6, <3>2, <3>3 DEF InInner, p, o
  <2>7. j + 1 \in Nat
    OBVIOUS
  <2> QED BY <2>4, <2>5, <2>6, <2>7
<1> QED BY <1>1, <1>2 DEF GoesOn

\* The last place of a chain, if it holds a middleware and no chain.
LEMMA EndOfChain ==
    ASSUME RanInv, NEW f, f # Handler, GoesOn(whole, f, Len(ran)),
           f[1].at + 1 > Len(f[1].chain), f[1].chain[f[1].at].kind # "chain"
    PROVE  \E l \in Leaves(whole) : l.number = Len(ran) /\ EndsChain(l)
<1>0. whole \in NumberedMiddlewares /\ Size \in Nat /\ Len(ran) \in Nat
  BY Sizes
<1>1. CASE \E i \in Nat : InRoute(whole, f, i) /\ Len(ran) = Before(whole)[i + 1]
  <2>1. PICK i \in Nat : InRoute(whole, f, i) /\ Len(ran) = Before(whole)[i + 1]
    BY <1>1
  <2> DEFINE l == whole.chain[i]
  <2>2. whole.kind = "chain" /\ i \in 1..Len(whole.chain) /\ Len(whole.chain) \in Nat
    BY <1>0, <2>1, BeforeIs DEF InRoute
  <2>3. f[1].chain = whole.chain /\ f[1].at = i
    BY <2>1, Functions1
  <2>4. i = Len(whole.chain) /\ l.kind # "chain"
    BY <2>2, <2>3
  <2>5. l.number = Len(ran) /\ l \in Leaves(whole)
    <3>1. l.number = Len(ran)
      BY <1>0, <2>1, <2>2, <2>4, PlaceIs DEF Width
    <3> QED BY <2>2, <2>4, <3>1, PlaceLeaf DEF InPlace
  <2>6. EndsChain(l)
    <3>1. l \in Elements(whole.chain[Len(whole.chain)]) /\ whole.chain # <<>>
      BY <2>2, <2>4 DEF Elements
    <3> QED BY <2>2, <3>1 DEF EndsChain
  <2> QED BY <2>5, <2>6
<1>2. CASE \E i, j \in Nat : InInner(whole, f, i, j) /\ Len(ran) = Before(whole)[i] + j
  <2>1. PICK i \in Nat, j \in Nat : InInner(whole, f, i, j) /\ Len(ran) = Before(whole)[i] + j
    BY <1>2
  <2> DEFINE c == whole.chain[i]
             l == c.chain[j]
  <2>2. whole.kind = "chain" /\ i \in 1..Len(whole.chain) /\ c.kind = "chain"
        /\ j \in 1..Len(c.chain)
    BY <2>1 DEF InInner
  <2>3. f[1].chain = c.chain /\ f[1].at = j /\ Len(c.chain) \in Nat /\ whole.chain \in Seq(Middlewares)
    BY <1>0, <2>1, <2>2, Functions2, PlaceIs, BeforeIs
  <2>4. j = Len(c.chain)
    BY <2>2, <2>3
  <2>5. l.kind # "chain" /\ l.number = Len(ran) /\ l \in Leaves(whole)
    <3>1. l.kind # "chain" /\ l.number = Len(ran)
      BY <1>0, <2>1, <2>2, PlaceIs
    <3> QED BY <2>2, <3>1, PlaceLeaf DEF InPlace
  <2>6. EndsChain(l)
    <3>1. c \in Elements(whole)
      BY <2>2, <2>3 DEF Elements
    <3>2. l \in Elements(c.chain[Len(c.chain)]) /\ c.chain # <<>>
      BY <2>2, <2>4, <2>5 DEF Elements
    <3> HIDE DEF c, l
    <3> QED BY <2>2, <3>1, <3>2 DEF EndsChain
  <2> QED BY <2>5, <2>6
<1> QED BY <1>1, <1>2 DEF GoesOn

\* A chain is entered, or the middleware behind one of its places is called.
LEMMA InChain ==
    ASSUME RequestInv, HandleChain \/ CallNext
    PROVE  RequestInv'
<1> USE DEF answered
<1>0. RanInv /\ whole \in NumberedMiddlewares /\ Size \in Nat /\ Len(ran) \in Nat
  BY Sizes DEF RequestInv
<1>1. UNCHANGED request /\ ran' = ran /\ by' = by
  BY DEF HandleChain, CallNext
<1>2. whole' = whole /\ asked' = asked /\ Size' = Size
  BY <1>1, SameRequest
<1>3. stage \in {"handle", "call"} /\ by = "nobody" /\ AdmittedSoFar
  BY DEF HandleChain, CallNext, RequestInv, HandleInv, CallInv
<1>4. AdmittedSoFar'
  BY <1>1, <1>2, <1>3 DEF AdmittedSoFar, Leaves, Elements, Admits, OriginFits
<1>5. stage' \in {"handle", "call"} => RanInv'
  BY <1>0, <1>1, <1>2 DEF RanInv
<1>6. ASSUME stage' = "call", GoesOn(whole, func', Len(ran)),
             \/ GoesOn(whole, given', Len(ran))
             \/ /\ given' = Default /\ Defaulted
                /\ func' # Handler => func'[1].chain[func'[1].at].kind # "chain"
      PROVE  RequestInv'
  <2>1. GoesOn(whole', func', Len(ran')) /\ (GoesOn(whole, given', Len(ran)) => GoesOn(whole', given', Len(ran')))
    BY <1>1, <1>2, <1>6
  <2>2. Defaulted' <=> Defaulted
    BY <1>1 DEF Defaulted
  <2>3. CallInv'
    BY <1>1, <1>3, <1>4, <1>6, <2>1, <2>2 DEF CallInv
  <2> QED BY <1>5, <1>6, <2>3 DEF RequestInv, HandleInv, BackInv, IdleInv
<1>7. ASSUME stage' = "handle",
             \E i \in Nat :
                \/ /\ InRoute(whole, func', i) /\ part' = whole.chain[i]
                   /\ Len(ran) = Before(whole)[i]
                \/ \E j \in Nat : /\ InInner(whole, func', i, j) /\ part' = whole.chain[i].chain[j]
                                  /\ Len(ran) + 1 = Before(whole)[i] + j
      PROVE  RequestInv'
  <2>1. PICK i \in Nat :
                \/ /\ InRoute(whole, func', i) /\ part' = whole.chain[i]
                   /\ Len(ran) = Before(whole)[i]
                \/ \E j \in Nat : /\ InInner(whole, func', i, j) /\ part' = whole.chain[i].chain[j]
                                  /\ Len(ran) + 1 = Before(whole)[i] + j
    BY <1>7
  <2>2. HandleInv'
    BY <1>1, <1>2, <1>3, <1>4, <1>7, <2>1 DEF HandleInv
  <2> QED BY <1>5, <1>7, <2>2 DEF RequestInv, CallInv, BackInv, IdleInv
<1>8. CASE HandleChain
  <2>1. stage = "handle" /\ part.kind = "chain" /\ CallLast(func, part.chain, 1, func)
    BY <1>8 DEF HandleChain
  <2>2. CASE part = whole /\ func = Handler /\ ran = <<>>
    <3>1. whole.kind = "chain" /\ Len(whole.chain) \in Nat /\ Before(whole)[1] = 0 /\ Len(ran) = 0
      BY <1>0, <2>1, <2>2, BeforeIs DEF Numbers
    <3>2. CASE /\ 1 <= Len(whole.chain) /\ stage' = "handle" /\ part' = whole.chain[1]
               /\ func' = <<[chain |-> whole.chain, at |-> 1]>> \o Handler
      <4>1. func' = <<Place(whole, 1)>>
        BY <3>2, Singles DEF Handler, Place
      <4>2. InRoute(whole, func', 1) /\ part' = whole.chain[1] /\ Len(ran) = Before(whole)[1]
        <5>1. 1 \in 1..Len(whole.chain)
          BY <3>1, <3>2
        <5>2. InRoute(whole, func', 1)
          BY <3>1, <4>1, <5>1 DEF InRoute
        <5> QED BY <3>1, <3>2, <5>2
      <4> QED BY <1>7, <3>2, <4>2
    <3>3. CASE 1 > Len(whole.chain) /\ stage' = "call" /\ func' = func /\ given' = func
      <4>1. Size = 0
        BY <3>1, <3>3 DEF Size, SizeOf
      <4>2. GoesOn(whole, func, Len(ran))
        BY <2>2, <3>1, <4>1 DEF GoesOn, Size
      <4> QED BY <1>6, <3>3, <4>2
    <3> QED BY <2>1, <2>2, <3>2, <3>3 DEF CallLast
  <2>3. ASSUME NEW i \in Nat, InRoute(whole, func, i), part = whole.chain[i], Len(ran) = Before(whole)[i]
        PROVE  RequestInv'
    <3>1. whole.kind = "chain" /\ i \in 1..Len(whole.chain) /\ func = <<Place(whole, i)>>
      BY <2>3 DEF InRoute
    <3>2. Len(part.chain) \in Nat /\ Before(whole)[i + 1] = Len(ran) + Len(part.chain)
      BY <1>0, <2>1, <2>3, <3>1, PlaceIs DEF Width
    <3>3. CASE /\ 1 <= Len(part.chain) /\ stage' = "handle" /\ part' = part.chain[1]
               /\ func' = <<[chain |-> part.chain, at |-> 1]>> \o func
      <4> DEFINE p == Place(whole.chain[i], 1)
                 o == Place(whole, i)
      <4>1. func' = <<p>> \o <<o>>
        BY <2>3, <3>1, <3>3 DEF Place
      <4> HIDE DEF p, o
      <4>2. func' = <<p, o>>
        BY <4>1, Singles
      <4>3. InInner(whole, func', i, 1)
        <5>1. 1 \in 1..Len(whole.chain[i].chain) /\ whole.chain[i].kind = "chain"
          BY <2>1, <2>3, <3>2, <3>3
        <5>2. func' = <<Place(whole.chain[i], 1), Place(whole, i)>>
          BY <4>2 DEF p, o
        <5> QED BY <3>1, <5>1, <5>2 DEF InInner
      <4>4. part' = whole.chain[i].chain[1] /\ Len(ran) + 1 = Before(whole)[i] + 1 /\ 1 \in Nat
        BY <2>3, <3>3
      <4> QED BY <1>7, <3>3, <4>3, <4>4
    <3>4. CASE 1 > Len(part.chain) /\ stage' = "call" /\ func' = func /\ given' = func
      <4>1. Before(whole)[i + 1] = Len(ran)
        BY <1>0, <3>2, <3>4
      <4>2. GoesOn(whole, func, Len(ran))
        BY <2>3, <4>1 DEF GoesOn
      <4> QED BY <1>6, <3>4, <4>2
    <3> QED BY <2>1, <3>3, <3>4 DEF CallLast
  <2>4. ASSUME NEW i \in Nat, NEW j \in Nat, InInner(whole, func, i, j),
               part = whole.chain[i].chain[j]
        PROVE  FALSE
    <3>1. whole.kind = "chain" /\ i \in 1..Len(whole.chain) /\ whole.chain[i].kind = "chain"
          /\ j \in 1..Len(whole.chain[i].chain)
      BY <2>4 DEF InInner
    <3> QED BY <1>0, <2>1, <2>4, <3>1, PlaceIs
  <2>5. HandleInv
    BY DEF RequestInv
  <2> QED BY <2>1, <2>2, <2>3, <2>4, <2>5 DEF HandleInv
<1>9. CASE CallNext
  <2>1. /\ stage = "call" /\ func # Handler /\ func # Default
        /\ CallLast(given, func[1].chain, func[1].at + 1, Tail(func))
    BY <1>9 DEF CallNext
  <2>2. /\ GoesOn(whole, func, Len(ran))
        /\ \/ GoesOn(whole, given, Len(ran))
           \/ given = Default /\ Defaulted /\ func[1].chain[func[1].at].kind # "chain"
    BY <2>1 DEF RequestInv, CallInv
  <2>3. CASE /\ func[1].at + 1 <= Len(func[1].chain) /\ stage' = "handle"
             /\ part' = func[1].chain[func[1].at + 1]
             /\ func' = <<[chain |-> func[1].chain, at |-> func[1].at + 1]>> \o Tail(func)
    <3>1. PICK i \in Nat :
             \/ /\ InRoute(whole, func', i) /\ part' = whole.chain[i] /\ Len(ran) = Before(whole)[i]
             \/ \E j \in Nat : /\ InInner(whole, func', i, j) /\ part' = whole.chain[i].chain[j]
                               /\ Len(ran) + 1 = Before(whole)[i] + j
      BY <1>0, <2>1, <2>2, <2>3, BehindChain
    <3> QED BY <1>7, <2>3, <3>1
  <2>4. CASE /\ func[1].at + 1 > Len(func[1].chain) /\ stage' = "call" /\ func' = given
             /\ given' = Tail(func)
    <3>1. GoesOn(whole, given', Len(ran))
      BY <1>0, <2>1, <2>2, <2>4, BehindChain
    <3>2. CASE GoesOn(whole, given, Len(ran))
      BY <1>6, <2>4, <3>1, <3>2
    <3>3. CASE given = Default /\ Defaulted /\ func[1].chain[func[1].at].kind # "chain"
      <4>1. DefaultEnds
        BY <1>0, <2>1, <2>2, <2>4, <3>3, EndOfChain DEF DefaultEnds
      <4>2. DefaultEnds'
        BY <1>1, <1>2, <4>1, SameRequest DEF DefaultEnds, Defaulted, EndsChain
      <4>3. CallInv'
        BY <1>1, <1>3, <1>4, <2>4, <3>3, <4>2 DEF CallInv
      <4> QED BY <1>5, <2>4, <4>3 DEF RequestInv, HandleInv, BackInv, IdleInv
    <3> QED BY <2>2, <3>2, <3>3
  <2> QED BY <2>1, <2>3, <2>4 DEF CallLast
<1> QED BY <1>8, <1>9

\* A middleware is called.
LEMMA InMiddleware ==
    ASSUME RequestInv, UserMiddleware \/ StandardMiddleware \/ CorsMiddleware
    PROVE  RequestInv'
<1>1. CASE UserMiddleware
  <2>1. stage = "handle" /\ part.kind = "user" /\ UNCHANGED request
    BY <1>1 DEF UserMiddleware, request
  <2>2. \E read \in BOOLEAN, set \in {"no", "fits", "other"}, on \in {"next", "default", "none"} :
           /\ Ran(read, set, on)
           /\ \/ on = "next" /\ PassOn(func)
              \/ on = "default" /\ PassOn(Default)
              \/ on = "none" /\ stage' = "back" /\ by' = "middleware"
    <3>1. PICK read \in BOOLEAN, set \in {"no", "fits", "other"}, on \in {"next", "default", "none"} :
             /\ TakesData(read, set)
             /\ Ran(read, set, on)
             /\ \/ on = "next" /\ PassOn(func)
                \/ on = "default" /\ PassOn(Default)
                \/ on = "none" /\ \E r \in {Own(TRUE, 200, h) : h \in HandlerHeaders}
                                             \cup {Own(FALSE, 500, NoHeaders)} : AnswerWith("middleware", r)
      BY <1>1, Zenon DEF UserMiddleware
    <3>2. (\E r \in {Own(TRUE, 200, h) : h \in HandlerHeaders} \cup {Own(FALSE, 500, NoHeaders)} :
              AnswerWith("middleware", r))
          => stage' = "back" /\ by' = "middleware"
      BY Zenon DEF AnswerWith
    <3> QED BY <3>1, <3>2, Zenon
  <2>3. PICK read \in BOOLEAN, set \in {"no", "fits", "other"}, on \in {"next", "default", "none"} :
           /\ Ran(read, set, on)
           /\ \/ on = "next" /\ PassOn(func)
              \/ on = "default" /\ PassOn(Default)
              \/ on = "none" /\ stage' = "back" /\ by' = "middleware"
    BY <2>2
  <2>4. CASE on = "next" /\ PassOn(func)
    BY <2>1, <2>3, <2>4, Passes
  <2>5. CASE on = "default" /\ PassOn(Default)
    BY <2>1, <2>3, <2>5, Passes
  <2>6. CASE on = "none" /\ stage' = "back" /\ by' = "middleware"
    BY <2>1, <2>3, <2>6, Responds
  <2> QED BY <2>3, <2>4, <2>5, <2>6
<1>2. CASE StandardMiddleware
  <2>1. stage = "handle" /\ part.kind = "standard" /\ UNCHANGED request
        /\ Ran(FALSE, "no", "default") /\ PassOn(Default)
    BY <1>2 DEF StandardMiddleware, request
  <2> QED BY <2>1, Passes
<1>3. CASE CorsMiddleware
  <2>1. stage = "handle" /\ part.kind = "cors" /\ UNCHANGED request
    BY <1>3 DEF CorsMiddleware, request
  <2>2. CASE Admits(part, asked)
    <3>1. Ran(FALSE, "no", "next") /\ PassOn(func)
      BY <1>3, <2>2 DEF CorsMiddleware
    <3> QED BY <2>1, <2>2, <3>1, Passes
  <2>3. CASE ~Admits(part, asked)
    <3>1. Ran(FALSE, "no", "none") /\ stage' = "back" /\ by' = "cors"
      BY <1>3, <2>3 DEF CorsMiddleware, AnswerWith
    <3> QED BY <2>1, <3>1, Responds
  <2> QED BY <2>2, <2>3
<1> QED BY <1>1, <1>2, <1>3

\* Somebody answers, or the answer is on its way back.
LEMMA OnTheWayBack ==
    ASSUME RequestInv, CallDefault \/ CallHandler \/ SetHeaders \/ Finish
    PROVE  RequestInv'
<1>1. UNCHANGED request /\ ran' = ran
  BY DEF CallDefault, CallHandler, SetHeaders, Finish, request
<1>2. stage' \in {"back", "done"}
  BY DEF CallDefault, CallHandler, SetHeaders, Finish, AnswerWith
<1>3. whole' = whole /\ asked' = asked /\ Size' = Size /\ TooLarge' = TooLarge
  BY <1>1, SameRequest
<1>4. RanInv /\ RanInv'
  BY <1>1, <1>2, <1>3 DEF RequestInv, RanInv
<1>5. AdmittedSoFar => AdmittedSoFar'
  BY <1>1, <1>3 DEF AdmittedSoFar, Leaves, Elements, Admits, OriginFits
<1>6. DefaultEnds => DefaultEnds'
  BY <1>1, <1>3, SameRequest DEF DefaultEnds, Defaulted, EndsChain
<1>7. Handler # Default /\ \A n : GoesOn(whole, func, n) => func # Default
  BY <1>4, Functions0, Functions1, Functions2 DEF GoesOn
<1>8. BackInv'
  <2>1. CASE CallDefault
    <3>1. stage = "call" /\ func = Default /\ by' = "nobody"
      BY <2>1 DEF CallDefault, AnswerWith
    <3>2. DefaultEnds
      BY <1>7, <3>1 DEF RequestInv, CallInv
    <3> QED BY <1>6, <3>1, <3>2 DEF BackInv
  <2>2. CASE CallHandler
    <3>1. stage = "call" /\ func = Handler /\ by' \in {"size", "body", "handler"}
          /\ (by' = "handler" => ~TooLarge)
      BY <2>2 DEF CallHandler
    <3>2. GoesOn(whole, func, Len(ran)) /\ AdmittedSoFar
      BY <1>7, <3>1 DEF RequestInv, CallInv
    <3>3. Len(ran) = Size
      <4>1. \A i, j : ~InRoute(whole, func, i) /\ ~InInner(whole, func, i, j)
        BY <1>4, <3>1, Functions1, Functions2
      <4> QED BY <3>2, <4>1 DEF GoesOn, Size
    <3> QED BY <1>1, <1>3, <1>5, <3>1, <3>2, <3>3 DEF BackInv
  <2>3. CASE SetHeaders \/ Finish
    <3>1. by' = by /\ stage = "back"
      BY <2>3 DEF SetHeaders, Finish
    <3> QED BY <1>1, <1>3, <1>5, <1>6, <3>1 DEF RequestInv, BackInv
  <2> QED BY <2>1, <2>2, <2>3
<1> QED BY <1>2, <1>4, <1>8 DEF RequestInv, HandleInv, CallInv, IdleInv

LEMMA MiddlewareStep ==
    ASSUME RequestInv, MiddlewareNext
    PROVE  RequestInv'
BY InChain, InMiddleware, OnTheWayBack DEF MiddlewareNext

\* A request comes to a route of the table.
LEMMA EnterStep ==
    ASSUME RequestInv, NEW m \in NumberedMiddlewares, NEW q, Enter(m, q)
    PROVE  RequestInv'
<1>1. /\ stage = "idle" /\ stage' = "handle" /\ whole' = m /\ part' = m
      /\ func' = func /\ ran' = ran /\ by' = by
  BY DEF Enter, answered
<1>2. by = "nobody" /\ ran = <<>> /\ func = Handler
  BY <1>1 DEF RequestInv, IdleInv
<1>3. Len(ran') = 0 /\ ran' = <<>> /\ ran' \in Seq(RunType)
  BY <1>1, <1>2
<1>4. Size' \in Nat /\ \A l \in Leaves(m) : l.number \in 1..SizeOf(m)
  BY <1>1, LeafNumbers DEF Size
<1>5. RanInv'
  BY <1>1, <1>3, <1>4 DEF RanInv
<1>6. AdmittedSoFar'
  <2>1. \A l \in Leaves(m) : ~(l.number <= 0)
    BY <1>1, <1>4 DEF Size
  <2> QED BY <1>1, <1>3, <2>1 DEF AdmittedSoFar, Leaves, Elements
<1> QED BY <1>1, <1>2, <1>3, <1>5, <1>6 DEF RequestInv, HandleInv, CallInv, BackInv, IdleInv

\* The state of no request.
LEMMA NoRequest ==
    /\ MiddlewareInit => RequestInv
    /\ Leave => RequestInv'
<1>1. Standard \in NumberedMiddlewares /\ SizeOf(Standard) = 1
  BY StandardNumbered DEF SizeOf, Standard, Leaf
<1>2. Len(<<>>) = 0 /\ <<>> \in Seq(RunType)
  OBVIOUS
<1>3. MiddlewareInit => RequestInv
  <2> SUFFICES ASSUME MiddlewareInit PROVE RequestInv
    OBVIOUS
  <2>1. whole = Standard /\ ran = <<>> /\ stage = "idle" /\ by = "nobody" /\ func = Handler
    BY DEF MiddlewareInit, Standard
  <2> QED BY <1>1, <1>2, <2>1 DEF RequestInv, RanInv, HandleInv, CallInv, BackInv, IdleInv, Size
<1>4. Leave => RequestInv'
  <2> SUFFICES ASSUME Leave PROVE RequestInv'
    OBVIOUS
  <2>1. whole' = Standard /\ ran' = <<>> /\ stage' = "idle" /\ by' = "nobody" /\ func' = Handler
    BY DEF Leave, Standard
  <2> QED BY <1>1, <1>2, <2>1 DEF RequestInv, RanInv, HandleInv, CallInv, BackInv, IdleInv, Size
<1> QED BY <1>3, <1>4

\* A step that leaves the request alone.
LEMMA Untouched ==
    ASSUME RequestInv, UNCHANGED mvars
    PROVE  RequestInv'
<1>1. UNCHANGED request /\ UNCHANGED <<stage, part, func, given, ran, by>>
  BY DEF mvars, request
<1>2. whole' = whole /\ asked' = asked /\ Size' = Size /\ TooLarge' = TooLarge
      /\ \A l : EndsChain(l)' <=> EndsChain(l)
  BY <1>1, SameRequest
<1>3. /\ AdmittedSoFar' <=> AdmittedSoFar
      /\ DefaultEnds' <=> DefaultEnds
      /\ Defaulted' <=> Defaulted
  BY <1>1, <1>2 DEF AdmittedSoFar, Leaves, Elements, Admits, OriginFits, DefaultEnds, Defaulted, EndsChain
<1>4. RanInv' /\ BackInv' /\ IdleInv'
  BY <1>1, <1>2, <1>3 DEF RequestInv, RanInv, BackInv, IdleInv
<1>5. HandleInv'
  BY <1>1, <1>2, <1>3 DEF RequestInv, HandleInv
<1>6. CallInv'
  BY <1>1, <1>2, <1>3 DEF RequestInv, CallInv
<1> QED BY <1>4, <1>5, <1>6 DEF RequestInv

LEMMA RequestStep ==
    ASSUME TypeOK, UsesIn(NumberedMiddlewares), RequestInv, [ServerNext]_svars
    PROVE  RequestInv'
<1>1. CASE UNCHANGED mvars
  BY <1>1, Untouched
<1>2. CASE CallRoute
  <2>1. uses[answer.route] \in NumberedMiddlewares
    <3>1. answer.route \in 1..Len(uses) /\ uses \in Seq(NumberedMiddlewares)
      BY <1>2 DEF CallRoute, UsesIn, TypeOK, Answers
    <3> QED BY <3>1
  <2>2. PICK q : Enter(uses[answer.route], q)
    BY <1>2 DEF CallRoute
  <2> QED BY <2>1, <2>2, EnterStep
<1>3. CASE Answer
  BY <1>3, MiddlewareStep DEF Answer
<1>4. CASE Leave
  BY <1>4, NoRequest
<1> QED BY <1>1, <1>2, <1>3, <1>4 DEF ServerNext, Register, RegisterFiles, Search, SendResponse, svars

\* RequestInv says where a request is in its route, HandlerLast what became of it.
LEMMA RequestMeansLast ==
    ASSUME RequestInv
    PROVE  HandlerLast
<1>1. RanInv /\ whole \in NumberedMiddlewares /\ Size \in Nat /\ Len(ran) \in Nat
  BY Sizes DEF RequestInv
<1>2. \A k \in DOMAIN ran : ran[k].number = k
  BY <1>1 DEF RanInv
<1>3. /\ {l.number : l \in Leaves(whole)} = 1..Size
      /\ \A l \in Leaves(whole) : l.number \in 1..Size
  BY <1>1, LeafNumbers DEF Size
<1>4. by \in {"handler", "size", "body"} => stage \in {"back", "done"}
  BY DEF RequestInv, RanInv, HandleInv, CallInv, IdleInv
<1>5. ASSUME by \in {"handler", "size", "body"}
      PROVE  /\ {l.number : l \in Leaves(whole)} = 1..Len(ran)
             /\ \A l \in Leaves(whole) : l.kind = "cors" => Admits(l, asked)
  <2>1. Len(ran) = Size /\ AdmittedSoFar
    BY <1>4, <1>5 DEF RequestInv, BackInv
  <2> QED BY <1>1, <1>3, <2>1 DEF AdmittedSoFar
<1>6. by = "handler" => ~TooLarge
  BY <1>4 DEF RequestInv, BackInv
<1>7. ASSUME by = "nobody" /\ stage \in {"back", "done"}
      PROVE  /\ ran # <<>> /\ ran[Len(ran)].on = "default"
             /\ \E l \in Leaves(whole) : l.number = Len(ran) /\ EndsChain(l)
  <2>1. DefaultEnds
    BY <1>7 DEF RequestInv, BackInv
  <2> QED BY <2>1 DEF DefaultEnds, Defaulted
<1> QED BY <1>2, <1>5, <1>6, <1>7 DEF HandlerLast

LEMMA NumberedUses ==
    ASSUME NumberedRoutes
    PROVE  /\ ServerInit => UsesIn(NumberedMiddlewares) /\ RequestInv
           /\ TypeOK /\ UsesIn(NumberedMiddlewares) /\ RequestInv /\ [ServerNext]_svars
                => UsesIn(NumberedMiddlewares)' /\ RequestInv'
<1>1. ServerInit => UsesIn(NumberedMiddlewares) /\ RequestInv
  <2>1. ASSUME ServerInit PROVE UsesIn(NumberedMiddlewares)
    BY <2>1 DEF ServerInit, Init, UsesIn
  <2> QED BY <2>1, NoRequest DEF ServerInit
<1>2. TypeOK /\ UsesIn(NumberedMiddlewares) /\ RequestInv /\ [ServerNext]_svars
        => UsesIn(NumberedMiddlewares)' /\ RequestInv'
  BY UsesStep, RequestStep, StandardNumbered DEF NumberedRoutes
<1> QED BY <1>1, <1>2

\* However long the chains of a route and the chains in them are, and whatever
\* wrapper each middleware passes on, they are called in their order and the
\* handler after all of them.
THEOREM HandlerComesLast ==
    ASSUME NumberedRoutes
    PROVE  ServerSpec => []HandlerLast
<1>1. ServerInit => UsesIn(NumberedMiddlewares) /\ RequestInv
  BY NumberedUses
<1>2. TypeOK /\ UsesIn(NumberedMiddlewares) /\ RequestInv /\ [ServerNext]_svars
        => UsesIn(NumberedMiddlewares)' /\ RequestInv'
  BY NumberedUses
<1>3. ServerSpec => []TypeOK
  BY ImplementsRouting, Typing, PTL
<1>4. RequestInv => HandlerLast
  BY RequestMeansLast
<1> QED BY <1>1, <1>2, <1>3, <1>4, PTL DEF ServerSpec

-----------------------------------------------------------------------------
(* The data of a request *)

EntryType == [number : {m.number : m \in Middlewares}, read : BOOLEAN,
              set : {"no", "fits", "other"}, on : {"next", "default", "none"}]

\* What is called is a middleware, at whatever depth of the chains.
CalledInv ==
    /\ stage \in {"idle", "handle", "call", "back", "done"}
    /\ part \in Middlewares
    /\ func \in Functions /\ given \in Functions
    /\ ran \in Seq(EntryType)

\* The body is there until a middleware reads it, and the data are of the last
\* middleware that set them.
DataInv ==
    /\ body = IF \E k \in DOMAIN ran : ran[k].read THEN "none" ELSE asked.body
    /\ \/ /\ \A k \in DOMAIN ran : ran[k].set = "no"
          /\ data = [by |-> Nobody, fits |-> FALSE]
       \/ \E k \in DOMAIN ran :
             /\ ran[k].set # "no"
             /\ \A j \in DOMAIN ran : ran[j].set # "no" => j <= k
             /\ data = [by |-> ran[k].number, fits |-> ran[k].set = "fits"]

\* The handler gets what was there when it was called.
GotInv ==
    /\ by = "handler" => stage \in {"back", "done"} /\ got = HandlerData
    /\ stage = "idle" => ran = <<>>

FlowInv == CalledInv /\ DataInv /\ GotInv

LEMMA FunctionTypes ==
    /\ Handler \in Functions /\ Default \in Functions
    /\ \A chain \in Seq(Middlewares), at \in Nat, f \in Functions :
          <<[chain |-> chain, at |-> at]>> \o f \in Functions
BY DEF Functions, Handler, Default

\* What is called stays a middleware.
LEMMA CalledStep ==
    ASSUME CalledInv, MiddlewareNext
    PROVE  CalledInv'
<1> USE DEF request, answered
<1>0. /\ \A m \in Middlewares : m.chain \in Seq(Middlewares) /\ Len(m.chain) \in Nat
      /\ Handler \in Functions /\ Default \in Functions
      /\ \A chain \in Seq(Middlewares), at \in Nat, f \in Functions :
            <<[chain |-> chain, at |-> at]>> \o f \in Functions
  BY MiddlewaresAssumption, FunctionTypes
<1>1. ASSUME NEW self \in Functions, NEW chain \in Seq(Middlewares), NEW at \in Nat \ {0},
             NEW end \in Functions, CallLast(self, chain, at, end), ran' = ran
      PROVE  CalledInv'
  <2>1. CASE at <= Len(chain) /\ stage' = "handle" /\ part' = chain[at]
             /\ func' = <<[chain |-> chain, at |-> at]>> \o end /\ given' = given
    <3>1. part' \in Middlewares
      BY <2>1
    <3>2. func' \in Functions
      BY <1>0, <2>1
    <3> QED BY <1>1, <2>1, <3>1, <3>2 DEF CalledInv
  <2>2. CASE stage' = "call" /\ func' = self /\ given' = end /\ part' = part
    BY <1>1, <2>2 DEF CalledInv
  <2> QED BY <1>1, <2>1, <2>2 DEF CallLast
<1>2. ASSUME NEW read \in BOOLEAN, NEW set \in {"no", "fits", "other"},
             NEW on \in {"next", "default", "none"}, Ran(read, set, on),
             part' = part, func' = func, given' \in Functions, stage' \in {"call", "back"}
      PROVE  CalledInv'
  <2> DEFINE entry == [number |-> part.number, read |-> read, set |-> set, on |-> on]
  <2>1. entry \in EntryType
    BY DEF EntryType, CalledInv
  <2>2. ran' = Append(ran, entry)
    BY <1>2 DEF Ran
  <2> HIDE DEF entry
  <2>3. ran' \in Seq(EntryType)
    BY <2>1, <2>2 DEF CalledInv
  <2> QED BY <1>2, <2>3 DEF CalledInv
<1>3. CASE HandleChain
  BY <1>0, <1>1, <1>3 DEF HandleChain, CalledInv
<1>4. CASE CallNext
  <2>1. func # <<>> /\ CallLast(given, func[1].chain, func[1].at + 1, Tail(func)) /\ ran' = ran
    BY <1>4 DEF CallNext, Handler
  <2>2. /\ func[1].chain \in Seq(Middlewares) /\ func[1].at + 1 \in Nat \ {0}
        /\ Tail(func) \in Functions /\ given \in Functions
    <3> DEFINE P == [chain : Seq(Middlewares), at : Nat]
    <3>1. func \in Seq(P) /\ given \in Functions
      BY DEF CalledInv, Functions
    <3> HIDE DEF P
    <3>2. func[1] \in P /\ Tail(func) \in Seq(P)
      BY <2>1, <3>1
    <3>3. Functions = Seq(P)
      BY DEF P, Functions
    <3> QED BY <3>1, <3>2, <3>3 DEF P
  <2> QED BY <1>1, <2>1, <2>2
<1>5. CASE UserMiddleware
  <2>1. PICK read \in BOOLEAN, set \in {"no", "fits", "other"}, on \in {"next", "default", "none"} :
          /\ TakesData(read, set)
          /\ Ran(read, set, on)
          /\ \/ on = "next" /\ PassOn(func)
             \/ on = "default" /\ PassOn(Default)
             \/ on = "none" /\ \E r \in {Own(TRUE, 200, h) : h \in HandlerHeaders}
                                          \cup {Own(FALSE, 500, NoHeaders)} : AnswerWith("middleware", r)
    BY <1>5, Zenon DEF UserMiddleware
  <2>2. PassOn(func) \/ PassOn(Default) \/ \E r \in {Own(TRUE, 200, h) : h \in HandlerHeaders}
                                          \cup {Own(FALSE, 500, NoHeaders)} : AnswerWith("middleware", r)
    BY <2>1, Zenon
  <2>3. part' = part /\ func' = func /\ stage' \in {"call", "back"} /\ given' \in {given, func, Default}
    BY <2>2, Zenon DEF PassOn, AnswerWith
  <2>4. given' \in Functions
    BY <1>0, <2>3 DEF CalledInv
  <2> QED BY <1>2, <2>1, <2>3, <2>4
<1>6. CASE StandardMiddleware
  <2>1. part' = part /\ func' = func /\ stage' = "call" /\ given' = Default /\ Ran(FALSE, "no", "default")
    BY <1>6 DEF StandardMiddleware, PassOn
  <2> QED BY <1>0, <1>2, <2>1
<1>7. CASE CorsMiddleware
  <2>1. /\ part' = part /\ func' = func /\ stage' \in {"call", "back"} /\ given' \in {given, func}
        /\ Ran(FALSE, "no", "next") \/ Ran(FALSE, "no", "none")
    BY <1>7 DEF CorsMiddleware, PassOn, AnswerWith
  <2>2. given' \in Functions
    BY <2>1 DEF CalledInv
  <2> QED BY <1>2, <2>1, <2>2
<1>8. CASE CallDefault \/ CallHandler \/ SetHeaders \/ Finish
  <2>1. stage' \in {"back", "done"} /\ UNCHANGED <<part, func, given, ran>>
    BY <1>8 DEF CallDefault, CallHandler, SetHeaders, Finish, AnswerWith
  <2> QED BY <2>1 DEF CalledInv
<1> QED BY <1>3, <1>4, <1>5, <1>6, <1>7, <1>8 DEF MiddlewareNext

\* A middleware takes the data and sets others.
LEMMA DataTaken ==
    ASSUME CalledInv, DataInv, NEW read \in BOOLEAN, NEW set \in {"no", "fits", "other"},
           NEW on \in {"next", "default", "none"}, Ran(read, set, on), asked' = asked,
           body' = IF read THEN "none" ELSE body,
           data' = IF set = "no" THEN data ELSE [by |-> part.number, fits |-> set = "fits"]
    PROVE  DataInv'
<1> DEFINE entry == [number |-> part.number, read |-> read, set |-> set, on |-> on]
<1>1. /\ ran \in Seq(EntryType) /\ Len(ran) \in Nat /\ entry \in EntryType
      /\ ran' = Append(ran, entry)
  BY DEF CalledInv, EntryType, Ran
<1>2. entry.read = read /\ entry.set = set /\ entry.number = part.number
  OBVIOUS
<1> HIDE DEF entry
<1>3. /\ DOMAIN ran = 1..Len(ran) /\ DOMAIN ran' = 1..(Len(ran) + 1)
      /\ ran'[Len(ran) + 1] = entry
      /\ \A k \in 1..Len(ran) : ran'[k] = ran[k]
  BY <1>1
<1>4. (\E k \in DOMAIN ran' : ran'[k].read) <=> (read \/ \E k \in DOMAIN ran : ran[k].read)
  BY <1>1, <1>2, <1>3
<1>5. body' = IF \E k \in DOMAIN ran' : ran'[k].read THEN "none" ELSE asked'.body
  BY <1>4 DEF DataInv
<1>6. CASE set = "no"
  <2>1. data' = data
    BY <1>6
  <2>2. CASE /\ \A k \in DOMAIN ran : ran[k].set = "no"
             /\ data = [by |-> Nobody, fits |-> FALSE]
    <3>1. \A k \in DOMAIN ran' : ran'[k].set = "no"
      BY <1>1, <1>2, <1>3, <1>6, <2>2
    <3> QED BY <1>5, <2>1, <2>2, <3>1 DEF DataInv, Nobody
  <2>3. ASSUME NEW k \in DOMAIN ran,
               /\ ran[k].set # "no"
               /\ \A j \in DOMAIN ran : ran[j].set # "no" => j <= k
               /\ data = [by |-> ran[k].number, fits |-> ran[k].set = "fits"]
        PROVE  DataInv'
    <3>1. k \in DOMAIN ran' /\ ran'[k] = ran[k]
      BY <1>1, <1>3, <2>3
    <3>2. \A j \in DOMAIN ran' : ran'[j].set # "no" => j <= k
      BY <1>1, <1>2, <1>3, <1>6, <2>3
    <3> QED BY <1>5, <2>1, <2>3, <3>1, <3>2 DEF DataInv
  <2> QED BY <2>2, <2>3 DEF DataInv
<1>7. CASE set # "no"
  <2>1. data' = [by |-> part.number, fits |-> set = "fits"]
    BY <1>7
  <2> DEFINE k == Len(ran) + 1
  <2>2. k \in DOMAIN ran' /\ ran'[k].set = set /\ ran'[k].number = part.number
    BY <1>1, <1>2, <1>3
  <2>3. \A j \in DOMAIN ran' : j <= k
    BY <1>1, <1>3
  <2> HIDE DEF k
  <2> QED BY <1>5, <1>7, <2>1, <2>2, <2>3 DEF DataInv
<1> QED BY <1>6, <1>7

LEMMA FlowStep ==
    ASSUME FlowInv, MiddlewareNext
    PROVE  FlowInv'
<1> USE DEF request, answered
<1>1. CalledInv' /\ CalledInv /\ DataInv /\ GotInv
  BY CalledStep DEF FlowInv
<1>2. CASE UserMiddleware
  <2>1. PICK read \in BOOLEAN, set \in {"no", "fits", "other"}, on \in {"next", "default", "none"} :
          /\ TakesData(read, set)
          /\ Ran(read, set, on)
          /\ \/ on = "next" /\ PassOn(func)
             \/ on = "default" /\ PassOn(Default)
             \/ on = "none" /\ \E r \in {Own(TRUE, 200, h) : h \in HandlerHeaders}
                                          \cup {Own(FALSE, 500, NoHeaders)} : AnswerWith("middleware", r)
    BY <1>2, Zenon DEF UserMiddleware
  <2>2. PassOn(func) \/ PassOn(Default) \/ \E r \in {Own(TRUE, 200, h) : h \in HandlerHeaders}
                                          \cup {Own(FALSE, 500, NoHeaders)} : AnswerWith("middleware", r)
    BY <2>1, Zenon
  <2>3. by' \in {by, "middleware"} /\ stage' # "idle"
    BY <2>2, Zenon DEF PassOn, AnswerWith
  <2>4. stage = "handle" /\ asked' = asked
    BY <1>2 DEF UserMiddleware
  <2>5. DataInv'
    BY <1>1, <2>1, <2>4, DataTaken DEF TakesData
  <2>6. GotInv'
    BY <1>1, <2>3, <2>4 DEF GotInv
  <2> QED BY <1>1, <2>5, <2>6 DEF FlowInv
<1>3. CASE StandardMiddleware \/ CorsMiddleware
  <2>1. /\ stage = "handle" /\ asked' = asked /\ body' = body /\ data' = data
        /\ stage' # "idle" /\ by' \in {by, "cors"}
        /\ \E on \in {"next", "default", "none"} : Ran(FALSE, "no", on)
    BY <1>3 DEF StandardMiddleware, CorsMiddleware, PassOn, AnswerWith
  <2>2. DataInv'
    BY <1>1, <2>1, DataTaken
  <2>3. GotInv'
    BY <1>1, <2>1 DEF GotInv
  <2> QED BY <1>1, <2>2, <2>3 DEF FlowInv
<1>4. CASE HandleChain \/ CallNext
  <2>1. /\ stage \in {"handle", "call"} /\ stage' # "idle"
        /\ UNCHANGED <<asked, body, data, ran, by>>
    BY <1>4 DEF HandleChain, CallNext, CallLast
  <2> QED BY <1>1, <2>1 DEF FlowInv, DataInv, GotInv
<1>5. CASE CallDefault
  <2>1. /\ by' = "nobody" /\ stage' # "idle" /\ UNCHANGED <<asked, body, data, ran>>
    BY <1>5 DEF CallDefault, AnswerWith
  <2> QED BY <1>1, <2>1 DEF FlowInv, DataInv, GotInv
<1>6. CASE CallHandler
  <2>1. /\ by' = "handler" => got' = HandlerData
        /\ stage' = "back" /\ UNCHANGED <<asked, body, data, ran>>
    BY <1>6 DEF CallHandler
  <2>2. HandlerData' = HandlerData
    BY <2>1 DEF HandlerData
  <2> QED BY <1>1, <2>1, <2>2 DEF FlowInv, DataInv, GotInv
<1>7. CASE SetHeaders \/ Finish
  <2>1. stage' \in {"back", "done"} /\ UNCHANGED <<asked, body, data, ran, by, got>>
    BY <1>7 DEF SetHeaders, Finish
  <2>2. HandlerData' = HandlerData
    BY <2>1 DEF HandlerData
  <2> QED BY <1>1, <2>1, <2>2 DEF FlowInv, DataInv, GotInv
<1> QED BY <1>2, <1>3, <1>4, <1>5, <1>6, <1>7 DEF MiddlewareNext

LEMMA FlowServerStep ==
    ASSUME TypeOK, UsesIn(Middlewares), FlowInv, [ServerNext]_svars
    PROVE  FlowInv'
<1>1. CASE UNCHANGED mvars
  BY <1>1 DEF mvars, FlowInv, CalledInv, DataInv, GotInv, HandlerData
<1>2. CASE CallRoute
  <2>1. uses[answer.route] \in Middlewares
    <3>1. answer.route \in 1..Len(uses) /\ uses \in Seq(Middlewares)
      BY <1>2 DEF CallRoute, UsesIn, TypeOK, Answers
    <3> QED BY <3>1
  <2>2. PICK q : Enter(uses[answer.route], q)
    BY <1>2 DEF CallRoute
  <2>3. /\ stage = "idle" /\ stage' = "handle" /\ part' = uses[answer.route]
        /\ asked' = q /\ body' = q.body
        /\ UNCHANGED <<func, given, ran, data, by, got>>
    BY <2>2 DEF Enter, answered
  <2>4. ran = <<>> /\ DOMAIN ran = {} /\ by # "handler"
    BY <2>3 DEF FlowInv, GotInv
  <2>5. CalledInv'
    BY <2>1, <2>3 DEF FlowInv, CalledInv
  <2>6. DataInv'
    BY <2>3, <2>4 DEF FlowInv, DataInv
  <2>7. GotInv'
    BY <2>3, <2>4 DEF GotInv
  <2> QED BY <2>5, <2>6, <2>7 DEF FlowInv
<1>3. CASE Answer
  BY <1>3, FlowStep DEF Answer
<1>4. CASE Leave
  <2>1. CalledInv'
    BY <1>4, FunctionTypes, MiddlewaresAssumption DEF Leave, CalledInv, Standard
  <2>2. DOMAIN ran' = {}
    BY <1>4 DEF Leave
  <2>3. DataInv'
    BY <1>4, <2>2 DEF Leave, DataInv
  <2> QED BY <1>4, <2>1, <2>3 DEF Leave, FlowInv, GotInv
<1> QED BY <1>1, <1>2, <1>3, <1>4 DEF ServerNext, Register, RegisterFiles, Search, SendResponse, svars

LEMMA NoRequestFlows == MiddlewareInit => FlowInv
<1> SUFFICES ASSUME MiddlewareInit PROVE FlowInv
  OBVIOUS
<1>1. DOMAIN ran = {} /\ ran = <<>>
  BY DEF MiddlewareInit
<1> QED BY <1>1, FunctionTypes, MiddlewaresAssumption
        DEF MiddlewareInit, FlowInv, CalledInv, DataInv, GotInv, Standard

LEMMA FlowMeansData ==
    ASSUME FlowInv
    PROVE  DataFlows
<1> SUFFICES ASSUME by = "handler" PROVE DataFlows
  BY DEF DataFlows
<1> DEFINE taken   == \E k \in DOMAIN ran : ran[k].read
           setters == {k \in DOMAIN ran : ran[k].set # "no"}
           last    == CHOOSE k \in setters : \A j \in setters : j <= k
<1>1. got = IF body = "sent" THEN Client ELSE IF data.fits THEN data.by ELSE Nobody
  BY DEF FlowInv, GotInv, HandlerData
<1>2. DOMAIN ran = 1..Len(ran) /\ Len(ran) \in Nat
  BY DEF FlowInv, CalledInv
<1>3. body = IF taken THEN "none" ELSE asked.body
  BY DEF FlowInv, DataInv
<1>4. CASE /\ \A k \in DOMAIN ran : ran[k].set = "no"
           /\ data = [by |-> Nobody, fits |-> FALSE]
  <2>1. setters = {}
    BY <1>4
  <2>2. got = IF asked.body = "sent" /\ ~taken THEN Client ELSE Nobody
    BY <1>1, <1>3, <1>4
  <2> QED BY <2>1, <2>2 DEF DataFlows
<1>5. ASSUME NEW k \in DOMAIN ran,
             /\ ran[k].set # "no"
             /\ \A j \in DOMAIN ran : ran[j].set # "no" => j <= k
             /\ data = [by |-> ran[k].number, fits |-> ran[k].set = "fits"]
      PROVE  DataFlows
  <2>1. k \in setters /\ \A j \in setters : j <= k
    BY <1>5
  <2>2. last \in setters /\ \A j \in setters : j <= last
    BY <2>1
  <2>3. last = k
    BY <1>2, <2>1, <2>2
  <2>4. got = IF asked.body = "sent" /\ ~taken THEN Client
              ELSE IF ran[k].set = "fits" THEN ran[k].number ELSE Nobody
    BY <1>1, <1>3, <1>5
  <2> QED BY <2>1, <2>3, <2>4 DEF DataFlows
<1> QED BY <1>4, <1>5 DEF FlowInv, DataInv

\* The handler gets the body of the client or the data of the last middleware
\* that set some, whatever chains of chains the route has.
THEOREM HandlersData == ServerSpec => []DataFlows
<1>1. ServerInit => UsesIn(Middlewares) /\ FlowInv
  <2>1. ASSUME ServerInit PROVE UsesIn(Middlewares)
    BY <2>1 DEF ServerInit, Init, UsesIn
  <2>2. ASSUME ServerInit PROVE FlowInv
    BY <2>2, NoRequestFlows DEF ServerInit
  <2> QED BY <2>1, <2>2
<1>2. TypeOK /\ UsesIn(Middlewares) /\ FlowInv /\ [ServerNext]_svars => UsesIn(Middlewares)' /\ FlowInv'
  <2>1. Standard \in Middlewares /\ \A r \in Registrations : r.uses \in Middlewares
    BY MiddlewaresAssumption, RegistrationsAssumption
  <2> QED BY <2>1, UsesStep, FlowServerStep
<1>3. ServerSpec => []TypeOK
  BY ImplementsRouting, Typing, PTL
<1>4. FlowInv => DataFlows
  BY FlowMeansData
<1> QED BY <1>1, <1>2, <1>3, <1>4, PTL DEF ServerSpec

-----------------------------------------------------------------------------
(* The values of a list header *)

\* The values j[0], ..., j[n] that Joined goes through.
JoinedUpTo(j, have, more, n) ==
    j = [i \in 0..n |->
            IF i = 0 THEN have
            ELSE IF \E p \in DOMAIN j[i - 1] : j[i - 1][p] = more[i]
                   THEN j[i - 1] ELSE Append(j[i - 1], more[i])]

LEMMA JoinedAt ==
    ASSUME NEW j, NEW have, NEW more, NEW n \in Nat, JoinedUpTo(j, have, more, n)
    PROVE  /\ j[0] = have
           /\ \A i \in 0..n : i > 0 =>
                j[i] = IF \E p \in DOMAIN j[i - 1] : j[i - 1][p] = more[i]
                         THEN j[i - 1] ELSE Append(j[i - 1], more[i])
<1>1. \A i \in 0..n : j[i] = IF i = 0 THEN have
            ELSE IF \E p \in DOMAIN j[i - 1] : j[i - 1][p] = more[i]
                   THEN j[i - 1] ELSE Append(j[i - 1], more[i])
  BY DEF JoinedUpTo
<1>2. 0 \in 0..n
  OBVIOUS
<1>3. j[0] = have
  BY <1>1, <1>2
<1>4. ASSUME NEW i \in 0..n, i > 0
      PROVE  j[i] = IF \E p \in DOMAIN j[i - 1] : j[i - 1][p] = more[i]
                      THEN j[i - 1] ELSE Append(j[i - 1], more[i])
  BY <1>1, <1>4
<1> QED BY <1>3, <1>4

\* Some function is what Joined goes through: one more value at a time.
LEMMA JoinedExists ==
    ASSUME NEW have, NEW more, NEW n \in Nat
    PROVE  \E j : JoinedUpTo(j, have, more, n)
<1> DEFINE Step(l, x) == IF \E p \in DOMAIN l : l[p] = x THEN l ELSE Append(l, x)
<1> DEFINE Upto(j, m) == j = [i \in 0..m |-> IF i = 0 THEN have ELSE Step(j[i - 1], more[i])]
<1> DEFINE S == {m \in Nat : \E j : Upto(j, m)}
<1> HIDE DEF Step
<1>1. 0 \in S
  <2> DEFINE j == [i \in 0..0 |-> have]
  <2>1. [i \in 0..0 |-> IF i = 0 THEN have ELSE Step(j[i - 1], more[i])] = j
    OBVIOUS
  <2>2. Upto(j, 0)
    BY <2>1
  <2> QED BY <2>2
<1>2. \A m \in Nat : m \in S => m + 1 \in S
  <2> SUFFICES ASSUME NEW m \in Nat, m \in S PROVE m + 1 \in S
    OBVIOUS
  <2>1. PICK g : Upto(g, m)
    OBVIOUS
  <2> DEFINE j == [i \in 0..m + 1 |-> IF i = m + 1 THEN Step(g[m], more[m + 1]) ELSE g[i]]
  <2>2. \A i \in 0..m : g[i] = IF i = 0 THEN have ELSE Step(g[i - 1], more[i])
    BY <2>1
  <2> HIDE DEF Upto
  <2>3. \A i \in 0..m : j[i] = g[i]
    OBVIOUS
  <2>4. j[m + 1] = Step(g[m], more[m + 1])
    OBVIOUS
  <2>5. ASSUME NEW i \in 0..m + 1
        PROVE  j[i] = IF i = 0 THEN have ELSE Step(j[i - 1], more[i])
    <3>1. CASE i = m + 1
      <4>1. i # 0 /\ i - 1 = m /\ m \in 0..m
        BY <3>1
      <4>2. j[i - 1] = g[m]
        BY <2>3, <4>1
      <4> HIDE DEF j
      <4> QED BY <2>4, <3>1, <4>1, <4>2
    <3>2. CASE i = 0
      <4> HIDE DEF j
      <4> QED BY <2>2, <2>3, <3>2
    <3>3. CASE i \in 1..m
      <4>1. i \in 0..m /\ i - 1 \in 0..m
        BY <3>3
      <4>2. j[i] = g[i] /\ j[i - 1] = g[i - 1]
        BY <2>3, <4>1
      <4> HIDE DEF j
      <4> QED BY <2>2, <3>3, <4>1, <4>2
    <3> QED BY <3>1, <3>2, <3>3
  <2>6. j = [i \in 0..m + 1 |-> IF i = 0 THEN have ELSE Step(j[i - 1], more[i])]
    <3> DEFINE k == [i \in 0..m + 1 |-> IF i = 0 THEN have ELSE Step(j[i - 1], more[i])]
    <3>1. \A i \in 0..m + 1 : j[i] = k[i]
      BY <2>5
    <3>2. DOMAIN j = 0..m + 1 /\ j = [i \in 0..m + 1 |-> j[i]]
      OBVIOUS
    <3> HIDE DEF j
    <3> QED BY <3>1, <3>2
  <2>7. Upto(j, m + 1)
    BY <2>6 DEF Upto
  <2> HIDE DEF j
  <2> QED BY <2>7
<1> HIDE DEF S
<1>3. n \in S
  BY <1>1, <1>2, NatInd
<1>4. PICK j : Upto(j, n)
  BY <1>3 DEF S
<1>5. JoinedUpTo(j, have, more, n)
  BY <1>4 DEF JoinedUpTo, Step
<1> QED BY <1>5

LEMMA AppendedItems ==
    ASSUME NEW A, NEW l \in Seq(A), NEW x \in A
    PROVE  /\ Append(l, x) \in Seq(A)
           /\ DOMAIN Append(l, x) = DOMAIN l \cup {Len(l) + 1}
           /\ \A i \in DOMAIN l : Append(l, x)[i] = l[i]
           /\ Append(l, x)[Len(l) + 1] = x
OBVIOUS

\* Joined unites the items of both lists and makes no others.
LEMMA JoinedItems ==
    ASSUME NEW have \in Seq(SUBSET Items), NEW more \in Seq(SUBSET Items)
    PROVE  /\ Joined(have, more) \in Seq(SUBSET Items)
           /\ ItemsOf(Joined(have, more)) = ItemsOf(have) \cup ItemsOf(more)
<1> DEFINE n == Len(more)
           j == CHOOSE f : JoinedUpTo(f, have, more, n)
<1>1. Joined(have, more) = j[n]
  BY DEF Joined, JoinedUpTo
<1>2. n \in Nat /\ DOMAIN more = 1..n
  OBVIOUS
<1>3. JoinedUpTo(j, have, more, n)
  BY <1>2, JoinedExists
<1> HIDE DEF j
<1>4. /\ j[0] = have
      /\ \A i \in 0..n : i > 0 =>
            j[i] = IF \E p \in DOMAIN j[i - 1] : j[i - 1][p] = more[i]
                     THEN j[i - 1] ELSE Append(j[i - 1], more[i])
  BY <1>2, <1>3, JoinedAt
<1> DEFINE First(m) == UNION {more[i] : i \in 1..m}
           Good(m)  == j[m] \in Seq(SUBSET Items) /\ ItemsOf(j[m]) = ItemsOf(have) \cup First(m)
           S == {m \in Nat : m \in 0..n => Good(m)}
<1>5. 0 \in S
  <2>1. First(0) = {}
    OBVIOUS
  <2> QED BY <1>4, <2>1
<1> HIDE DEF Good
<1>6. \A m \in Nat : m \in S => m + 1 \in S
  <2> SUFFICES ASSUME NEW m \in Nat, m \in S, m + 1 \in 0..n PROVE Good(m + 1)
    OBVIOUS
  <2> USE DEF Good
  <2>1. m \in 0..n /\ (m + 1) - 1 = m /\ m + 1 > 0 /\ m + 1 \in 1..n
    BY <1>2
  <2>2. j[m] \in Seq(SUBSET Items) /\ ItemsOf(j[m]) = ItemsOf(have) \cup First(m)
    BY <2>1
  <2>3. j[m + 1] = IF \E p \in DOMAIN j[m] : j[m][p] = more[m + 1]
                     THEN j[m] ELSE Append(j[m], more[m + 1])
    BY <1>4, <2>1
  <2>4. First(m + 1) = First(m) \cup more[m + 1]
    <3>1. 1..m + 1 = 1..m \cup {m + 1}
      OBVIOUS
    <3> QED BY <3>1
  <2>5. more[m + 1] \in SUBSET Items
    BY <1>2, <2>1
  <2>6. CASE \E p \in DOMAIN j[m] : j[m][p] = more[m + 1]
    <3>1. more[m + 1] \subseteq ItemsOf(j[m])
      BY <2>6 DEF ItemsOf
    <3>2. j[m + 1] = j[m]
      BY <2>3, <2>6
    <3> HIDE DEF First
    <3> QED BY <2>2, <2>4, <3>1, <3>2
  <2>7. CASE ~ \E p \in DOMAIN j[m] : j[m][p] = more[m + 1]
    <3>1. j[m + 1] = Append(j[m], more[m + 1])
      BY <2>3, <2>7
    <3> DEFINE A == SUBSET Items
    <3>2. j[m] \in Seq(A) /\ more[m + 1] \in A
      BY <2>2, <2>5
    <3> HIDE DEF A, First
    <3>3. /\ j[m + 1] \in Seq(A)
          /\ DOMAIN j[m + 1] = DOMAIN j[m] \cup {Len(j[m]) + 1}
          /\ \A i \in DOMAIN j[m] : j[m + 1][i] = j[m][i]
          /\ j[m + 1][Len(j[m]) + 1] = more[m + 1]
      BY <3>1, <3>2, AppendedItems
    <3>4. ItemsOf(j[m + 1]) = ItemsOf(j[m]) \cup more[m + 1]
      BY <3>3 DEF ItemsOf
    <3>5. j[m + 1] \in Seq(SUBSET Items)
      BY <3>3 DEF A
    <3> QED BY <2>2, <2>4, <3>4, <3>5
  <2> QED BY <2>6, <2>7
<1> HIDE DEF S
<1>7. n \in S
  BY <1>2, <1>5, <1>6, NatInd
<1>8. j[n] \in Seq(SUBSET Items) /\ ItemsOf(j[n]) = ItemsOf(have) \cup First(n)
  BY <1>2, <1>7 DEF S, Good
<1>9. First(n) = ItemsOf(more)
  BY <1>2 DEF ItemsOf
<1> QED BY <1>1, <1>8, <1>9

-----------------------------------------------------------------------------
(* The types of both parts *)

CorsMiddlewares == {m \in Middlewares : m.kind = "cors"}

\* MiddlewareOK, with what CalledInv knows of the calls and the middlewares that
\* wait for the answer as what they are.
AnswerTypes ==
    /\ whole \in Middlewares
    /\ awaiting \in Seq(CorsMiddlewares)
    /\ asked \in RequestType
    /\ body \in {"none", "sent", "broken"}
    /\ data \in [by : Nat, fits : BOOLEAN]
    /\ by \in {"nobody", "middleware", "cors", "size", "body", "handler"}
    /\ got \in Nat \cup {Client}
    /\ res \in ResType /\ response \in ResType

TypesInv == CalledInv /\ AnswerTypes

\* A route that answers has the method of the request.
MethodInv ==
    pc = "answered" /\ answer.route # 0 =>
        /\ answer.route \in 1..Len(routes)
        /\ routes[answer.route].method = req.method

LEMMA NamedHeader ==
    ASSUME NEW h \in HeaderType, NEW k \in HeaderNames
    PROVE  h[k] \in Seq(SUBSET Items)
BY DEF HeaderType

LEMMA OneValue ==
    ASSUME NEW S, NEW e \in S
    PROVE  <<e>> \in Seq(S) /\ <<>> \in Seq(S) /\ Len(<<e>>) = 1 /\ <<e>>[1] = e
           /\ DOMAIN <<e>> = {1} /\ <<e>> # <<>>
OBVIOUS

LEMMA Last ==
    ASSUME NEW S, NEW l \in Seq(S)
    PROVE  /\ LastOf(l) \in Seq(S)
           /\ l = <<>> => LastOf(l) = <<>>
           /\ l # <<>> => l[Len(l)] \in S /\ LastOf(l) = <<l[Len(l)]>> /\ Len(l) \in DOMAIN l
           /\ l # <<>> => l[1] \in S /\ 1 \in DOMAIN l
BY DEF LastOf

LEMMA HeaderTypes ==
    /\ NoHeaders \in HeaderType
    /\ \A m \in CorsMiddlewares : CorsHeaders(m) \in HeaderType
    /\ \A old, new \in HeaderType : Extended(old, new) \in HeaderType
<1> DEFINE V == Seq(SUBSET Items)
<1>1. <<>> \in V /\ \A e \in SUBSET Items : <<e>> \in V
  BY OneValue
<1> HIDE DEF V
<1>0. HeaderType = [HeaderNames -> V]
  BY DEF HeaderType, V
<1>2. NoHeaders \in HeaderType
  BY <1>0, <1>1 DEF NoHeaders
<1>3. ASSUME NEW m \in CorsMiddlewares PROVE CorsHeaders(m) \in HeaderType
  <2>1. m.methods \in SUBSET Items /\ {m.origin} \in SUBSET Items
    BY MiddlewaresAssumption DEF CorsMiddlewares
  <2>2. <<m.methods>> \in V /\ <<{m.origin}>> \in V
    BY <1>1, <2>1
  <2> QED BY <1>0, <1>2, <2>2 DEF CorsHeaders
<1>4. ASSUME NEW old \in HeaderType, NEW new \in HeaderType PROVE Extended(old, new) \in HeaderType
  BY <1>0 DEF Extended
<1> QED BY <1>2, <1>3, <1>4

LEMMA MergedType ==
    ASSUME NEW k, NEW have \in Seq(SUBSET Items), NEW more \in Seq(SUBSET Items)
    PROVE  Merged(k, have, more) \in Seq(SUBSET Items)
<1>1. CASE more = <<>>
  BY <1>1 DEF Merged
<1>2. CASE more # <<>> /\ k \in AccessControl /\ have # <<>>
  <2>1. have[1] \in SUBSET Items /\ more[Len(more)] \in SUBSET Items
    BY <1>2, Last
  <2>2. <<have[1] \cup more[Len(more)]>> \in Seq(SUBSET Items)
    BY <2>1, OneValue
  <2> QED BY <1>2, <2>2 DEF Merged
<1>3. CASE more # <<>> /\ ~(k \in AccessControl /\ have # <<>>)
  <2>1. Joined(have, more) \in Seq(SUBSET Items) /\ LastOf(more) \in Seq(SUBSET Items)
    BY JoinedItems, Last
  <2> QED BY <1>3, <2>1 DEF Merged
<1> QED BY <1>1, <1>2, <1>3

Statuses == {0, 200, 403, 405, 413, 500}

\* What the middlewares, the handler and handle_http make is a Res.
LEMMA ResTypes ==
    /\ NoRes \in ResType
    /\ \A h \in HeaderType : Created(h) \in ResType
    /\ \A r \in ResType, h \in HeaderType : [r EXCEPT !.response = h] \in ResType
    /\ \A r \in ResType : r.response \in HeaderType /\ r.headers \in HeaderType
<1>1. NoHeaders \in HeaderType
  BY HeaderTypes
<1>2. ASSUME NEW h \in HeaderType PROVE Created(h).response \in HeaderType
  <2> DEFINE V == Seq(SUBSET Items)
  <2>1. \A k \in HeaderNames : h[k] \in V /\ LastOf(h[k]) \in V
    BY NamedHeader, Last
  <2> HIDE DEF V
  <2>2. HeaderType = [HeaderNames -> V]
    BY DEF HeaderType, V
  <2> QED BY <2>1, <2>2 DEF Created
<1> DEFINE H == HeaderType
<1>3. ResType = [ok : BOOLEAN, status : Statuses, response : H, headers : H]
  BY DEF ResType, Statuses
<1>4. NoHeaders \in H /\ \A h \in H : Created(h).response \in H
  BY <1>1, <1>2
<1> HIDE DEF H
<1>5. \A h \in H : Created(h) = [ok |-> TRUE, status |-> 200, headers |-> h, response |-> Created(h).response]
  BY DEF Created
<1>6. NoRes \in ResType
  BY <1>3, <1>4 DEF NoRes, Statuses
<1>7. \A h \in H : Created(h) \in ResType
  <2> TAKE h \in H
  <2>1. Created(h).response \in H
    BY <1>4
  <2>2. Created(h) = [ok |-> TRUE, status |-> 200, headers |-> h, response |-> Created(h).response]
    BY <1>5
  <2>3. [ok |-> TRUE, status |-> 200, headers |-> h, response |-> Created(h).response] \in ResType
    BY <1>3, <2>1 DEF Statuses
  <2> QED BY <2>2, <2>3
<1>8. \A r \in ResType, h \in H : [r EXCEPT !.response = h] \in ResType
  BY <1>3
<1>9. \A r \in ResType : r.response \in H /\ r.headers \in H
  BY <1>3
<1> QED BY <1>6, <1>7, <1>8, <1>9 DEF H

\* The Res of a status and headers, an answer or an error.
Owns(status, h) == {Own(TRUE, status, h), Own(FALSE, status, h)}

LEMMA OwnTypes ==
    ASSUME NEW status \in Statuses, NEW h \in HeaderType
    PROVE  \A r \in Owns(status, h) : r \in ResType
<1> DEFINE H == HeaderType
<1>1. ResType = [ok : BOOLEAN, status : Statuses, response : H, headers : H]
  BY DEF ResType, Statuses
<1>2. NoHeaders \in H /\ h \in H
  BY HeaderTypes
<1> HIDE DEF H
<1>3. \A ok \in BOOLEAN : [ok |-> ok, status |-> status, response |-> NoHeaders, headers |-> h] \in ResType
  BY <1>1, <1>2
<1>4. \A r \in Owns(status, h) : \E ok \in BOOLEAN :
         r = [ok |-> ok, status |-> status, response |-> NoHeaders, headers |-> h]
  BY DEF Owns, Own
<1> QED BY <1>3, <1>4

LEMMA OwnIs ==
    ASSUME NEW status, NEW h, NEW r \in Owns(status, h)
    PROVE  r.response = NoHeaders /\ r.headers = h
BY DEF Owns, Own

\* What a middleware of the application may answer.
LEMMA UsersRes ==
    ASSUME NEW r \in {Own(TRUE, 200, h) : h \in HandlerHeaders} \cup {Own(FALSE, 500, NoHeaders)}
    PROVE  r \in Owns(500, NoHeaders) \/ \E h \in HandlerHeaders : r \in Owns(200, h)
BY DEF Owns, Own

\* What comes back where the handler is called.
LEMMA HandlersRes ==
    ASSUME CallHandler
    PROVE  \/ res' \in Owns(413, NoHeaders) \/ res' \in Owns(500, NoHeaders)
           \/ \E h \in HandlerHeaders : res' = Created(h) \/ res' \in Owns(500, h)
BY DEF CallHandler, Owns, Own

\* Who takes data, and what they set.
LEMMA DataType ==
    ASSUME TypesInv, NEW read \in BOOLEAN, NEW set \in {"no", "fits", "other"}, TakesData(read, set)
    PROVE  body' \in {"none", "sent", "broken"} /\ data' \in [by : Nat, fits : BOOLEAN]
<1>1. part.number \in Nat
  BY MiddlewaresAssumption DEF TypesInv, CalledInv
<1>2. body' \in {"none", "sent", "broken"}
  BY DEF TakesData, TypesInv, AnswerTypes
<1>3. CASE set = "no"
  BY <1>2, <1>3 DEF TakesData, TypesInv, AnswerTypes
<1>4. CASE set # "no"
  <2>1. data' = [by |-> part.number, fits |-> set = "fits"]
    BY <1>4 DEF TakesData
  <2>2. (set = "fits") \in BOOLEAN
    OBVIOUS
  <2> QED BY <1>1, <1>2, <2>1, <2>2
<1> QED BY <1>3, <1>4

LEMMA AnswerStep ==
    ASSUME TypesInv, MiddlewareNext
    PROVE  AnswerTypes'
<1> USE DEF request, answered
<1>0. AnswerTypes /\ CalledInv /\ part \in Middlewares
  BY DEF TypesInv, CalledInv
<1>1. CASE HandleChain \/ CallNext
  BY <1>0, <1>1 DEF HandleChain, CallNext, AnswerTypes
<1>2. CASE UserMiddleware
  <2>1. PICK read \in BOOLEAN, set \in {"no", "fits", "other"}, on \in {"next", "default", "none"} :
          /\ TakesData(read, set)
          /\ Ran(read, set, on)
          /\ \/ on = "next" /\ PassOn(func)
             \/ on = "default" /\ PassOn(Default)
             \/ on = "none" /\ \E r \in {Own(TRUE, 200, h) : h \in HandlerHeaders}
                                          \cup {Own(FALSE, 500, NoHeaders)} : AnswerWith("middleware", r)
    BY <1>2, Zenon DEF UserMiddleware
  <2>2. UNCHANGED answered \/ \E r \in {Own(TRUE, 200, h) : h \in HandlerHeaders}
                                          \cup {Own(FALSE, 500, NoHeaders)} : AnswerWith("middleware", r)
    BY <2>1, Zenon DEF PassOn
  <2>3. body' \in {"none", "sent", "broken"} /\ data' \in [by : Nat, fits : BOOLEAN]
    BY <2>1, DataType
  <2>4. UNCHANGED <<whole, asked, awaiting>>
    BY <1>2 DEF UserMiddleware
  <2>5. CASE UNCHANGED answered
    BY <1>0, <2>3, <2>4, <2>5 DEF AnswerTypes
  <2>6. ASSUME NEW r \in {Own(TRUE, 200, h) : h \in HandlerHeaders} \cup {Own(FALSE, 500, NoHeaders)},
               AnswerWith("middleware", r)
        PROVE  AnswerTypes'
    <3>1. r \in ResType
      <4>1. CASE r \in Owns(500, NoHeaders)
        BY <4>1, HeaderTypes, OwnTypes DEF Statuses
      <4>2. ASSUME NEW h \in HandlerHeaders, r \in Owns(200, h) PROVE r \in ResType
        BY <4>2, HeadersAssumption, OwnTypes DEF Statuses
      <4> QED BY <4>1, <4>2, UsersRes
    <3>2. by' = "middleware" /\ res' = r /\ got' = got /\ response' = response
      BY <2>6 DEF AnswerWith
    <3> QED BY <1>0, <2>3, <2>4, <3>1, <3>2 DEF AnswerTypes
  <2> QED BY <2>2, <2>5, <2>6
<1>3. CASE StandardMiddleware
  BY <1>0, <1>3 DEF StandardMiddleware, PassOn, AnswerTypes
<1>4. CASE CorsMiddleware
  <2>1. part \in CorsMiddlewares
    BY <1>0, <1>4 DEF CorsMiddleware, CorsMiddlewares
  <2>2. CASE Admits(part, asked)
    <3>1. awaiting' = Append(awaiting, part) /\ UNCHANGED <<whole, asked, body, data, by, got, res, response>>
      BY <1>4, <2>2 DEF CorsMiddleware, PassOn
    <3>2. awaiting' \in Seq(CorsMiddlewares)
      BY <1>0, <2>1, <3>1 DEF AnswerTypes
    <3> QED BY <1>0, <3>1, <3>2 DEF AnswerTypes
  <2>3. CASE ~Admits(part, asked)
    <3>1. /\ by' = "cors" /\ UNCHANGED <<whole, asked, body, data, awaiting, got, response>>
      BY <1>4, <2>3 DEF CorsMiddleware, AnswerWith
    <3>2. res' \in ResType
      <4>1. res' \in Owns(403, CorsHeaders(part)) \/ res' \in Owns(405, CorsHeaders(part))
        BY <1>4, <2>3 DEF CorsMiddleware, AnswerWith, Owns, Own
      <4>2. CorsHeaders(part) \in HeaderType
        BY <2>1, HeaderTypes
      <4> QED BY <4>1, <4>2, OwnTypes DEF Statuses
    <3> QED BY <1>0, <3>1, <3>2 DEF AnswerTypes
  <2> QED BY <2>2, <2>3
<1>5. CASE CallDefault
  <2>1. by' = "nobody" /\ res' \in Owns(200, NoHeaders)
        /\ UNCHANGED <<whole, asked, body, data, awaiting, got, response>>
    BY <1>5 DEF CallDefault, AnswerWith, Owns
  <2>2. res' \in ResType
    BY <2>1, HeaderTypes, OwnTypes DEF Statuses
  <2> QED BY <1>0, <2>1, <2>2 DEF AnswerTypes
<1>6. CASE CallHandler
  <2>1. UNCHANGED <<whole, asked, body, data, awaiting, response>>
    BY <1>6 DEF CallHandler
  <2>2. by' \in {"size", "body", "handler"} /\ got' \in {got, HandlerData}
    BY <1>6 DEF CallHandler
  <2>3. HandlerData \in Nat \cup {Client}
    BY <1>0 DEF HandlerData, AnswerTypes, Nobody
  <2>4. res' \in ResType
    <3>1. CASE res' \in Owns(413, NoHeaders) \/ res' \in Owns(500, NoHeaders)
      BY <3>1, HeaderTypes, OwnTypes DEF Statuses
    <3>2. ASSUME NEW h \in HandlerHeaders, res' = Created(h) \/ res' \in Owns(500, h)
          PROVE  res' \in ResType
      <4>1. h \in HeaderType
        BY HeadersAssumption
      <4>2. Created(h) \in ResType
        BY <4>1, ResTypes
      <4> QED BY <3>2, <4>1, <4>2, OwnTypes DEF Statuses
    <3> QED BY <1>6, <3>1, <3>2, HandlersRes
  <2> QED BY <1>0, <2>1, <2>2, <2>3, <2>4 DEF AnswerTypes
<1>7. CASE SetHeaders
  <2>1. /\ awaiting # <<>> /\ UNCHANGED <<whole, asked, body, data, by, got, response>>
        /\ awaiting' = SubSeq(awaiting, 1, Len(awaiting) - 1)
        /\ res' = IF res.ok
                    THEN [res EXCEPT !.response = Extended(@, CorsHeaders(awaiting[Len(awaiting)]))]
                    ELSE res
    BY <1>7 DEF SetHeaders
  <2>2. awaiting[Len(awaiting)] \in CorsMiddlewares /\ awaiting' \in Seq(CorsMiddlewares)
    BY <1>0, <2>1 DEF AnswerTypes
  <2>3. CorsHeaders(awaiting[Len(awaiting)]) \in HeaderType
    BY <2>2, HeaderTypes
  <2>4. res' \in ResType
    <3>1. Extended(res.response, CorsHeaders(awaiting[Len(awaiting)])) \in HeaderType
      BY <1>0, <2>3, HeaderTypes, ResTypes DEF AnswerTypes
    <3> QED BY <1>0, <2>1, <3>1, ResTypes DEF AnswerTypes
  <2> QED BY <1>0, <2>1, <2>2, <2>4 DEF AnswerTypes
<1>8. CASE Finish
  <2>1. UNCHANGED <<whole, asked, body, data, by, got, res, awaiting>>
    BY <1>8 DEF Finish
  <2> DEFINE merged == [k \in HeaderNames |-> Merged(k, res.response[k], res.headers[k])]
  <2>2. response' = IF res.ok THEN [res EXCEPT !.response = merged] ELSE Own(TRUE, 500, NoHeaders)
    BY <1>8 DEF Finish
  <2>3. merged \in HeaderType
    <3>1. res.response \in HeaderType /\ res.headers \in HeaderType
      BY <1>0, ResTypes DEF AnswerTypes
    <3>2. \A k \in HeaderNames : Merged(k, res.response[k], res.headers[k]) \in Seq(SUBSET Items)
      BY <3>1, NamedHeader, MergedType
    <3> QED BY <3>2 DEF HeaderType
  <2> HIDE DEF merged
  <2>4. response' \in ResType
    <3>1. CASE res.ok
      BY <1>0, <2>2, <2>3, <3>1, ResTypes DEF AnswerTypes
    <3>2. CASE ~res.ok
      <4>1. response' \in Owns(500, NoHeaders)
        BY <2>2, <3>2 DEF Owns, Own
      <4> QED BY <4>1, HeaderTypes, OwnTypes DEF Statuses
    <3> QED BY <3>1, <3>2
  <2> QED BY <1>0, <2>1, <2>4 DEF AnswerTypes
<1> QED BY <1>1, <1>2, <1>3, <1>4, <1>5, <1>6, <1>7, <1>8 DEF MiddlewareNext

LEMMA MethodStep ==
    ASSUME TypeOK, MethodInv, [Next]_vars
    PROVE  MethodInv'
<1>0. Len(routes) \in Nat /\ next \in 1..(Len(routes) + 1)
  BY DEF TypeOK
<1>1. CASE TryRoute
  <2> SUFFICES ASSUME pc' = "answered"
               PROVE  answer'.route \in 1..Len(routes') /\ routes'[answer'.route].method = req'.method
    BY DEF MethodInv
  <2>1. /\ routes' = routes /\ req' = req /\ pc = "search" /\ next <= Len(routes)
        /\ routes[next].method = req.method
        /\ answer' = [status |-> 200, route |-> next]
    BY <1>1 DEF TryRoute, Replies
  <2> QED BY <1>0, <2>1
<1>2. CASE GiveUp
  BY <1>2 DEF GiveUp, Replies, MethodInv
<1>3. ASSUME NEW q \in Request, Receive(q) PROVE MethodInv'
  BY <1>3 DEF Receive, Replies, MethodInv
<1>4. CASE UNCHANGED vars
  BY <1>4 DEF vars, MethodInv
<1>5. CASE Start \/ Sent
  BY <1>5 DEF Start, Sent, MethodInv
<1>6. CASE ServeStatic \/ ServeStaticFails
  BY <1>6 DEF ServeStatic, ServeStaticFails, MethodInv
<1>7. ASSUME NEW m \in RouteMethods, NEW p \in Paths, Router(m, p) PROVE MethodInv'
  BY <1>7 DEF Router, MethodInv
<1> QED BY <1>1, <1>2, <1>3, <1>4, <1>5, <1>6, <1>7 DEF Next

\* The state of no request has the types of one.
LEMMA NoRequestTypes ==
    /\ MiddlewareInit => AnswerTypes
    /\ Leave => AnswerTypes'
<1>1. Leaf("standard", 1) \in Middlewares
  BY MiddlewaresAssumption DEF Standard
<1>2. [method |-> "GET", origin |-> NoOrigin, wants |-> {}, length |-> Unknown, body |-> "none"] \in RequestType
  BY DEF RequestType
<1>3. NoRes \in ResType
  BY ResTypes
<1>4. [by |-> Nobody, fits |-> FALSE] \in [by : Nat, fits : BOOLEAN] /\ Nobody \in Nat
  BY DEF Nobody
<1>5. <<>> \in Seq(CorsMiddlewares)
  OBVIOUS
<1>6. MiddlewareInit => AnswerTypes
  BY <1>1, <1>2, <1>3, <1>4, <1>5 DEF MiddlewareInit, AnswerTypes
<1>7. Leave => AnswerTypes'
  BY <1>1, <1>2, <1>3, <1>4, <1>5 DEF Leave, AnswerTypes
<1> QED BY <1>6, <1>7

LEMMA TypesServerStep ==
    ASSUME TypeOK, UsesIn(Middlewares), FlowInv, MethodInv, AnswerTypes, [ServerNext]_svars
    PROVE  AnswerTypes'
<1>1. CASE UNCHANGED mvars
  BY <1>1 DEF mvars, AnswerTypes
<1>2. CASE CallRoute
  <2>1. /\ answer.route \in 1..Len(uses) /\ uses \in Seq(Middlewares)
        /\ routes[answer.route].method = req.method /\ routes \in Seq(RouteType)
        /\ Len(uses) = Len(routes)
    BY <1>2 DEF CallRoute, UsesIn, TypeOK, Answers, MethodInv
  <2>2. uses[answer.route] \in Middlewares
    BY <2>1
  <2>3. req.method \in {"GET", "POST", "PUT", "DELETE", "PATCH"}
    <3>1. routes[answer.route] \in RouteType
      BY <2>1
    <3>2. routes[answer.route].method \in RouteMethods
      BY <3>1 DEF RouteType
    <3> QED BY <2>1, <3>2, PathsAssumption DEF HttpMethod
  <2>4. PICK r \in Rest :
          Enter(uses[answer.route],
                [method |-> req.method, origin |-> r.origin, wants |-> r.wants,
                 length |-> r.length, body |-> r.body])
    BY <1>2 DEF CallRoute
  <2> DEFINE q == [method |-> req.method, origin |-> r.origin, wants |-> r.wants,
                   length |-> r.length, body |-> r.body]
  <2>5. q \in RequestType /\ q.body \in {"none", "sent", "broken"}
    BY <2>3 DEF Rest, RequestType
  <2> HIDE DEF q
  <2>6. /\ whole' = uses[answer.route] /\ asked' = q /\ body' = q.body
        /\ UNCHANGED <<awaiting, data, by, got, res, response>>
    BY <2>4 DEF Enter, answered, q
  <2> QED BY <2>2, <2>5, <2>6 DEF AnswerTypes
<1>3. CASE Answer
  BY <1>3, AnswerStep DEF Answer, TypesInv, FlowInv
<1>4. CASE Leave
  BY <1>4, NoRequestTypes
<1> QED BY <1>1, <1>2, <1>3, <1>4 DEF ServerNext, Register, RegisterFiles, Search, SendResponse, svars

LEMMA TypesMeanTypeOK ==
    ASSUME TypeOK, UsesIn(Middlewares), CalledInv, AnswerTypes
    PROVE  ServerTypeOK
<1> DEFINE E == [number : Nat, read : BOOLEAN, set : {"no", "fits", "other"},
                 on : {"next", "default", "none"}]
<1>1. EntryType \subseteq E
  BY MiddlewaresAssumption DEF EntryType
<1> HIDE DEF E
<1>2. ran \in Seq(E)
  BY <1>1 DEF CalledInv
<1>3. awaiting \in Seq(Middlewares)
  BY DEF AnswerTypes, CorsMiddlewares
<1>4. MiddlewareOK
  BY <1>2, <1>3 DEF MiddlewareOK, CalledInv, AnswerTypes, E
<1> QED BY <1>4 DEF ServerTypeOK, UsesIn

LEMMA TypesInit == ServerInit => UsesIn(Middlewares) /\ FlowInv /\ MethodInv /\ AnswerTypes
<1>1. ASSUME ServerInit PROVE UsesIn(Middlewares) /\ MethodInv
  BY <1>1 DEF ServerInit, Init, UsesIn, MethodInv
<1>2. ASSUME ServerInit PROVE FlowInv
  BY <1>2, NoRequestFlows DEF ServerInit
<1> QED BY <1>1, <1>2, NoRequestTypes DEF ServerInit

LEMMA TypesNext ==
    TypeOK /\ UsesIn(Middlewares) /\ FlowInv /\ MethodInv /\ AnswerTypes /\ [ServerNext]_svars
        => UsesIn(Middlewares)' /\ FlowInv' /\ MethodInv' /\ AnswerTypes'
<1>1. Standard \in Middlewares /\ \A r \in Registrations : r.uses \in Middlewares
  BY MiddlewaresAssumption, RegistrationsAssumption
<1>2. [ServerNext]_svars => [Next]_vars
  BY RoutingStep DEF svars
<1> QED BY <1>1, <1>2, UsesStep, FlowServerStep, MethodStep, TypesServerStep

\* Both parts keep their types: a route has a middleware, whatever is called is
\* one, and every header that is made of others is still a list of sets of items.
THEOREM ServerTyping == ServerSpec => []ServerTypeOK
<1>1. ServerSpec => []TypeOK
  BY ImplementsRouting, Typing, PTL
<1>2. TypeOK /\ UsesIn(Middlewares) /\ FlowInv /\ AnswerTypes => ServerTypeOK
  BY TypesMeanTypeOK DEF FlowInv
<1> QED BY TypesInit, TypesNext, <1>1, <1>2, PTL DEF ServerSpec

-----------------------------------------------------------------------------
(* The headers of the answer *)

Outermost(m, S) == m \in S /\ \A o \in S : m.number <= o.number

FromCors(k) == UNION {ItemsOf(CorsHeaders(m)[k]) : m \in Entered}

\* The middlewares that wait were called, the outermost one first.
AwaitInv ==
    /\ stage \in {"handle", "call", "back"} =>
          /\ \A i \in 1..Len(awaiting) : awaiting[i] \in Entered
          /\ awaiting # <<>> => Outermost(awaiting[1], Entered)
    /\ stage \in {"handle", "call"} /\ awaiting = <<>> => Entered = {}
    /\ stage = "idle" => awaiting = <<>>

\* What m sets is in the answer: it set it itself, or it is the one that answers.
Carried(m) ==
    \/ \A k \in HeaderNames : CorsHeaders(m)[k] # <<>> => res.response[k] = CorsHeaders(m)[k]
    \/ res.headers = CorsHeaders(m) /\ res.response = NoHeaders

\* The answer on its way back has no headers that nobody set, and those of the
\* outermost middleware when all that waited have set theirs.
ResInv ==
    stage = "back" /\ res.ok =>
        /\ \A k \in HeaderNames :
              ItemsOf(res.response[k]) \subseteq ItemsOf(res.headers[k]) \cup FromCors(k)
        /\ awaiting = <<>> => \A m \in Entered : Outermost(m, Entered) => Carried(m)

ArriveInv == AwaitInv /\ ResInv /\ HeadersArrive

LEMMA OneItems ==
    ASSUME NEW e
    PROVE  ItemsOf(<<e>>) = e
BY DEF ItemsOf

LEMMA NoItems == ItemsOf(<<>>) = {}
BY DEF ItemsOf

LEMMA OnlyOne == (\A n \in Nat : n >= 1 /\ n <= 1 => n = 1) /\ 0 <= 1 /\ 1 <= 1
OBVIOUS

LEMMA LastItems ==
    ASSUME NEW l \in Seq(SUBSET Items)
    PROVE  /\ ItemsOf(LastOf(l)) \subseteq ItemsOf(l)
           /\ Len(l) <= 1 => LastOf(l) = l
<1>1. CASE l = <<>>
  BY <1>1 DEF LastOf
<1>2. CASE l # <<>>
  <2>1. LastOf(l) = <<l[Len(l)]>> /\ Len(l) \in DOMAIN l
    BY <1>2, Last
  <2>2. ItemsOf(LastOf(l)) = l[Len(l)]
    BY <2>1, OneItems
  <2>3. ItemsOf(LastOf(l)) \subseteq ItemsOf(l)
    BY <2>1, <2>2 DEF ItemsOf
  <2>4. ASSUME Len(l) <= 1 PROVE LastOf(l) = l
    <3>1. Len(l) = 1 /\ l[1] \in SUBSET Items
      <4>1. Len(l) \in Nat /\ Len(l) >= 1
        BY <2>1
      <4>2. l[1] \in SUBSET Items
        BY <1>2, Last
      <4>3. Len(l) = 1
        BY <2>4, <4>1, OnlyOne
      <4> QED BY <4>2, <4>3
    <3>2. <<l[1]>> \in Seq(SUBSET Items) /\ Len(<<l[1]>>) = 1 /\ <<l[1]>>[1] = l[1]
      BY <3>1, OneValue
    <3>3. \A i \in 1..1 : <<l[1]>>[i] = l[i]
      BY <3>2
    <3>4. <<l[1]>> = l
      BY <3>1, <3>2, <3>3, SeqEqual
    <3> QED BY <2>1, <3>1, <3>4
  <2> QED BY <2>3, <2>4
<1> QED BY <1>1, <1>2

\* Merged keeps what the new values say, of a list all of it, what an
\* access-control name had, and adds nothing of its own.
LEMMA MergedItems ==
    ASSUME NEW k, NEW have \in Seq(SUBSET Items), NEW more \in Seq(SUBSET Items)
    PROVE  /\ ItemsOf(Merged(k, have, more)) \subseteq ItemsOf(have) \cup ItemsOf(more)
           /\ k = "vary" \/ Len(more) <= 1 => ItemsOf(more) \subseteq ItemsOf(Merged(k, have, more))
           /\ k \in AccessControl /\ Len(have) = 1 => ItemsOf(have) \subseteq ItemsOf(Merged(k, have, more))
<1>1. CASE more = <<>>
  BY <1>1, NoItems DEF Merged
<1>2. CASE more # <<>> /\ k \in AccessControl /\ have # <<>>
  <2> DEFINE h == have[1]
             m == more[Len(more)]
  <2>1. ItemsOf(Merged(k, have, more)) = h \cup m
    BY <1>2, OneItems DEF Merged
  <2>2. h \subseteq ItemsOf(have) /\ m \subseteq ItemsOf(more)
    <3>1. 1 \in DOMAIN have /\ Len(more) \in DOMAIN more
      BY <1>2, Last
    <3> QED BY <3>1 DEF ItemsOf
  <2>3. Len(more) <= 1 => ItemsOf(more) = m
    <3> SUFFICES ASSUME Len(more) <= 1 PROVE ItemsOf(more) = m
      OBVIOUS
    <3>1. LastOf(more) = more /\ LastOf(more) = <<m>>
      BY <1>2, LastItems, Last
    <3> QED BY <3>1, OneItems
  <2>4. Len(have) = 1 => ItemsOf(have) = h
    <3> SUFFICES ASSUME Len(have) = 1 PROVE ItemsOf(have) = h
      OBVIOUS
    <3>1. LastOf(have) = have /\ LastOf(have) = <<have[Len(have)]>>
      BY <1>2, LastItems, Last
    <3> QED BY <3>1, OneItems
  <2>5. k # "vary"
    BY <1>2 DEF AccessControl
  <2> HIDE DEF h, m
  <2> QED BY <2>1, <2>2, <2>3, <2>4, <2>5
<1>3. CASE more # <<>> /\ ~(k \in AccessControl /\ have # <<>>) /\ k = "vary"
  <2>1. Merged(k, have, more) = Joined(have, more)
    BY <1>3 DEF Merged
  <2> QED BY <1>3, <2>1, JoinedItems DEF AccessControl
<1>4. CASE more # <<>> /\ ~(k \in AccessControl /\ have # <<>>) /\ k # "vary"
  <2>1. Merged(k, have, more) = LastOf(more)
    BY <1>4 DEF Merged
  <2>2. ItemsOf(LastOf(more)) \subseteq ItemsOf(more) /\ (Len(more) <= 1 => LastOf(more) = more)
    BY LastItems
  <2>3. ~(k \in AccessControl /\ Len(have) = 1)
    BY <1>4
  <2> QED BY <1>4, <2>1, <2>2, <2>3
<1> QED BY <1>1, <1>2, <1>3, <1>4

\* What create_response puts into a response is what the handler gave.
LEMMA CreatedItems ==
    ASSUME NEW h \in HeaderType, NEW k \in HeaderNames
    PROVE  ItemsOf(Created(h).response[k]) \subseteq ItemsOf(Created(h).headers[k])
<1>1. h[k] \in Seq(SUBSET Items)
  BY NamedHeader
<1>2. Created(h).headers = h /\ Created(h).response[k] \in {h[k], LastOf(h[k])}
  BY DEF Created
<1> QED BY <1>1, <1>2, LastItems

LEMMA OneLength == Len(<<>>) = 0 /\ \A e : Len(<<e>>) = 1
OBVIOUS

LEMMA CorsNames ==
    ASSUME NEW m \in CorsMiddlewares
    PROVE  /\ CorsHeaders(m) \in HeaderType
           /\ \A k \in HeaderNames : CorsHeaders(m)[k] # <<>> =>
                                       k \in AccessControl /\ Len(CorsHeaders(m)[k]) = 1
           /\ \A k \in HeaderNames : Len(CorsHeaders(m)[k]) <= 1
<1>1. CorsHeaders(m) \in HeaderType
  BY HeaderTypes
<1> DEFINE h == CorsHeaders(m)
<1>2. /\ h["allowMethods"] = <<m.methods>> /\ h["allowOrigin"] = <<{m.origin}>>
      /\ h["vary"] = <<>> /\ h["custom"] = <<>>
  BY DEF CorsHeaders, NoHeaders, HeaderNames
<1> HIDE DEF h
<1>3. Len(h["allowMethods"]) = 1 /\ Len(h["allowOrigin"]) = 1 /\ Len(<<>>) = 0
  BY <1>2, OneLength
<1>4. ASSUME NEW k \in HeaderNames
      PROVE  (h[k] # <<>> => k \in AccessControl /\ Len(h[k]) = 1) /\ Len(h[k]) <= 1
  <2>1. (h[k] # <<>> => k \in AccessControl /\ Len(h[k]) = 1) /\ Len(h[k]) \in {0, 1}
    BY <1>2, <1>3 DEF HeaderNames, AccessControl
  <2> DEFINE n == Len(h[k])
  <2>2. n \in {0, 1}
    BY <2>1
  <2> HIDE DEF n
  <2>3. n <= 1
    BY <2>2
  <2> QED BY <2>1, <2>3 DEF n
<1> QED BY <1>1, <1>4 DEF h

LEMMA EnteredAre ==
    ASSUME RanInv
    PROVE  /\ \A m \in Entered : m \in Leaves(whole) /\ m.kind = "cors" /\ m.number \in 1..Len(ran)
           /\ \A m, o \in Entered : Outermost(m, Entered) /\ Outermost(o, Entered) => m = o
<1>1. whole \in NumberedMiddlewares /\ Size \in Nat /\ Len(ran) \in Nat
  BY Sizes
<1>2. /\ \A l \in Leaves(whole) : l.number \in 1..Size
      /\ \A l, k \in Leaves(whole) : l.number = k.number => l = k
  BY <1>1, LeafNumbers DEF Size
<1>3. \A m \in Entered : m \in Leaves(whole) /\ m.kind = "cors" /\ m.number \in 1..Len(ran)
  BY <1>1, <1>2 DEF Entered
<1>4. ASSUME NEW m \in Entered, NEW o \in Entered, Outermost(m, Entered), Outermost(o, Entered) PROVE m = o
  <2>1. m.number \in Nat /\ o.number \in Nat /\ m.number <= o.number /\ o.number <= m.number
    BY <1>1, <1>3, <1>4 DEF Outermost
  <2>2. m.number = o.number
    BY <2>1
  <2> QED BY <1>2, <1>3, <2>2
<1> QED BY <1>3, <1>4

\* A middleware that is called is entered if it is a CORS middleware.
LEMMA EnteredStep ==
    ASSUME RequestInv, stage = "handle", part.kind # "chain",
           NEW read, NEW set, NEW on, Ran(read, set, on), UNCHANGED request
    PROVE  /\ Entered' = IF part.kind = "cors" THEN Entered \cup {part} ELSE Entered
           /\ \A m \in Entered : m.number <= part.number
           /\ part.kind = "cors" => part \notin Entered
<1>1. RanInv /\ whole \in NumberedMiddlewares /\ Size \in Nat /\ Len(ran) \in Nat
      /\ part \in Leaves(whole) /\ part.number = Len(ran) + 1
  BY Sizes, Called DEF RequestInv
<1>2. \A l \in Leaves(whole) : l.number \in 1..Size /\ (l.number = part.number => l = part)
  BY <1>1, LeafNumbers DEF Size
<1>3. Len(ran') = Len(ran) + 1 /\ whole' = whole
  BY <1>1, SameRequest DEF Ran, RanInv
<1>4. Leaves(whole') = Leaves(whole)
  BY <1>3
<1>5. Entered' = {l \in Leaves(whole) : l.kind = "cors" /\ l.number <= Len(ran) + 1}
  BY <1>3, <1>4 DEF Entered, Leaves, Elements
<1>6. \A l \in Leaves(whole) : l.number <= Len(ran) + 1 <=> l.number <= Len(ran) \/ l = part
  BY <1>1, <1>2
<1>7. ~(part.number <= Len(ran))
  BY <1>1
<1>8. CASE part.kind = "cors"
  BY <1>1, <1>5, <1>6, <1>7, <1>8 DEF Entered
<1>9. CASE part.kind # "cors"
  BY <1>1, <1>5, <1>6, <1>7, <1>9 DEF Entered
<1>10. \A m \in Entered : m.number <= part.number
  BY <1>1, <1>2 DEF Entered
<1> QED BY <1>8, <1>9, <1>10

\* The headers that a CORS middleware, the handler and others answer with.
LEMMA FromCorsIs ==
    ASSUME NEW m \in Entered, NEW k
    PROVE  ItemsOf(CorsHeaders(m)[k]) \subseteq FromCors(k)
BY DEF FromCors

\* A request in which nobody has answered yet.
Asking == AwaitInv /\ stage \in {"handle", "call"}

\* An answer that has no headers but those of its Res, when no CORS middleware
\* waits that was not called.
LEMMA AnsweredAtTheEnd ==
    ASSUME RanInv, CalledInv, stage' = "back", UNCHANGED request, ran' = ran, awaiting' = awaiting,
           Asking,
           \A k \in HeaderNames : ItemsOf(res'.response[k]) \subseteq ItemsOf(res'.headers[k])
    PROVE  AwaitInv' /\ ResInv' /\ HeadersArrive'
<1>1. Entered' = Entered
  BY SameRequest DEF Entered, Leaves, Elements
<1>2. /\ \A i \in 1..Len(awaiting) : awaiting[i] \in Entered
      /\ awaiting # <<>> => Outermost(awaiting[1], Entered)
      /\ awaiting = <<>> => Entered = {}
  BY DEF Asking, AwaitInv
<1>3. AwaitInv'
  BY <1>1, <1>2 DEF AwaitInv, Outermost
<1>4. ResInv'
  BY <1>1, <1>2 DEF ResInv
<1> QED BY <1>3, <1>4 DEF HeadersArrive

\* The CORS middlewares that were called are middlewares.
LEMMA EnteredIn ==
    ASSUME RanInv
    PROVE  \A m \in Entered : m \in CorsMiddlewares
<1>1. whole \in NumberedMiddlewares /\ whole \in Middlewares
  BY Sizes
<1>2. \A e \in Elements(whole) : e \in Middlewares
  <2>1. whole.chain \in Seq(Middlewares)
    BY <1>1, MiddlewaresAssumption
  <2> QED BY <1>1, <2>1 DEF Elements
<1>3. \A e \in Middlewares : \A l \in Elements(e) : l \in Middlewares
  <2> TAKE e \in Middlewares
  <2>1. e.chain \in Seq(Middlewares)
    BY MiddlewaresAssumption
  <2> QED BY <2>1 DEF Elements
<1>4. \A l \in Leaves(whole) : l \in Middlewares
  BY <1>2, <1>3 DEF Leaves
<1> QED BY <1>4 DEF Entered, CorsMiddlewares

\* A sequence without its last element.
LEMMA Shortened ==
    ASSUME NEW S, NEW l \in Seq(S), l # <<>>
    PROVE  LET less == SubSeq(l, 1, Len(l) - 1) IN
           /\ Len(less) = Len(l) - 1 /\ \A i \in 1..(Len(l) - 1) : less[i] = l[i]
           /\ less = <<>> <=> Len(l) = 1
<1> DEFINE n == Len(l)
           k == n - 1
           less == SubSeq(l, 1, k)
<1>1. n \in Nat /\ n >= 1 /\ \A i \in 1..n : l[i] \in S
  OBVIOUS
<1>2. k \in Nat /\ (k = 0 <=> n = 1) /\ \A i \in 1..k : i \in 1..n
  BY <1>1
<1> HIDE DEF n, k
<1>3. Len(less) = IF 1 <= k THEN k - 1 + 1 ELSE 0
  BY <1>2
<1>4. Len(less) = k
  BY <1>2, <1>3
<1>5. \A i \in 1..k : less[i] = l[i]
  BY <1>2
<1>6. less \in Seq(S)
  BY <1>1, <1>2
<1> HIDE DEF less
<1>7. less = <<>> <=> Len(less) = 0
  BY <1>6
<1>8. less = <<>> <=> n = 1
  BY <1>2, <1>4, <1>7
<1> QED BY <1>4, <1>5, <1>8 DEF n, k, less

LEMMA PlainResponse ==
    ASSUME NEW r, r.response = NoHeaders
    PROVE  \A k \in HeaderNames : ItemsOf(r.response[k]) \subseteq ItemsOf(r.headers[k])
<1>1. \A k \in HeaderNames : r.response[k] = <<>>
  BY DEF NoHeaders
<1> QED BY <1>1, NoItems

\* Nobody answers, but a middleware was called: it is entered or is none of CORS.
LEMMA PassedOn ==
    ASSUME RequestInv, ArriveInv, AnswerTypes, stage = "handle", part.kind # "chain",
           NEW read, NEW set, NEW on, Ran(read, set, on), UNCHANGED request, stage' = "call",
           awaiting' = IF part.kind = "cors" THEN Append(awaiting, part) ELSE awaiting
    PROVE  ArriveInv'
<1>0. /\ awaiting \in Seq(CorsMiddlewares) /\ Len(awaiting) \in Nat
  BY DEF AnswerTypes
<1>1. /\ \A i \in 1..Len(awaiting) : awaiting[i] \in Entered
      /\ awaiting # <<>> => Outermost(awaiting[1], Entered)
      /\ awaiting = <<>> => Entered = {}
  BY DEF ArriveInv, AwaitInv
<1>2. /\ Entered' = IF part.kind = "cors" THEN Entered \cup {part} ELSE Entered
      /\ \A m \in Entered : m.number <= part.number
      /\ part.number \in Nat
  <2>1. part.number \in Nat
    BY Called, Sizes DEF RequestInv
  <2> QED BY <2>1, EnteredStep
<1>3. CASE part.kind # "cors"
  BY <1>1, <1>2, <1>3 DEF ArriveInv, AwaitInv, Outermost, ResInv, HeadersArrive
<1>4. CASE part.kind = "cors"
  <2>1. awaiting' = Append(awaiting, part) /\ Entered' = Entered \cup {part}
    BY <1>2, <1>4
  <2>2. /\ Len(awaiting') = Len(awaiting) + 1 /\ awaiting'[Len(awaiting) + 1] = part
        /\ \A i \in 1..Len(awaiting) : awaiting'[i] = awaiting[i]
        /\ awaiting' # <<>>
    <3>1. Len(Append(awaiting, part)) = Len(awaiting) + 1 /\ Append(awaiting, part)[Len(awaiting) + 1] = part
          /\ \A i \in 1..Len(awaiting) : Append(awaiting, part)[i] = awaiting[i]
      BY <1>0
    <3> QED BY <1>0, <2>1, <3>1
  <2>3. \A i \in 1..Len(awaiting') : awaiting'[i] \in Entered'
    <3> TAKE i \in 1..Len(awaiting')
    <3>1. CASE i \in 1..Len(awaiting)
      BY <1>1, <2>1, <2>2, <3>1
    <3>2. CASE i = Len(awaiting) + 1
      BY <2>1, <2>2, <3>2
    <3> QED BY <1>0, <2>2, <3>1, <3>2
  <2>4. Outermost(awaiting[1], Entered) /\ awaiting # <<>> => Outermost(awaiting'[1], Entered')
    <3> SUFFICES ASSUME Outermost(awaiting[1], Entered), awaiting # <<>>
                 PROVE  awaiting'[1] \in Entered' /\ \A o \in Entered' : awaiting'[1].number <= o.number
      BY DEF Outermost
    <3>1. awaiting'[1] = awaiting[1] /\ awaiting[1] \in Entered
      BY <1>0, <1>1, <2>2
    <3> QED BY <1>2, <2>1, <3>1 DEF Outermost
  <2>5. awaiting = <<>> => Outermost(awaiting'[1], Entered')
    <3> SUFFICES ASSUME awaiting = <<>>
                 PROVE  awaiting'[1] \in Entered' /\ \A o \in Entered' : awaiting'[1].number <= o.number
      BY DEF Outermost
    <3>1. awaiting'[1] = part /\ Entered' = {part}
      BY <1>1, <2>1, <2>2
    <3> QED BY <1>2, <3>1
  <2>6. AwaitInv'
    BY <1>1, <2>2, <2>3, <2>4, <2>5 DEF AwaitInv
  <2> QED BY <2>6 DEF ArriveInv, ResInv, HeadersArrive
<1> QED BY <1>3, <1>4

\* A CORS middleware refuses the request.
LEMMA Refused ==
    ASSUME RequestInv, ArriveInv, AnswerTypes, stage = "handle", part.kind = "cors",
           NEW read, NEW set, NEW on, Ran(read, set, on), UNCHANGED request, stage' = "back",
           awaiting' = awaiting, NEW status, res' = Own(TRUE, status, CorsHeaders(part))
    PROVE  ArriveInv'
<1>0. part.kind # "chain" /\ awaiting \in Seq(CorsMiddlewares) /\ Len(awaiting) \in Nat
  BY DEF AnswerTypes
<1>1. /\ \A i \in 1..Len(awaiting) : awaiting[i] \in Entered
      /\ awaiting # <<>> => Outermost(awaiting[1], Entered)
      /\ awaiting = <<>> => Entered = {}
  BY DEF ArriveInv, AwaitInv
<1>2. /\ Entered' = Entered \cup {part}
      /\ \A m \in Entered : m.number <= part.number
  BY <1>0, EnteredStep
<1>3. res'.response = NoHeaders /\ res'.headers = CorsHeaders(part)
  BY DEF Own
<1>4. AwaitInv'
  <2>1. awaiting # <<>> => awaiting[1] \in Entered
    BY <1>1 DEF Outermost
  <2> QED BY <1>1, <1>2, <2>1 DEF AwaitInv, Outermost
<1>5. ResInv'
  <2>1. \A k \in HeaderNames : ItemsOf(res'.response[k]) \subseteq ItemsOf(res'.headers[k])
    BY <1>3, PlainResponse
  <2>2. ASSUME awaiting' = <<>>, NEW m \in Entered' PROVE Carried(m)'
    <3>1. m = part
      BY <1>1, <1>2, <2>2
    <3> QED BY <1>3, <3>1 DEF Carried
  <2> QED BY <2>1, <2>2 DEF ResInv
<1> QED BY <1>4, <1>5 DEF ArriveInv, HeadersArrive

\* The innermost middleware that waits sets its headers.
LEMMA SetsHeaders ==
    ASSUME RequestInv, ArriveInv, AnswerTypes, SetHeaders
    PROVE  ArriveInv'
<1> DEFINE n == Len(awaiting)
           m == awaiting[n]
<1>0. /\ stage = "back" /\ stage' = "back" /\ awaiting # <<>> /\ UNCHANGED request /\ ran' = ran
      /\ res' = IF res.ok THEN [res EXCEPT !.response = Extended(@, CorsHeaders(m))] ELSE res
      /\ awaiting' = SubSeq(awaiting, 1, n - 1)
  BY DEF SetHeaders, request
<1>1. /\ awaiting \in Seq(CorsMiddlewares) /\ n \in Nat /\ n >= 1 /\ m \in CorsMiddlewares
      /\ res \in ResType
  BY <1>0 DEF AnswerTypes
<1>2. Entered' = Entered /\ RanInv
  BY <1>0, SameRequest DEF Entered, Leaves, Elements, RequestInv
<1>3. /\ \A i \in 1..n : awaiting[i] \in Entered
      /\ Outermost(awaiting[1], Entered)
  BY <1>0 DEF ArriveInv, AwaitInv
<1>4. /\ Len(awaiting') = n - 1 /\ \A i \in 1..(n - 1) : awaiting'[i] = awaiting[i]
      /\ awaiting' = <<>> <=> n = 1
  BY <1>0, <1>1, Shortened
<1>5. m \in Entered
  BY <1>1, <1>3
<1> HIDE DEF n, m
<1>6. AwaitInv'
  <2>1. \A i \in 1..Len(awaiting') : awaiting'[i] \in Entered'
    BY <1>1, <1>2, <1>3, <1>4
  <2>2. awaiting' # <<>> => Outermost(awaiting'[1], Entered')
    <3> SUFFICES ASSUME awaiting' # <<>>
                 PROVE  awaiting'[1] \in Entered' /\ \A o \in Entered' : awaiting'[1].number <= o.number
      BY DEF Outermost
    <3>1. awaiting'[1] = awaiting[1]
      BY <1>1, <1>4
    <3> QED BY <1>2, <1>3, <3>1 DEF Outermost
  <2> QED BY <1>0, <2>1, <2>2 DEF AwaitInv
<1>7. ResInv'
  <2> SUFFICES ASSUME res'.ok
               PROVE  /\ \A k \in HeaderNames :
                            ItemsOf(res'.response[k]) \subseteq ItemsOf(res'.headers[k]) \cup FromCors(k)'
                      /\ awaiting' = <<>> => \A o \in Entered' : Outermost(o, Entered') => Carried(o)'
    BY DEF ResInv
  <2>1. res.ok /\ res' = [res EXCEPT !.response = Extended(res.response, CorsHeaders(m))]
    <3>1. res.ok
      BY <1>0
    <3> QED BY <1>0, <3>1
  <2>2. res'.response = Extended(res.response, CorsHeaders(m)) /\ res'.headers = res.headers
    BY <1>1, <2>1 DEF ResType
  <2>3. \A k \in HeaderNames : FromCors(k)' = FromCors(k)
    BY <1>2 DEF FromCors
  <2>4. ASSUME NEW k \in HeaderNames
        PROVE  ItemsOf(res'.response[k]) \subseteq ItemsOf(res'.headers[k]) \cup FromCors(k)'
    <3>1. ItemsOf(res.response[k]) \subseteq ItemsOf(res.headers[k]) \cup FromCors(k)
      BY <1>0, <2>1 DEF ArriveInv, ResInv
    <3>2. ItemsOf(CorsHeaders(m)[k]) \subseteq FromCors(k)
      BY <1>5, FromCorsIs
    <3>3. res'.response[k] = res.response[k] \/ res'.response[k] = CorsHeaders(m)[k]
      BY <2>2 DEF Extended
    <3> QED BY <2>2, <2>3, <3>1, <3>2, <3>3
  <2>5. ASSUME awaiting' = <<>>, NEW o \in Entered, Outermost(o, Entered) PROVE Carried(o)'
    <3>1. n = 1
      BY <1>4, <2>5
    <3>2. m = awaiting[1] /\ Outermost(m, Entered)
      BY <1>3, <3>1 DEF m, n
    <3>3. o = m
      BY <1>2, <1>5, <2>5, <3>2, EnteredAre
    <3>4. \A k \in HeaderNames : CorsHeaders(m)[k] # <<>> => res'.response[k] = CorsHeaders(m)[k]
      BY <2>2 DEF Extended
    <3> QED BY <3>3, <3>4 DEF Carried
  <2>6. \A o : Outermost(o, Entered') <=> Outermost(o, Entered)
    BY <1>2 DEF Outermost
  <2> QED BY <1>2, <2>4, <2>5, <2>6
<1> QED BY <1>0, <1>6, <1>7 DEF ArriveInv, HeadersArrive

\* handle_http makes the response.
LEMMA Finishes ==
    ASSUME RequestInv, ArriveInv, AnswerTypes, Finish
    PROVE  ArriveInv'
<1>0. /\ stage = "back" /\ stage' = "done" /\ awaiting = <<>> /\ awaiting' = awaiting
      /\ UNCHANGED request /\ ran' = ran /\ res' = res
      /\ response' = IF res.ok
                       THEN [res EXCEPT !.response =
                                [k \in HeaderNames |-> Merged(k, res.response[k], res.headers[k])]]
                       ELSE Own(TRUE, 500, NoHeaders)
  BY DEF Finish, request
<1>1. res \in ResType /\ RanInv
  BY DEF AnswerTypes, RequestInv
<1>2. Entered' = Entered
  BY <1>0, SameRequest DEF Entered, Leaves, Elements
<1>3. HeadersArrive'
  <2> SUFFICES ASSUME res.ok, NEW k \in HeaderNames
               PROVE  /\ \A m \in Entered :
                            (\A o \in Entered : m.number <= o.number)
                                => ItemsOf(CorsHeaders(m)[k]) \subseteq ItemsOf(response'.response[k])
                      /\ k = "vary" \/ Len(res.headers[k]) <= 1
                            => ItemsOf(res.headers[k]) \subseteq ItemsOf(response'.response[k])
                      /\ ItemsOf(response'.response[k])
                            \subseteq ItemsOf(res.headers[k]) \cup FromCors(k)
    BY <1>0, <1>2 DEF HeadersArrive, FromCors
  <2> DEFINE have == res.response[k]
             more == res.headers[k]
             arrived == Merged(k, have, more)
  <2>1. response'.response[k] = arrived
    <3> DEFINE merged == [j \in HeaderNames |-> Merged(j, res.response[j], res.headers[j])]
    <3>1. response' = [res EXCEPT !.response = merged]
      BY <1>0
    <3> HIDE DEF merged
    <3>2. response'.response = merged
      BY <1>1, <3>1 DEF ResType
    <3> QED BY <3>2 DEF merged
  <2>2. have \in Seq(SUBSET Items) /\ more \in Seq(SUBSET Items)
    BY <1>1, ResTypes, NamedHeader
  <2>3. ItemsOf(have) \subseteq ItemsOf(more) \cup FromCors(k)
    BY <1>0 DEF ArriveInv, ResInv
  <2>4. /\ ItemsOf(arrived) \subseteq ItemsOf(have) \cup ItemsOf(more)
        /\ k = "vary" \/ Len(more) <= 1 => ItemsOf(more) \subseteq ItemsOf(arrived)
        /\ k \in AccessControl /\ Len(have) = 1 => ItemsOf(have) \subseteq ItemsOf(arrived)
    BY <2>2, MergedItems
  <2>5. ASSUME NEW m \in Entered, \A o \in Entered : m.number <= o.number
        PROVE  ItemsOf(CorsHeaders(m)[k]) \subseteq ItemsOf(arrived)
    <3>1. Carried(m)
      BY <1>0, <2>5 DEF ArriveInv, ResInv, Outermost
    <3>2. CorsHeaders(m)[k] # <<>> => k \in AccessControl /\ Len(CorsHeaders(m)[k]) = 1
      <4>1. m \in CorsMiddlewares
        BY <1>1, EnteredIn
      <4> QED BY <4>1, CorsNames
    <3>3. CASE CorsHeaders(m)[k] = <<>>
      BY <3>3, NoItems
    <3>4. CASE CorsHeaders(m)[k] # <<>> /\ have = CorsHeaders(m)[k]
      BY <2>4, <3>2, <3>4
    <3>5. CASE CorsHeaders(m)[k] # <<>> /\ more = CorsHeaders(m)[k]
      <4>1. Len(more) = 1
        BY <3>2, <3>5
      <4>2. Len(more) <= 1
        BY <4>1
      <4> QED BY <2>4, <3>5, <4>2
    <3> QED BY <3>1, <3>3, <3>4, <3>5 DEF Carried
  <2> HIDE DEF have, more, arrived
  <2>6. ItemsOf(arrived) \subseteq ItemsOf(more) \cup FromCors(k)
    BY <2>3, <2>4
  <2> QED BY <2>1, <2>4, <2>5, <2>6 DEF more
<1> QED BY <1>0, <1>3 DEF ArriveInv, AwaitInv, ResInv

LEMMA ArriveStep ==
    ASSUME RequestInv, ArriveInv, CalledInv, AnswerTypes, MiddlewareNext
    PROVE  ArriveInv'
<1> USE DEF answered
<1>0. RanInv
  BY DEF RequestInv
<1>1. CASE HandleChain \/ CallNext
  <2>1. /\ stage \in {"handle", "call"} /\ stage' \in {"handle", "call"}
        /\ UNCHANGED request /\ ran' = ran /\ awaiting' = awaiting
    BY <1>1 DEF HandleChain, CallNext, CallLast
  <2>2. Entered' = Entered
    BY <2>1, SameRequest DEF Entered, Leaves, Elements
  <2> QED BY <2>1, <2>2 DEF ArriveInv, AwaitInv, Outermost, ResInv, HeadersArrive
<1>2. CASE UserMiddleware
  <2>1. PICK read \in BOOLEAN, set \in {"no", "fits", "other"}, on \in {"next", "default", "none"} :
          /\ TakesData(read, set)
          /\ Ran(read, set, on)
          /\ \/ on = "next" /\ PassOn(func)
             \/ on = "default" /\ PassOn(Default)
             \/ on = "none" /\ \E r \in {Own(TRUE, 200, h) : h \in HandlerHeaders}
                                          \cup {Own(FALSE, 500, NoHeaders)} : AnswerWith("middleware", r)
    BY <1>2, Zenon DEF UserMiddleware
  <2>2. stage = "handle" /\ part.kind = "user" /\ UNCHANGED request /\ awaiting' = awaiting
    BY <1>2 DEF UserMiddleware
  <2>3. \/ stage' = "call"
        \/ stage' = "back" /\ res'.response = NoHeaders
    <3>1. \/ PassOn(func) \/ PassOn(Default)
          \/ \E r \in {Own(TRUE, 200, h) : h \in HandlerHeaders}
                         \cup {Own(FALSE, 500, NoHeaders)} : AnswerWith("middleware", r)
      BY <2>1, Zenon
    <3>2. ASSUME NEW r \in {Own(TRUE, 200, h) : h \in HandlerHeaders} \cup {Own(FALSE, 500, NoHeaders)},
                 AnswerWith("middleware", r)
          PROVE  stage' = "back" /\ res'.response = NoHeaders
      <4>1. r.response = NoHeaders
        <5>1. CASE r \in Owns(500, NoHeaders)
          BY <5>1, OwnIs
        <5>2. ASSUME NEW h \in HandlerHeaders, r \in Owns(200, h) PROVE r.response = NoHeaders
          BY <5>2, OwnIs
        <5> QED BY <5>1, <5>2, UsersRes
      <4> QED BY <3>2, <4>1 DEF AnswerWith
    <3> QED BY <3>1, <3>2 DEF PassOn
  <2>4. CASE stage' = "call"
    BY <2>1, <2>2, <2>4, PassedOn
  <2>5. CASE stage' = "back" /\ res'.response = NoHeaders
    <3>1. Entered' = Entered
      BY <2>1, <2>2, EnteredStep
    <3>2. \A k \in HeaderNames : ItemsOf(res'.response[k]) \subseteq ItemsOf(res'.headers[k])
      BY <2>5, PlainResponse
    <3>3. AwaitInv' /\ (awaiting = <<>> => Entered' = {})
      BY <2>2, <2>5, <3>1 DEF ArriveInv, AwaitInv, Outermost
    <3> QED BY <2>2, <2>5, <3>2, <3>3 DEF ArriveInv, ResInv, HeadersArrive
  <2> QED BY <2>3, <2>4, <2>5
<1>3. CASE StandardMiddleware
  <2>1. /\ stage = "handle" /\ part.kind = "standard" /\ UNCHANGED request /\ awaiting' = awaiting
        /\ Ran(FALSE, "no", "default") /\ stage' = "call"
    BY <1>3 DEF StandardMiddleware, PassOn
  <2> QED BY <2>1, PassedOn
<1>4. CASE CorsMiddleware
  <2>1. stage = "handle" /\ part.kind = "cors" /\ UNCHANGED request
    BY <1>4 DEF CorsMiddleware
  <2>2. CASE Admits(part, asked)
    <3>1. awaiting' = Append(awaiting, part) /\ Ran(FALSE, "no", "next") /\ stage' = "call"
      BY <1>4, <2>2 DEF CorsMiddleware, PassOn
    <3> QED BY <2>1, <3>1, PassedOn
  <2>3. CASE ~Admits(part, asked)
    <3>1. PICK status : res' = Own(TRUE, status, CorsHeaders(part))
      BY <1>4, <2>3 DEF CorsMiddleware, AnswerWith
    <3>2. awaiting' = awaiting /\ Ran(FALSE, "no", "none") /\ stage' = "back"
      BY <1>4, <2>3 DEF CorsMiddleware, AnswerWith
    <3> QED BY <2>1, <3>1, <3>2, Refused
  <2> QED BY <2>2, <2>3
<1>5. CASE CallDefault
  <2>1. /\ stage = "call" /\ stage' = "back" /\ UNCHANGED request /\ ran' = ran /\ awaiting' = awaiting
        /\ res' \in Owns(200, NoHeaders)
    BY <1>5 DEF CallDefault, AnswerWith, Owns
  <2>2. \A k \in HeaderNames : ItemsOf(res'.response[k]) \subseteq ItemsOf(res'.headers[k])
    <3>1. res'.response = NoHeaders
      BY <2>1, OwnIs
    <3> QED BY <3>1, PlainResponse
  <2> QED BY <1>0, <2>1, <2>2, AnsweredAtTheEnd DEF ArriveInv, Asking
<1>6. CASE CallHandler
  <2>1. /\ stage = "call" /\ stage' = "back" /\ UNCHANGED request /\ ran' = ran /\ awaiting' = awaiting
    BY <1>6 DEF CallHandler
  <2>2. \A k \in HeaderNames : ItemsOf(res'.response[k]) \subseteq ItemsOf(res'.headers[k])
    <3>1. CASE res'.response = NoHeaders
      BY <3>1, PlainResponse
    <3>2. ASSUME NEW h \in HandlerHeaders, res' = Created(h)
          PROVE  \A k \in HeaderNames : ItemsOf(res'.response[k]) \subseteq ItemsOf(res'.headers[k])
      BY <3>2, CreatedItems, HeadersAssumption
    <3>3. res'.response = NoHeaders \/ \E h \in HandlerHeaders : res' = Created(h)
      BY <1>6, HandlersRes, OwnIs
    <3> QED BY <3>1, <3>2, <3>3
  <2> QED BY <1>0, <2>1, <2>2, AnsweredAtTheEnd DEF ArriveInv, Asking
<1>7. CASE SetHeaders \/ Finish
  BY <1>7, SetsHeaders, Finishes
<1> QED BY <1>1, <1>2, <1>3, <1>4, <1>5, <1>6, <1>7 DEF MiddlewareNext

\* A request that no middleware has seen.
LEMMA EnterArrive ==
    ASSUME RequestInv, ArriveInv, NEW m \in NumberedMiddlewares, NEW q, Enter(m, q)
    PROVE  ArriveInv'
<1>1. stage = "idle" /\ stage' = "handle" /\ whole' = m /\ ran' = ran /\ awaiting' = awaiting
  BY DEF Enter
<1>2. ran = <<>> /\ awaiting = <<>> /\ Len(ran') = 0
  BY <1>1 DEF RequestInv, IdleInv, ArriveInv, AwaitInv
<1>3. Entered' = {}
  <2>1. SizeOf(m) \in Nat /\ \A l \in Leaves(m) : l.number \in 1..SizeOf(m)
    BY LeafNumbers
  <2>2. \A l \in Leaves(m) : ~(l.number <= 0)
    BY <2>1
  <2> QED BY <1>1, <1>2, <2>2 DEF Entered, Leaves, Elements
<1>4. \A i \in 1..Len(awaiting') : awaiting'[i] \in Entered'
  BY <1>1, <1>2
<1> QED BY <1>1, <1>2, <1>3, <1>4 DEF ArriveInv, AwaitInv, ResInv, HeadersArrive

\* A step that leaves the request alone.
LEMMA UntouchedArrive ==
    ASSUME ArriveInv, UNCHANGED mvars
    PROVE  ArriveInv'
<1>1. /\ UNCHANGED request
      /\ stage' = stage /\ ran' = ran /\ awaiting' = awaiting /\ res' = res /\ response' = response
  BY DEF mvars, request
<1>2. Entered' = Entered
  BY <1>1, SameRequest DEF Entered, Leaves, Elements
<1>3. AwaitInv'
  BY <1>1, <1>2 DEF ArriveInv, AwaitInv
<1>4. ResInv'
  BY <1>1, <1>2 DEF ArriveInv, ResInv, Carried, FromCors
<1>5. HeadersArrive'
  BY <1>1, <1>2 DEF ArriveInv, HeadersArrive
<1> QED BY <1>3, <1>4, <1>5 DEF ArriveInv

LEMMA ArriveServerStep ==
    ASSUME TypeOK, UsesIn(NumberedMiddlewares), RequestInv, CalledInv, AnswerTypes, ArriveInv,
           [ServerNext]_svars
    PROVE  ArriveInv'
<1>1. CASE UNCHANGED mvars
  BY <1>1, UntouchedArrive
<1>2. CASE CallRoute
  <2>1. uses[answer.route] \in NumberedMiddlewares
    <3>1. answer.route \in 1..Len(uses) /\ uses \in Seq(NumberedMiddlewares)
      BY <1>2 DEF CallRoute, UsesIn, TypeOK, Answers
    <3> QED BY <3>1
  <2>2. PICK q : Enter(uses[answer.route], q)
    BY <1>2 DEF CallRoute
  <2> QED BY <2>1, <2>2, EnterArrive
<1>3. CASE Answer
  BY <1>3, ArriveStep DEF Answer
<1>4. CASE Leave
  BY <1>4 DEF Leave, ArriveInv, AwaitInv, ResInv, HeadersArrive
<1> QED BY <1>1, <1>2, <1>3, <1>4 DEF ServerNext, Register, RegisterFiles, Search, SendResponse, svars

\* However deep the chains of a route are and whoever answers in them, an answer
\* carries the headers of the outermost CORS middleware that was called, and what
\* the handler set, and nothing that nobody set.
THEOREM HeadersCarried ==
    ASSUME NumberedRoutes
    PROVE  ServerSpec => []HeadersArrive
<1> DEFINE Types == UsesIn(Middlewares) /\ FlowInv /\ MethodInv /\ AnswerTypes
           Places == UsesIn(NumberedMiddlewares) /\ RequestInv
<1>1. ServerInit => Types /\ Places /\ ArriveInv
  <2>1. ASSUME ServerInit PROVE ArriveInv
    BY <2>1 DEF ServerInit, MiddlewareInit, ArriveInv, AwaitInv, ResInv, HeadersArrive
  <2> QED BY <2>1, TypesInit, NumberedUses
<1>2. TypeOK /\ Types /\ Places /\ ArriveInv /\ [ServerNext]_svars => Types' /\ Places' /\ ArriveInv'
  <2>1. TypeOK /\ Types /\ Places /\ ArriveInv /\ [ServerNext]_svars => ArriveInv'
    BY ArriveServerStep DEF FlowInv
  <2> QED BY <2>1, TypesNext, NumberedUses
<1>3. ServerSpec => []TypeOK
  BY ImplementsRouting, Typing, PTL
<1>4. ArriveInv => HeadersArrive
  BY DEF ArriveInv
<1> QED BY <1>1, <1>2, <1>3, <1>4, PTL DEF ServerSpec
=============================================================================
