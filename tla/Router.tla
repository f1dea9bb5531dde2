------------------------------- MODULE Router -------------------------------
(***************************************************************************)
(* Routing of packages/http-router and packages/pathmatcher:               *)
(* HttpRouteHandler takes the first router class that has an endpoint for  *)
(* the request and runs its middlewares and that endpoint, one after the   *)
(* other; HttpRouter does the same for one class.                          *)
(*                                                                         *)
(* Characters: "/", letters, and "%" for a malformed escape, on which      *)
(* decodeURIComponent throws.  A token of a pattern is a character or a    *)
(* parameter: of one segment (Single) or of several (Wild).                *)
(***************************************************************************)
EXTENDS Integers, Sequences, SequencesExt

CONSTANTS
    Character,          \* of request paths, with "/" and "%"
    MaxPath,            \* length of a request path (bound)
    Single, Wild,       \* names of parameters
    Route,              \* [role, method, pattern] of the routes
    MaxRoutes           \* routes of a server, all routers together (bound)

ASSUME RouterAssumption ==
    /\ {"/", "%"} \subseteq Character
    /\ Single \cap Wild = {} /\ (Single \cup Wild) \cap Character = {}
    /\ \A r \in Route : /\ r.role \in {"endpoint", "middleware"}
                        /\ r.pattern \in Seq(Character \cup Single \cup Wild)
    /\ MaxPath \in Nat /\ MaxRoutes \in Nat

VARIABLES
    routers,            \* the router classes, each a sequence of routes
    request,            \* method and path, NoRequest before there is one
    params,             \* ctx.params
    todo,               \* routes that handleRouter is still to execute
    executedRoutes,     \* routes whose function was called (history)
    routing             \* "none", "routing", "running", "next", "done", "thrown"
routerVars == <<routers, request, params, todo, executedRoutes, routing>>

NoRequest == [method |-> "", path |-> <<>>]
Param == Single \cup Wild

RouterInit ==
    /\ routers = <<>> /\ request = NoRequest
    /\ params = [p \in {} |-> <<>>]
    /\ todo = <<>> /\ executedRoutes = <<>> /\ routing = "none"

-----------------------------------------------------------------------------
(* parsePath and matchTokens discard trailing slashes.                     *)
Stripped(s) == SubSeq(s, 1, SelectLastInSeq(s, LAMBDA c : c # "/"))

(* Mutant: a parameter matches a slash.                                    *)
TokenMatchesAll(t, piece) ==
    IF t \in Param THEN piece # <<>> ELSE piece = <<t>>

(* tokenToRegexp: what one token matches.                                  *)
TokenMatches(t, piece) ==
    IF t \in Param THEN /\ piece # <<>>
                        /\ t \in Single => "/" \notin Range(piece)
                   ELSE piece = <<t>>

(* The ways to match a beginning of s, each as the ends of its pieces.     *)
Ways(tokens, s) ==
    LET ways[n \in 0 .. Len(tokens)] ==
            IF n = 0 THEN {<<0>>}
            ELSE UNION {{Append(w, e) : e \in {m \in Last(w) .. Len(s) :
                            TokenMatches(tokens[n], SubSeq(s, Last(w) + 1, m))}} :
                        w \in ways[n - 1]}
    IN  ways[Len(tokens)]

(* Mutant: a prefix may end within a segment.                              *)
AtBoundaryAnywhere(s, n, prefix) == n = Len(s) \/ prefix

AtBoundary(s, n, prefix) == n = Len(s) \/ (prefix /\ s[n + 1] = "/")

(* The quantifiers are greedy: the first piece that can be longer is.      *)
Greediest(ways) ==
    CHOOSE w \in ways : \A v \in ways :
        v # w => \E i \in DOMAIN w : w[i] > v[i] /\ \A j \in 1 .. i - 1 : w[j] = v[j]

(* The parameters of a pattern; two that have the same name write to the   *)
(* same key, so that the last one stays.                                   *)
Places(tokens) == {i \in DOMAIN tokens : tokens[i] \in Param}
IsLast(tokens, i) == \A j \in Places(tokens) : tokens[j] = tokens[i] => j <= i

(* matchTokens: no match, or the parameters; decoding one may throw.       *)
matchPath(pattern, path, prefix) ==
    LET tokens == Stripped(pattern)
        s == Stripped(path)
        ways == {w \in Ways(tokens, s) : AtBoundary(s, Last(w), prefix)}
        way == Greediest(ways)
        Piece(i) == SubSeq(s, way[i] + 1, way[i + 1])
        names == Places(tokens)
    IN  IF ways = {} THEN [is |-> "none"]
        ELSE IF \E i \in names : "%" \in Range(Piece(i)) THEN [is |-> "throws"]
        ELSE [is |-> "match",
              params |-> [p \in {tokens[i] : i \in names} |->
                            Piece(CHOOSE i \in names : tokens[i] = p /\ IsLast(tokens, i))]]

(* Mutant: the method of a route is not looked at.                         *)
matchRouteAnyMethod(r) == matchPath(r.pattern, request.path, r.role = "middleware")

matchRoute(r) ==
    IF r.method \in {"*", request.method}
    THEN matchPath(r.pattern, request.path, r.role = "middleware")
    ELSE [is |-> "none"]

Endpoints == {r \in Route : r.role = "endpoint"}
Middlewares == {r \in Route : r.role = "middleware"}

(* The elements of s that are in S, in their order; the first of them.     *)
Only(s, S) ==
    LET only[n \in 0 .. Len(s)] ==
            IF n = 0 THEN <<>>
            ELSE IF s[n] \in S THEN Append(only[n - 1], s[n]) ELSE only[n - 1]
    IN  only[Len(s)]

FirstOf(s, S) ==
    s[CHOOSE i \in DOMAIN s : s[i] \in S /\ \A j \in 1 .. i - 1 : s[j] \notin S]

(* matchEndpoint: the first that does not come to nothing; when matching   *)
(* it throws, so does the search.                                          *)
Candidates == {r \in Endpoints : matchRoute(r).is # "none"}
matchEndpoint(router) == FirstOf(router, Candidates)

-----------------------------------------------------------------------------
Requested ==
    /\ routing = "none"
    /\ \E rs \in {s \in SeqOf(Route, MaxRoutes) : IsInjective(s)}, n \in 0 .. MaxRoutes :
          /\ n <= Len(rs)
          /\ routers' = <<SubSeq(rs, 1, n), SubSeq(rs, n + 1, Len(rs))>>
    /\ request' \in [method : {"GET", "POST"},
                     path : {<<"/">> \o s : s \in SeqOf(Character, MaxPath - 1)}]
    /\ routing' = "routing"
    /\ UNCHANGED <<params, todo, executedRoutes>>

(* handle, handleRouter: the first router with an endpoint; all its        *)
(* middlewares go before it.                                               *)
handleRouter ==
    LET able == {n \in DOMAIN routers : Range(routers[n]) \cap Candidates # {}}
    IN  /\ routing = "routing"
        /\ \/ able = {} /\ routing' = "next" /\ UNCHANGED todo
           \/ \E n \in able :
                 LET endpoint == matchEndpoint(routers[n])
                 IN  /\ \A m \in able : n <= m
                     /\ IF matchRoute(endpoint).is = "throws"
                        THEN routing' = "thrown" /\ UNCHANGED todo
                        ELSE /\ routing' = "running"
                             /\ todo' = Append(Only(routers[n], Middlewares), endpoint)
        /\ UNCHANGED <<routers, request, params, executedRoutes>>

Assigned(old, new) ==
    [p \in DOMAIN old \cup DOMAIN new |-> IF p \in DOMAIN new THEN new[p] ELSE old[p]]

(* handleSingleRoute: the function is called with its parameters.          *)
handleSingleRoute ==
    /\ routing = "running" /\ todo # <<>>
    /\ LET match == matchRoute(Head(todo))
       IN  CASE match.is = "match" ->
                    /\ params' = Assigned(params, match.params)
                    /\ executedRoutes' = Append(executedRoutes, Head(todo))
                    /\ UNCHANGED routing
             [] match.is = "none" -> UNCHANGED <<params, executedRoutes, routing>>
             [] match.is = "throws" ->
                    routing' = "thrown" /\ UNCHANGED <<params, executedRoutes>>
    /\ todo' = Tail(todo)
    /\ UNCHANGED <<routers, request>>

(* assembleRouteParams or convertParamValue throws before the function is  *)
(* called, or the function does.                                           *)
RouteThrows ==
    /\ routing = "running" /\ todo # <<>>
    /\ matchRoute(Head(todo)).is = "match"
    /\ params' = Assigned(params, matchRoute(Head(todo)).params)
    /\ executedRoutes' \in {executedRoutes, Append(executedRoutes, Head(todo))}
    /\ routing' = "thrown"
    /\ UNCHANGED <<routers, request, todo>>

Handled ==
    /\ routing = "running" /\ todo = <<>>
    /\ routing' = "done"
    /\ UNCHANGED <<routers, request, params, todo, executedRoutes>>

RouterNext ==
    Requested \/ handleRouter \/ handleSingleRoute \/ RouteThrows \/ Handled

RouterSpec == RouterInit /\ [][RouterNext]_routerVars

-----------------------------------------------------------------------------
(* What a pattern means, without matching: the paths that come of writing  *)
(* something into its parameters.                                          *)
Filled(tokens, values) ==
    FlattenSeq([i \in DOMAIN tokens |-> IF tokens[i] \in Param THEN values[i]
                                                               ELSE <<tokens[i]>>])
Pieces(s) == {SubSeq(s, i, j) : i, j \in 1 .. Len(s)} \ {<<>>}

(* What to write into them to get s.                                       *)
Values(tokens, s) ==
    {v \in [Places(tokens) -> Pieces(s)] :
        /\ \A i \in Places(tokens) : tokens[i] \in Single => "/" \notin Range(v[i])
        /\ Filled(tokens, v) = s}

Means(tokens, s) == Values(tokens, s) # {}

Begins(tokens, s) ==
    \E n \in 0 .. Len(s) : /\ n = Len(s) \/ s[n + 1] = "/"
                           /\ Means(tokens, SubSeq(s, 1, n))

Serves(r) ==
    /\ r.method \in {"*", request.method}
    /\ IF r.role = "endpoint" THEN Means(Stripped(r.pattern), Stripped(request.path))
                              ELSE Begins(Stripped(r.pattern), Stripped(request.path))

(* The routes that a request is to run: of the first router class with an  *)
(* endpoint for it, the middlewares whose path begins the request's and    *)
(* the first endpoint, in this order.                                      *)
Served ==
    LET serving == {r \in Route : Serves(r)}
        able == {n \in DOMAIN routers :
                    Range(routers[n]) \cap (Endpoints \cap serving) # {}}
        router == routers[CHOOSE n \in able : \A m \in able : n <= m]
    IN  IF able = {} THEN <<>>
        ELSE Append(Only(router, Middlewares \cap serving),
                    FirstOf(router, Endpoints \cap serving))

(* No route runs but those that serve the request, none of them is left    *)
(* out or overtaken, so that an endpoint never runs before a middleware    *)
(* that guards it; next() runs when nothing serves it; and the endpoint's  *)
(* parameters, written into its pattern, give the path of the request.     *)
RouteFound ==
    /\ routing \in {"running", "thrown", "done"} => IsPrefix(executedRoutes, Served)
    /\ routing = "done" =>
          LET tokens == Stripped(Last(executedRoutes).pattern)
          IN  /\ executedRoutes = Served
              /\ \E v \in Values(tokens, Stripped(request.path)) :
                    \A i \in Places(tokens) :
                        IsLast(tokens, i) => params[tokens[i]] = v[i]
    /\ routing = "next" => Served = <<>>
=============================================================================
