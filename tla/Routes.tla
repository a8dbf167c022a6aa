------------------------------- MODULE Routes -------------------------------
(* How a request reaches a cell: through the Vite server and the gateway of  *)
(* otavia dev, and through the CloudFront distribution, the HTTP API and the *)
(* lambda handler that otavia deploy generates from the same cell.yaml. A    *)
(* URL is the sequence of its segments, "" being what follows a last slash.  *)
EXTENDS Naturals, Sequences, FiniteSets

CONSTANTS
  Segments,     \* the segments of the URLs that are asked for
  Dotted,       \* the segments with a dot in them
  Textual,      \* the pairs <<s, t>> of segments where the text of s begins with t's
  Mounts,       \* the cells of otavia.yaml, by the first segment of their URLs
  FirstMount, DefaultMount,
  RoutesOf,     \* backend.entries[].routes: [Mounts -> sets of routes]
  ModulesOf,    \* frontend entries that are scripts: [Mounts -> sets of paths]
  Strips,       \* the second segments before which a lambda drops its mount
  WellKnown,    \* the segment .well-known
  MaxSegments   \* bound on the segments of a URL before its last slash

VARIABLES
  request,        \* the request: its URL and the mount of the page that sends it
  dev,          \* where the request is in otavia dev, its URL by then, its answer
  cloud         \* the same of the deployed stack

routeVars == <<request, dev, cloud>>

Kinds2 == {"exact", "prefix"}
Route == [path : Seq(Segments) \ {<<>>}, match : Kinds2]
Urls ==
  {<<"">>} \union
    UNION {{u, Append(u, "")} : u \in UNION {[1..n -> Segments \ {""}] : n \in 1..MaxSegments}}

Begins(s, t) == s = t \/ t = "" \/ <<s, t>> \in Textual

(* Of the files: mounts are not empty or .well-known, and no route is /. Of  *)
(* texts: what begins a beginning of a text begins the text, and of two      *)
(* beginnings of a text one begins the other.                                *)
ASSUME RoutesAssumption ==
  /\ {"", WellKnown} \subseteq Segments /\ WellKnown # "" /\ MaxSegments \in Nat
  /\ "" \notin Dotted
  /\ Mounts \subseteq Segments \ {"", WellKnown}
  /\ \A m \in Mounts : /\ IsFiniteSet(RoutesOf[m]) /\ RoutesOf[m] \subseteq Route
                       /\ \A r \in RoutesOf[m] : r.path[1] # ""
  /\ Textual \subseteq (Segments \ {""}) \X (Segments \ {""})
  /\ \A s, t, u \in Segments :
       /\ <<s, t>> \in Textual /\ <<t, u>> \in Textual => <<s, u>> \in Textual
       /\ <<s, t>> \in Textual /\ <<s, u>> \in Textual => Begins(t, u) \/ Begins(u, t)

\* url.startsWith(path), on the texts of the two.
StartsWith(url, path) ==
  /\ Len(path) <= Len(url)
  /\ \A i \in 1..(Len(path) - 1) : url[i] = path[i]
  /\ Begins(url[Len(path)], path[Len(path)])

Declares(route, path) ==
  IF route.match = "exact" THEN path = route.path
                           ELSE StartsWith(path, Append(route.path, ""))

Mounted(m, route) == [route EXCEPT !.path = <<m>> \o @]

\* Of the files: no route of a cell takes one of its own scripts.
ASSUME ScriptsAssumption ==
  \A m \in Mounts :
    /\ ModulesOf[m] \subseteq Seq(Segments)
    /\ \A p \in ModulesOf[m], r \in RoutesOf[m] : ~Declares(Mounted(m, r), <<m>> \o p)

\* The rules of the proxy: every route below its mount, and /.well-known.
ProxyRules ==
  [path : {<<WellKnown>>}, match : {"prefix"}]
    \union UNION {{Mounted(m, r) : r \in RoutesOf[m]} : m \in Mounts}

\* Vite takes the first rule whose key the URL starts with; the rules come with
\* the longest key first, and of two with one key the exact one stays.
RuleFor(url) ==
  LET fits == {r \in ProxyRules : StartsWith(url, r.path)}
      longest == {r \in fits : \A q \in fits : StartsWith(r.path, q.path)}
      exact == {r \in longest : r.match = "exact"}
  IN IF exact # {} THEN exact ELSE longest

Unslashed(path) ==
  IF path # <<>> /\ path[Len(path)] = "" THEN SubSeq(path, 1, Len(path) - 1) ELSE path

Backend(m, path) == [by |-> "backend", mount |-> m, path |-> path]
PageOf(m) == [by |-> "page", mount |-> m, path |-> <<>>]
Script(m, path) == [by |-> "script", mount |-> m, path |-> path]
Metadata(m) == [by |-> "metadata", mount |-> m, path |-> <<>>]
None == [by |-> "none", mount |-> "", path |-> <<>>]

RoutesInit ==
  /\ request = [url |-> <<>>, from |-> ""]
  /\ dev = [at |-> "idle", url |-> <<>>, answer |-> None]
  /\ cloud = dev

\* Neither way keeps anything between two requests: a behaviour asks once.
Request(url, from) ==
  /\ dev.at = "idle"
  /\ request' = [url |-> url, from |-> from]
  /\ dev' = [at |-> "vite", url |-> url, answer |-> None]
  /\ cloud' = [at |-> "edge", url |-> url, answer |-> None]

DevAnswers(answer) ==
  /\ dev' = [dev EXCEPT !.at = "done", !.answer = answer]
  /\ UNCHANGED <<request, cloud>>

CloudAnswers(answer) ==
  /\ cloud' = [cloud EXCEPT !.at = "done", !.answer = answer]
  /\ UNCHANGED <<request, dev>>

-----------------------------------------------------------------------------
(* otavia dev.                                                               *)

ServeModule ==
  /\ dev.at = "vite"
  /\ \E m \in Mounts : /\ dev.url \in {<<m>> \o p : p \in ModulesOf[m]}
                       /\ DevAnswers(Script(m, Tail(dev.url)))

IsModule(url) == \E m \in Mounts : url \in {<<m>> \o p : p \in ModulesOf[m]}

\* A backend path without a mount goes to the cell of the page that asks.
Rewrite ==
  /\ dev.at = "vite"
  /\ ~IsModule(dev.url)
  /\ LET unmounted == /\ dev.url[1] # WellKnown
                      /\ dev.url[1] \notin Mounts
                      /\ \E m \in Mounts : \E r \in RoutesOf[m] :
                           IF r.match = "exact" THEN dev.url = r.path
                           ELSE dev.url = r.path \/ Declares(r, dev.url)
         to == IF request.from \in Mounts THEN request.from ELSE FirstMount
     IN dev' = [dev EXCEPT !.at = "proxy",
                           !.url = IF unmounted THEN <<to>> \o @ ELSE @]
  /\ UNCHANGED <<request, cloud>>

Proxy ==
  /\ dev.at = "proxy"
  /\ \E r \in RuleFor(dev.url) : r.match = "prefix" \/ dev.url = r.path
  /\ dev' = [dev EXCEPT !.at = "gateway"]
  /\ UNCHANGED <<request, cloud>>

\* Anything else is index.html, also what an exact rule's bypass returns; its
\* script loads the frontend of the first segment or goes to the default cell.
BootPage ==
  /\ dev.at = "proxy"
  /\ \A r \in RuleFor(dev.url) : r.match = "exact" /\ dev.url # r.path
  /\ DevAnswers(PageOf(IF dev.url[1] \in Mounts THEN dev.url[1] ELSE DefaultMount))

Forward ==
  /\ dev.at = "gateway"
  /\ dev.url[1] \in Mounts
  /\ DevAnswers(Backend(dev.url[1], Tail(dev.url)))

\* /.well-known/<kind>/<mount>: the metadata of a cell, or 404.
AnswerMetadata ==
  /\ dev.at = "gateway"
  /\ dev.url[1] = WellKnown
  /\ DevAnswers(IF Len(dev.url) > 2 /\ dev.url[3] \in Mounts
                THEN Metadata(dev.url[3]) ELSE None)

-----------------------------------------------------------------------------
(* The deployed stack.                                                       *)

\* The path patterns of a cell's API; without routes the whole mount is its.
EdgePatterns(m) ==
  IF RoutesOf[m] = {} THEN [path : {<<m>>}, match : {"prefix"}]
                      ELSE {Mounted(m, r) : r \in RoutesOf[m]}

EdgeToApi ==
  /\ cloud.at = "edge"
  /\ \E m \in Mounts : \E r \in EdgePatterns(m) : Declares(r, cloud.url)
  /\ cloud' = [cloud EXCEPT !.at = "lambda"]
  /\ UNCHANGED <<request, dev>>

\* The rewrite takes a URL for that of a file where its last segment has a dot.
IsFile(url) == url[Len(url)] \in Dotted

\* What is in the bucket: scripts, and an index.html for each mount.
Stored(url) == IF IsModule(url) THEN Script(url[1], Tail(url)) ELSE None
IndexOf(first) == IF first \in Mounts THEN PageOf(first) ELSE None

\* Mutant: the rewrite keeps the directories, so that only the page at the top
\* of a cell has an index.html.
EdgeToSiteByDirectory ==
  /\ cloud.at = "edge"
  /\ ~\E m \in Mounts : \E r \in EdgePatterns(m) : Declares(r, cloud.url)
  /\ CloudAnswers(CASE cloud.url = <<"">> -> PageOf(DefaultMount)
                    [] cloud.url # <<"">> /\ IsFile(cloud.url) -> Stored(cloud.url)
                    [] OTHER -> IF Len(Unslashed(cloud.url)) = 1 THEN IndexOf(cloud.url[1]) ELSE None)

\* / is redirected; a file is read as it is named, and anything else is the
\* index.html of the first segment.
EdgeToSite ==
  /\ cloud.at = "edge"
  /\ ~\E m \in Mounts : \E r \in EdgePatterns(m) : Declares(r, cloud.url)
  /\ CloudAnswers(CASE cloud.url = <<"">> -> PageOf(DefaultMount)
                    [] cloud.url # <<"">> /\ IsFile(cloud.url) -> Stored(cloud.url)
                    [] OTHER -> IndexOf(cloud.url[1]))

\* The HTTP API passes the path on as it came; the handler of the cell drops
\* the mount, but only where it looks for it.
Lambda ==
  /\ cloud.at = "lambda"
  /\ LET m == cloud.url[1] IN
     CloudAnswers(Backend(m, IF cloud.url[2] \in Strips[m]
                             THEN Unslashed(Tail(cloud.url)) ELSE cloud.url))

RoutesNext ==
  \/ \E url \in Urls, from \in Mounts \union {""} : Request(url, from)
  \/ ServeModule \/ Rewrite \/ Proxy \/ BootPage
  \/ Forward \/ AnswerMetadata
  \/ EdgeToApi \/ EdgeToSite \/ Lambda

RoutesSpec == RoutesInit /\ [][RoutesNext]_routeVars

-----------------------------------------------------------------------------
Answers == [by : {"backend", "page", "script", "metadata", "none"},
            mount : Mounts \union {""}, path : Seq(Segments)]

\* Every request is at a stop of its way, with an answer of a known kind.
RoutesTypeOK ==
  /\ request.url \in Urls \union {<<>>} /\ request.from \in Mounts \union {""}
  /\ dev.at \in {"idle", "vite", "proxy", "gateway", "done"} /\ dev.answer \in Answers
  /\ cloud.at \in {"idle", "edge", "lambda", "done"} /\ cloud.answer \in Answers

\* The rule that catches the URL by its text does not declare it: it is the
\* bare path of a prefix route or a neighbour whose name begins with its own,
\* or an exact route hides a wider one.
Near(url) ==
  \E r \in RuleFor(url) :
    /\ ~Declares(r, url)
    /\ r.match = "prefix" \/ \E q \in ProxyRules : Declares(q, url)

\* The lambda of the cell is given the path with the mount still on it.
KeepsMount(url) == Len(url) < 2 \/ url[2] \notin Strips[url[1]]

\* A page whose last segment has a dot, or a script without one: the rewrite
\* looks for an object where the dev server has a page, and the other way round.
DotDecides(url) ==
  IF IsModule(url) THEN ~IsFile(url) /\ dev.answer.by = "script" /\ cloud.answer = PageOf(url[1])
  ELSE IsFile(url) /\ dev.answer = PageOf(url[1]) /\ cloud.answer = None

\* What a developer sees is what is deployed (vite-config.ts and the gateway
\* against deploy/cloudfront.ts and the lambda handlers): a URL below a mount
\* is answered by the same backend with the same path, by the page of the same
\* cell or by the same script, apart from neighbours of a route's text, from
\* the routes whose lambda handler leaves the mount on, and from URLs that the
\* rewrite takes for a file's or not: these have a page or script here and
\* none or a page there.
DevIsLikeCloud ==
  /\ dev.at = "done" /\ cloud.at = "done"
  /\ request.url = <<"">> \/ request.url[1] \in Mounts
  /\ ~Near(request.url)
  /\ RoutesOf[IF request.url = <<"">> THEN DefaultMount ELSE request.url[1]] # {}
  => \/ /\ dev.answer.by = cloud.answer.by
        /\ dev.answer.mount = cloud.answer.mount
        /\ Unslashed(dev.answer.path) = Unslashed(cloud.answer.path)
     \/ cloud.answer.by = "backend" /\ dev.answer.by = "backend" /\ KeepsMount(request.url)
     \/ DotDecides(request.url)
=============================================================================
