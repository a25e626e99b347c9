------------------------------- MODULE Routing -------------------------------
(***************************************************************************)
(* Mount of app.go fills the chi mux while the HTTP server already serves  *)
(* it: main writes the mux, the goroutines of requests read it, and        *)
(* nothing orders the two.  Requests share nothing but the mux: one shows  *)
(* what Mount can do to any.                                               *)
(*                                                                         *)
(* Patterns and paths are sequences of the parts at which this tree        *)
(* branches.  A node of the radix tree is named by all that has matched at *)
(* it, from the root on: this name stays when the node moves under another *)
(* in a split, and its prefix is what its parent's name does not have.     *)
(*                                                                         *)
(* A write of more than one word has a begin and an end; a request that    *)
(* reads in between may see the old, the new, or a part of each.  A request *)
(* looks for a child in one step, and reads the child's prefix in another. *)
(***************************************************************************)
EXTENDS Naturals, Sequences, SequencesExt

CONSTANTS
  PathParts,    \* the parts of the paths that requests ask for ...
  Paths         \* ... and those paths

VARIABLES
  mountPc,      \* where Mount is
  middlewares,  \* mx.middlewares
  handler,      \* mx.handler: the chain in front of the tree, half of it while it is stored
  done,         \* how many routes are registered
  spot,         \* the node at which InsertRoute is
  split,        \* the node that it has unlinked to split it
  kids,         \* the children of each node
  torn,         \* the node whose children are being written
  writing,      \* the node whose map of endpoints is being written
  ends,         \* the nodes whose map is complete
  muxPc,        \* where the request is
  path,         \* its path ...
  verb,         \* ... and its method
  late,         \* whether it came after Mount had returned
  chain,        \* the middlewares that it has passed
  at,           \* the node that it has reached
  edge,         \* the child that it has found there
  rest,         \* what is left of the path
  answer,       \* the route that takes it, or what the mux answers
  killed        \* whether the runtime has ended the process

muxVars == <<middlewares, handler, done, kids, ends>>
mountVars == <<mountPc, spot, split, torn, writing>>
requestVars == <<muxPc, path, verb, late, chain, at, edge, rest, answer>>
vars == <<muxVars, mountVars, requestVars, killed>>

-----------------------------------------------------------------------------
(* What Mount registers.                                                   *)

\* An OPTIONS request stands for a preflight.
Verbs == {"GET", "POST", "OPTIONS"}

Stack == <<"RequestID", "RealIP", "Recoverer">>

Route(pattern, verbs, cors, to) ==
  [pattern |-> pattern, verbs |-> verbs, cors |-> cors, to |-> to]

\* app.Mux.Mount registers its handler three times.
Routes ==
  << Route(<<"/", "_ah/", "debug">>, Verbs, FALSE, "profiler"),
     Route(<<"/", "_ah/", "debug", "/">>, Verbs, FALSE, "profiler"),
     Route(<<"/", "_ah/", "debug", "/", "*">>, Verbs, FALSE, "profiler"),
     Route(<<"/", "_ah/", "warmup">>, {"GET"}, FALSE, "warmup"),
     Route(<<"/", "_ah/", "health">>, {"GET"}, FALSE, "health"),
     Route(<<"/", "stream">>, Verbs, TRUE, "stream"),
     Route(<<"/", "rpc/", "*">>, Verbs, TRUE, "rpc") >>

Handlers == {Routes[i].to : i \in DOMAIN Routes}
Refusals == {"notfound", "notallowed", "recovered", "aborted", "preflight"}
None == "none"

Root == <<>>
Nodes == UNION {{SubSeq(Routes[i].pattern, 1, n) : n \in 0 .. Len(Routes[i].pattern)} :
                i \in DOMAIN Routes}
NoNode == <<"none">>
NoHandler == <<>>
Half == <<"half">>

RpcPath == <<"/", "rpc/", "x">>

\* A path may be any sequence of parts, but "*" is one of patterns only.
PathsAssumption ==
  /\ PathParts \cap {"*", "none"} = {}
  /\ Paths \subseteq Seq(PathParts)
  /\ RpcPath \in Paths

\* What the table of routes says of a request, whatever the tree looks like.
Wanted(p, v) ==
  LET matching == {i \in DOMAIN Routes :
                     LET r == Routes[i].pattern IN
                     r = p \/ (Last(r) = "*" /\ IsPrefix(Front(r), p))}
      taking == {i \in matching : v \in Routes[i].verbs}
  IN  CASE matching = {} -> "notfound"
        [] matching # {} /\ taking = {} -> "notallowed"
        [] OTHER -> LET i == CHOOSE i \in taking : TRUE
                    IN  IF v = "OPTIONS" /\ Routes[i].cors THEN "preflight" ELSE Routes[i].to

-----------------------------------------------------------------------------

Init ==
  /\ mountPc = "use"
  /\ middlewares = <<>>
  /\ handler = NoHandler
  /\ done = 0
  /\ spot = Root
  /\ split = NoNode
  /\ kids = [n \in Nodes |-> {}]
  /\ torn = NoNode
  /\ writing = NoNode
  /\ ends = {}
  /\ muxPc = None
  /\ path = Root
  /\ verb = "GET"
  /\ late = FALSE
  /\ chain = <<>>
  /\ at = Root
  /\ edge = NoNode
  /\ rest = Root
  /\ answer = None
  /\ killed = FALSE

-----------------------------------------------------------------------------
(* Mount.                                                                  *)

MountGoes(from, to) ==
  ~killed /\ mountPc = from /\ mountPc' = to /\ UNCHANGED <<requestVars, killed>>

\* app.Mux.Use, which panics once the handler is built.
Use ==
  /\ handler = NoHandler
  /\ MountGoes("use", IF Len(middlewares) + 1 = Len(Stack) THEN "build" ELSE "use")
  /\ middlewares' = Append(middlewares, Stack[Len(middlewares) + 1])
  /\ UNCHANGED <<handler, done, spot, split, kids, torn, writing, ends>>

\* The first route has mx.handler built: an interface, of two words.
BuildHandler ==
  /\ MountGoes("build", "stored")
  /\ handler' = Half
  /\ UNCHANGED <<middlewares, done, spot, split, kids, torn, writing, ends>>

StoreHandler ==
  /\ MountGoes("stored", "register")
  /\ handler' = middlewares
  /\ UNCHANGED <<middlewares, done, spot, split, kids, torn, writing, ends>>

Pattern == Routes[done + 1].pattern

\* tree.InsertRoute starts at the root ...
InsertRoute ==
  /\ done < Len(Routes)
  /\ MountGoes("register", "walk")
  /\ spot' = Root
  /\ UNCHANGED <<muxVars, split, torn, writing>>

Common(k) == LongestCommonPrefix({k, Pattern})

\* The child with the label that the rest of the pattern begins with.
Edges == {k \in kids[spot] : Len(Common(k)) > Len(spot)}

\* ... and goes down as long as a child's prefix is one of the pattern.
Follow ==
  /\ MountGoes("walk", "walk")
  /\ \E k \in Edges : Common(k) = k /\ spot' = k
  /\ UNCHANGED <<muxVars, split, torn, writing>>

\* A child that shares a part of its prefix is split: replaceChild puts a new node in
\* its place, which has no label yet ...
Unlink ==
  /\ MountGoes("walk", "unlinked")
  /\ \E k \in Edges :
       /\ Common(k) # k
       /\ split' = k
       /\ kids' = [kids EXCEPT ![spot] = @ \ {k}]
  /\ UNCHANGED <<middlewares, handler, done, spot, torn, writing, ends>>

\* ... then has one, but no children ...
Label ==
  /\ MountGoes("unlinked", "labelled")
  /\ kids' = [kids EXCEPT ![spot] = @ \cup {Common(split)}]
  /\ spot' = Common(split)
  /\ UNCHANGED <<middlewares, handler, done, split, torn, writing, ends>>

\* ... while the old one is given a shorter prefix, first its length, then the bytes ...
Shorten ==
  /\ MountGoes("labelled", "shortening")
  /\ UNCHANGED <<muxVars, spot, split, torn, writing>>

Restore_Forgets ==
  /\ MountGoes("shortening", "restoring")
  /\ torn' = spot
  /\ UNCHANGED <<muxVars, spot, split, writing>>

\* ... and becomes the new one's child.
Restore ==
  /\ MountGoes("shortening", "restoring")
  /\ torn' = spot
  /\ kids' = [kids EXCEPT ![spot] = {split}]
  /\ UNCHANGED <<middlewares, handler, done, spot, split, writing, ends>>

Restored ==
  /\ MountGoes("restoring", "add")
  /\ torn' = NoNode
  /\ split' = NoNode
  /\ UNCHANGED <<muxVars, spot, writing>>

\* addChild links a node for the rest of the pattern, with one for its "*" below it, and
\* sorts the children.
AddChild ==
  /\ \/ MountGoes("walk", "adding") /\ Edges = {}
     \/ MountGoes("add", "adding")
  /\ torn' = spot
  /\ kids' = IF Last(Pattern) = "*" /\ Len(Pattern) - Len(spot) > 1
             THEN [kids EXCEPT ![spot] = @ \cup {Front(Pattern)}, ![Front(Pattern)] = {Pattern}]
             ELSE [kids EXCEPT ![spot] = @ \cup {Pattern}]
  /\ UNCHANGED <<middlewares, handler, done, spot, split, writing, ends>>

\* The node is linked before it has endpoints: setEndpoint makes its map and writes
\* an entry for each method.
SetEndpoint ==
  /\ MountGoes("adding", "setting")
  /\ torn' = NoNode
  /\ writing' = Pattern
  /\ UNCHANGED <<muxVars, spot, split>>

Registered ==
  /\ MountGoes("setting", "register")
  /\ writing' = NoNode
  /\ ends' = ends \cup {Pattern}
  /\ done' = done + 1
  /\ UNCHANGED <<middlewares, handler, spot, split, kids, torn>>

MountReturns ==
  /\ done = Len(Routes)
  /\ MountGoes("register", "returned")
  /\ UNCHANGED <<muxVars, spot, split, torn, writing>>

Mounting ==
  \/ Use \/ BuildHandler \/ StoreHandler \/ InsertRoute \/ Follow
  \/ Unlink \/ Label \/ Shorten \/ Restore \/ Restored
  \/ AddChild \/ SetEndpoint \/ Registered \/ MountReturns

-----------------------------------------------------------------------------
(* The request.                                                            *)

RequestGoes(from, to) ==
  ~killed /\ muxPc = from /\ muxPc' = to /\ UNCHANGED <<muxVars, mountVars, path, verb, late>>

Answers(from, a) ==
  RequestGoes(from, "answered") /\ answer' = a /\ UNCHANGED <<chain, at, edge, rest, killed>>

\* A request reaches the server, which was started before Mount.
Arrive(p, v) ==
  /\ ~killed
  /\ muxPc = None
  /\ muxPc' = "arrived"
  /\ path' = p
  /\ rest' = p
  /\ verb' = v
  /\ late' = (mountPc = "returned")
  /\ UNCHANGED <<muxVars, mountVars, chain, at, edge, answer, killed>>

\* ServeHTTP of a mux without a handler.
NoHandlerYet ==
  /\ handler \in {NoHandler, Half}
  /\ Answers("arrived", "notfound")

\* The type of the handler is stored, its function is not: net/http recovers from the
\* call of nil, and closes the connection.
HalfAHandler ==
  /\ handler = Half
  /\ Answers("arrived", "aborted")

Enter_SkipsStack ==
  /\ handler \notin {NoHandler, Half}
  /\ RequestGoes("arrived", "lookup")
  /\ UNCHANGED <<chain, at, edge, rest, answer, killed>>

Enter_AnyHandler ==
  /\ RequestGoes("arrived", "lookup")
  /\ chain' = handler
  /\ UNCHANGED <<at, edge, rest, answer, killed>>

Enter ==
  /\ handler \notin {NoHandler, Half}
  /\ RequestGoes("arrived", "lookup")
  /\ chain' = handler
  /\ UNCHANGED <<at, edge, rest, answer, killed>>

\* Nothing of the path is left: the map of a node that has one decides.
Leaf == at # Root /\ rest = <<>> /\ at \in ends \cup {writing}

\* The child with the label that the rest begins with, or the one for "*".  No node of
\* this tree has both.
Children ==
  {k \in kids[at] : k = Append(at, "*") \/ (rest # <<>> /\ k[Len(at) + 1] = Head(rest))}

\* findEdge
FindEdge ==
  /\ ~Leaf
  /\ \E k \in Children : edge' = k
  /\ RequestGoes("lookup", "edge")
  /\ UNCHANGED <<chain, at, rest, answer, killed>>

\* While children are added and sorted the search among them may miss any ...
NotFound ==
  /\ ~Leaf
  /\ Children = {} \/ torn = at
  /\ Answers("lookup", "notfound")

\* ... or find a place that holds none yet.
NilChild ==
  /\ ~Leaf
  /\ torn = at
  /\ Answers("lookup", "recovered")

\* The old bytes, with the length that the prefix of a node that is split will have.
TornPrefix(k) == IF Last(k) = "debug" THEN <<"/", "_ah/">> ELSE <<"/", "_ah">>

\* What the prefix of the child is read as.  When the child has moved to another node it
\* is no prefix of the rest any more.
Prefix ==
  IF split = edge /\ mountPc = "shortening" THEN TornPrefix(edge)
  ELSE IF edge \in kids[at] \/ (split = edge /\ mountPc \in {"unlinked", "labelled"})
       THEN SubSeq(edge, Len(at) + 1, Len(edge))
       ELSE NoNode

\* findRoute goes down to the child, with what its prefix leaves of the path ...
Descend ==
  /\ RequestGoes("edge", "lookup")
  /\ \/ Last(edge) = "*" /\ rest' = <<>>
     \/ IsPrefix(Prefix, rest) /\ rest' = SubSeq(rest, Len(Prefix) + 1, Len(rest))
  /\ at' = edge
  /\ edge' = NoNode
  /\ UNCHANGED <<chain, answer, killed>>

\* ... which must begin with the prefix.
OtherPrefix ==
  /\ Last(edge) # "*" /\ ~IsPrefix(Prefix, rest)
  /\ Answers("edge", "notfound")

Takes(v) == \E i \in DOMAIN Routes : Routes[i].pattern = at /\ v \in Routes[i].verbs

\* The node's endpoint for the method, behind the middleware of its group.
Found ==
  /\ Leaf
  /\ Takes(verb)
  /\ \E i \in DOMAIN Routes :
       /\ Routes[i].pattern = at
       /\ Answers("lookup", IF verb = "OPTIONS" /\ Routes[i].cors THEN "preflight"
                            ELSE Routes[i].to)

NotAllowed ==
  /\ Leaf
  /\ ~Takes(verb) \/ at = writing
  /\ Answers("lookup", "notallowed")

\* A map that is read while it is written ends the process.
ConcurrentMapAccess ==
  /\ Leaf
  /\ at = writing
  /\ RequestGoes("lookup", "lookup")
  /\ killed' = TRUE
  /\ UNCHANGED <<chain, at, edge, rest, answer>>

\* So does another request that comes by while the map of any node is written.
OtherMapAccess ==
  /\ ~killed
  /\ writing # NoNode
  /\ killed' = TRUE
  /\ UNCHANGED <<muxVars, mountVars, requestVars>>

Serving ==
  \/ NoHandlerYet \/ HalfAHandler \/ Enter
  \/ FindEdge \/ NotFound \/ NilChild \/ Descend \/ OtherPrefix
  \/ Found \/ NotAllowed \/ ConcurrentMapAccess

Next == Mounting \/ (\E p \in Paths, v \in Verbs : Arrive(p, v)) \/ Serving \/ OtherMapAccess

Spec == Init /\ [][Next]_vars

-----------------------------------------------------------------------------
(* Properties.                                                             *)

RoutingTypeOK ==
  LET nodes == Nodes
  IN  /\ mountPc \in {"use", "build", "stored", "register", "walk", "unlinked", "labelled",
                      "shortening", "restoring", "add", "adding", "setting", "returned"}
      /\ middlewares \in Seq({Stack[i] : i \in DOMAIN Stack})
      /\ handler \in {NoHandler, Half, Stack}
      /\ done \in 0 .. Len(Routes)
      /\ spot \in nodes
      /\ split \in nodes \cup {NoNode}
      /\ kids \in [nodes -> SUBSET nodes]
      /\ torn \in nodes \cup {NoNode}
      /\ writing \in nodes \cup {NoNode}
      /\ ends \subseteq nodes
      /\ muxPc \in {None, "arrived", "lookup", "edge", "answered"}
      /\ path \in Paths \cup {Root}
      /\ verb \in Verbs
      /\ late \in BOOLEAN
      /\ chain \in {<<>>, Stack}
      /\ at \in nodes
      /\ edge \in nodes \cup {NoNode}
      /\ \E n \in 0 .. Len(path) : rest = SubSeq(path, n + 1, Len(path))
      /\ answer \in Handlers \cup Refusals \cup {None}
      /\ killed \in BOOLEAN

\* A request that comes after Mount has returned gets what the table of routes says:
\* neither the splits of the tree's nodes nor the order of the registrations has lost
\* a route, or has made one of what is none, and the mux is not written any more
\* (app.go:25-62, tree.go:139-214, 390-516).
RoutedOnceMounted ==
  late => ~killed /\ answer \in {None, Wanted(path, verb)}

\* Whenever it comes, and wherever Mount is, no request gets to the stream or to the RPC
\* server by another route than that of its path and method, and none gets to any
\* handler without the whole stack of middlewares before it, Recoverer among them
\* (mux.go:62-86, 374-388).  A request that reads the prefix of a node while it is cut
\* may get to a handler below /_ah/ that is not its own.
NeverAnotherRoute ==
  answer \in Handlers \cup {"preflight"} =>
    /\ chain = Stack
    /\ answer = Wanted(path, verb) \/ (~late /\ answer \in {"profiler", "warmup", "health"})
=============================================================================
