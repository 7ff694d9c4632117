------------------------------- MODULE Scaffold -------------------------------
(***************************************************************************)
(* A developer edits api/openapi.yaml, runs make oapi, generates the layer *)
(* files of a resource with make new-endpoint, works on the result by hand *)
(* and removes files again, while any run of the generator may die between *)
(* two of its writes.  Nothing is rolled back: what is on disk is what the *)
(* compiler, the drift detector and the server get to see.                 *)
(***************************************************************************)
EXTENDS ScaffoldNaming

CONSTANTS
  Documents,  \* sets of operations the document may hold
  Iface,      \* an operation |-> its method of ServerInterface
  DtoModes,   \* how the generator is run: with DTO=1, without, or both
  HandWays,   \* how a developer writes the call that registers a route
  MaxEdits,   \* bound on the edits of the document
  MaxRuns,    \* bound on the runs of the generator
  MaxHand     \* bound on the edits of the generated code by hand

(* A call that registers a route is on a group behind AuthRequired or not  *)
(* (auth).  What a reader of its text can tell: whether it gives the path  *)
(* (pathKnown) and that it is behind AuthRequired (inAuth).  A constant,   *)
(* or a group that a helper returns, hides the path; the helper, or a Use  *)
(* on the group, the authentication.                                       *)
Way == {w \in [auth : BOOLEAN, pathKnown : BOOLEAN, inAuth : BOOLEAN] : w.inAuth => w.auth}

(* In a document ids, and paths with their verbs, are unique.              *)
ASSUME ScaffoldAssumption ==
  /\ IsFiniteSet(Ops) /\ \A o \in Ops : Rank[o] \in Int
  /\ \A D \in Documents :
       /\ D \subseteq Ops
       /\ \A o, p \in D :
            \/ Iface[o] = Iface[p]
            \/ Rank[o] = Rank[p]
            \/ Doc[o].verb = Doc[p].verb /\ Gin(Doc[o].path) = Gin(Doc[p].path)
            => o = p
  /\ HandWays \subseteq Way
  /\ MaxEdits \in Nat /\ MaxRuns \in Nat /\ MaxHand \in Nat

Code == {"handler", "service"}

(* The files of internal/model and internal/task, to which no other file   *)
(* refers, count as one, and so do the three test files.                   *)
Layers == {"handler", "service", "repository", "model_and_task"}
TestFiles == {"tests"}

VARIABLES
  yaml,      \* operations in api/openapi.yaml
  iface,     \* operations that oapi.gen.go was generated from
  present,   \* the layer and test files of each name
  methods,   \* methods in the handler and the service file of each name
  lines,     \* how often each line has been injected for each name
  routes,    \* the register functions of each name, each its calls in order
  forwards,  \* methods of APIServer
  wired,     \* names a developer has put into the literals of newEngine
  gen,       \* the run of the generator that is under way
  done,      \* history: the run that has just finished, until anything changes
  edits, runs, hand

doc == <<yaml, iface, edits>>
tree == <<present, methods, lines, routes, forwards>>
vars == <<yaml, iface, present, methods, lines, routes, forwards, wired,
          gen, done, edits, runs, hand>>

BugPatches ==
  <<"handlers-fields", "deps-repository", "deps-service", "handlers-construct",
    "handlers-return", "apiserver-fields", "apiserver-methods", "deps-fields",
    "routes-register", "routes-func", "test-deps">>

(* What a run injects, in this order.  apiserver-methods is one write per  *)
(* operation.                                                              *)
Patches ==
  <<"handlers-fields", "deps-repository", "deps-service", "handlers-construct",
    "handlers-return", "deps-fields", "routes-register", "routes-func",
    "test-deps", "apiserver-fields", "apiserver-methods">>

Lines == ToSet(Patches) \ {"routes-func", "apiserver-methods"}

Idle == [name |-> None]

Init ==
  /\ yaml = {} /\ iface = {}
  /\ present = [n \in Names |-> {}]
  /\ methods = [n \in Names |-> [layer \in Code |-> {}]]
  /\ lines = [n \in Names |-> [s \in Lines |-> 0]]
  /\ routes = [n \in Names |-> <<>>]
  /\ forwards = <<>> /\ wired = {}
  /\ gen = Idle /\ done = Idle
  /\ edits = 0 /\ runs = 0 /\ hand = 0

-----------------------------------------------------------------------------
EditYaml ==
  /\ gen = Idle /\ edits < MaxEdits
  /\ yaml' \in Documents \ {yaml}
  /\ edits' = edits + 1 /\ done' = Idle
  /\ UNCHANGED <<iface, tree, wired, gen, runs, hand>>

(* make oapi.                                                              *)
MakeOapi ==
  /\ gen = Idle /\ iface # yaml
  /\ iface' = yaml /\ done' = Idle
  /\ UNCHANGED <<yaml, tree, wired, gen, edits, runs, hand>>

Mine(n) == {o \in yaml : BelongsTo(o, n)}

(* make new-endpoint reads the document and the generated interface, and   *)
(* refuses before it writes anything.                                      *)
Accepts(n) ==
  /\ Mine(n) # {}
  /\ \A o \in Mine(n) : /\ DeriveMethod(o, n) # None
                        /\ Cardinality(PathParams(o)) <= 1
                        /\ \E p \in iface : Iface[p] = Iface[o]
  /\ present[n] = {}

(* The operations of a set, each once, in an order.                        *)
InOrder(O, before(_, _)) ==
  {s \in [1..Cardinality(O) -> O] :
     ToSet(s) = O /\ \A i, j \in DOMAIN s : i < j => before(s[i], s[j])}

ByRank(o, p) == Rank[o] < Rank[p]

(* fresh is history: nothing of an earlier run is left.                    *)
NewEndpoint(n, dto) ==
  /\ gen = Idle /\ runs < MaxRuns /\ Accepts(n)
  /\ \E ops \in InOrder(Mine(n), ByRank) :
     gen' = [name |-> n, dto |-> dto, left |-> Layers \union TestFiles, at |-> 1,
             ops |-> ops, todo |-> ops,
             fresh |-> /\ \A s \in Lines : lines[n][s] = 0
                       /\ \A i \in DOMAIN forwards : forwards[i].name # n]
  /\ runs' = runs + 1 /\ done' = Idle
  /\ UNCHANGED <<doc, tree, wired, hand>>

(* The entries of the handler or the service file of a run.                *)
Rendered(layer) ==
  {LET m == DeriveMethod(o, gen.name)
   IN  [op |-> o, method |-> m,
        args |-> IF layer = "handler" THEN HandlerArgs(o, m, gen.dto)
                                      ELSE ServiceArgs(o, m, gen.dto)] : o \in ToSet(gen.ops)}

(* The layer files in any order, then the tests.                           *)
WriteFile(f) ==
  /\ gen # Idle
  /\ f \in IF gen.left \intersect Layers # {} THEN gen.left \intersect Layers ELSE gen.left
  /\ present' = [present EXCEPT ![gen.name] = @ \union {f}]
  /\ methods' = IF f \in Code
                THEN [methods EXCEPT ![gen.name][f] = Rendered(f)]
                ELSE methods
  /\ gen' = [gen EXCEPT !.left = @ \ {f}]
  /\ UNCHANGED <<doc, lines, routes, forwards, wired, done, runs, hand>>

-----------------------------------------------------------------------------
Injecting == gen # Idle /\ gen.left = {} /\ gen.at <= Len(Patches)

(* One line before its marker.  The fixture of the router's test is left   *)
(* out when the file or the marker in it is not there.                     *)
InsertLine ==
  /\ Injecting /\ Patches[gen.at] \in Lines
  /\ \/ lines' = [lines EXCEPT ![gen.name][Patches[gen.at]] = @ + 1]
     \/ Patches[gen.at] = "test-deps" /\ UNCHANGED lines
  /\ gen' = [gen EXCEPT !.at = @ + 1]
  /\ UNCHANGED <<doc, present, methods, routes, forwards, wired, done, runs, hand>>

(* A generated call shows its path and its authentication.                 *)
Generated(o) == [auth |-> RequiresAuth(o), pathKnown |-> TRUE, inAuth |-> RequiresAuth(o)]

RouteOf(o, O, n) ==
  [verb |-> Doc[o].verb, path |-> RoutePath(o, O), handler |-> DeriveMethod(o, n),
   way |-> Generated(o)]

(* Public routes first, then those of the group behind AuthRequired.       *)
PublicFirst(o, p) ==
  \/ ~RequiresAuth(o) /\ RequiresAuth(p)
  \/ RequiresAuth(o) = RequiresAuth(p) /\ ByRank(o, p)

(* The register function.                                                  *)
AppendRouterFunc ==
  /\ Injecting /\ Patches[gen.at] = "routes-func"
  /\ \E ops \in InOrder(ToSet(gen.ops), PublicFirst) :
       routes' = [routes EXCEPT ![gen.name] =
         Append(@, [i \in DOMAIN ops |-> RouteOf(ops[i], ToSet(gen.ops), gen.name)])]
  /\ gen' = [gen EXCEPT !.at = @ + 1]
  /\ UNCHANGED <<doc, present, methods, lines, forwards, wired, done, runs, hand>>

ForwardOf(o, n, m) ==
  [iface |-> Iface[o], signature |-> ForwardSignature(o), name |-> n, method |-> m]

(* One forwarder per operation; its signature is read off oapi.gen.go.     *)
InsertForward ==
  /\ Injecting /\ Patches[gen.at] = "apiserver-methods"
  /\ LET o == Head(gen.todo)
         p == CHOOSE p \in iface : Iface[p] = Iface[o]
     IN  forwards' = Append(forwards, ForwardOf(p, gen.name, DeriveMethod(o, gen.name)))
  /\ gen' = [gen EXCEPT !.todo = Tail(@), !.at = IF Len(gen.todo) = 1 THEN @ + 1 ELSE @]
  /\ UNCHANGED <<doc, present, methods, lines, routes, wired, done, runs, hand>>

(* gofmt and the parser read every file of the run.                        *)
FilesParse(n) == \A e \in methods[n]["handler"] : e.op # None => Parses(e.op, e.method)

Finish ==
  /\ gen # Idle /\ gen.at > Len(Patches)
  /\ FilesParse(gen.name)
  /\ done' = gen /\ gen' = Idle
  /\ UNCHANGED <<doc, tree, wired, runs, hand>>

(* A write fails, the run is interrupted, or gofmt refuses a file.         *)
Die ==
  /\ gen # Idle
  /\ gen' = Idle
  /\ UNCHANGED <<doc, tree, wired, done, runs, hand>>

-----------------------------------------------------------------------------
(* What a developer does to the code.                                      *)

(* "rm it or take another NAME", as the generator says.                    *)
RemoveFiles(n) ==
  /\ gen = Idle /\ present[n] # {}
  /\ present' = [present EXCEPT ![n] = {}]
  /\ methods' = [methods EXCEPT ![n] = [layer \in Code |-> {}]]
  /\ done' = Idle
  /\ UNCHANGED <<doc, lines, routes, forwards, wired, gen, runs, hand>>

(* The handler goes into router.Dependencies{...} and handler.APIServer{...} *)
(* of newEngine and newHTTPHandlers, which no step of the generator does.  *)
Wire(n) ==
  /\ gen = Idle /\ n \notin wired
  /\ lines[n]["handlers-return"] > 0 /\ lines[n]["deps-fields"] > 0
  /\ wired' = wired \union {n} /\ done' = Idle
  /\ UNCHANGED <<doc, tree, gen, runs, hand>>

ByHand ==
  /\ gen = Idle /\ hand < MaxHand
  /\ hand' = hand + 1 /\ done' = Idle
  /\ UNCHANGED <<doc, wired, gen, runs>>

(* A method for a new operation, in both files.                            *)
HandMethod(n, o) ==
  /\ ByHand
  /\ Code \subseteq present[n] /\ CheckMethod(o, n) \in Methods
  /\ \A layer \in Code : \A e \in methods[n][layer] : e.method # CheckMethod(o, n)
  /\ methods' = [methods EXCEPT ![n] = [layer \in Code |->
                   @[layer] \union {[op |-> None, method |-> CheckMethod(o, n), args |-> {}]}]]
  /\ UNCHANGED <<present, lines, routes, forwards>>

(* The call that registers an operation is added or rewritten, at its path *)
(* or at another one, or taken out when it is there twice.                 *)
HandRoute(n, o) ==
  /\ ByHand
  /\ routes[n] # <<>> /\ CheckMethod(o, n) \in Methods
  /\ LET calls == routes[n][1]
         same == {i \in DOMAIN calls :
                    calls[i].verb = Doc[o].verb /\ calls[i].handler = CheckMethod(o, n)}
         new(p, way) == [verb |-> Doc[o].verb, path |-> Gin(Doc[p].path),
                         handler |-> CheckMethod(o, n), way |-> way]
     IN  \/ \E i \in same, p \in yaml, way \in HandWays :
              routes' = [routes EXCEPT ![n][1][i] = new(p, way)]
         \/ /\ same = {}
            /\ \E p \in yaml, way \in HandWays :
                 routes' = [routes EXCEPT ![n][1] = Append(@, new(p, way))]
         \/ /\ Cardinality(same) > 1
            /\ \E i \in same : routes' = [routes EXCEPT ![n][1] = RemoveAt(@, i)]
  /\ UNCHANGED <<present, methods, lines, forwards>>

(* The forwarder of an operation is added or pointed at another handler,   *)
(* or taken out when it is there twice.                                    *)
HandForward(n, o) ==
  /\ ByHand
  /\ CheckMethod(o, n) \in Methods
  /\ LET old == {i \in DOMAIN forwards : forwards[i].iface = Iface[o]}
         new == [ForwardOf(o, n, CheckMethod(o, n)) EXCEPT !.signature = Signature(o)]
     IN  \/ \E i \in old :
              \/ forwards' = [forwards EXCEPT ![i] = new]
              \/ old # {i} /\ forwards' = RemoveAt(forwards, i)
         \/ old = {} /\ forwards' = Append(forwards, new)
  /\ UNCHANGED <<present, methods, lines, routes>>

Developer ==
  \/ EditYaml \/ MakeOapi
  \/ \E n \in Names :
       \/ \E dto \in DtoModes : NewEndpoint(n, dto)
       \/ RemoveFiles(n)
       \/ Wire(n)
       \/ \E o \in yaml : \/ HandMethod(n, o)
                          \/ HandRoute(n, o)
                          \/ HandForward(n, o)

Generator ==
  \/ \E f \in Layers \union TestFiles : WriteFile(f)
  \/ InsertLine \/ AppendRouterFunc \/ InsertForward
  \/ Finish \/ Die

Next == Developer \/ Generator

Spec == Init /\ [][Next]_vars

-----------------------------------------------------------------------------
(* go vet ./...: what the compiler makes of the tree.                      *)
MethodsIn(n, layer) == {e.method : e \in methods[n][layer]}

FilesBuild(n) ==
  /\ FilesParse(n)
  /\ \A layer \in Code : \A d, e \in methods[n][layer] : d.method = e.method => d = e
  /\ "handler" \in present[n] =>
       /\ "service" \in present[n]
       /\ \A e \in methods[n]["handler"] :
            \E s \in methods[n]["service"] : s.method = e.method /\ s.args = e.args

(* The verbs that a gin router group has a method for.                     *)
GinVerbs == {"GET", "POST", "PUT", "DELETE", "PATCH", "HEAD", "OPTIONS"}

(* A name declared twice, one that is not declared, and a variable that is *)
(* not used are errors.                                                    *)
LinesBuild(n) ==
  LET has(s) == lines[n][s] > 0
      handler == "handler" \in present[n]
  IN  /\ \A s \in Lines : lines[n][s] <= 1 \/ s = "routes-register"
      /\ has("deps-repository") => "repository" \in present[n] /\ has("deps-service")
      /\ has("deps-service") => has("deps-repository") /\ has("handlers-construct")
      /\ has("handlers-construct") => has("deps-service") /\ has("handlers-return") /\ handler
      /\ has("handlers-return") => has("handlers-construct") /\ has("handlers-fields")
      /\ \A s \in {"handlers-fields", "deps-fields", "apiserver-fields"} : has(s) => handler
      /\ has("routes-register") => routes[n] # <<>>
      /\ has("test-deps") => has("deps-fields")
      /\ Len(routes[n]) <= 1
      /\ routes[n] # <<>> => /\ has("deps-fields")
                             /\ \A r \in ToSet(routes[n][1]) :
                                  r.verb \in GinVerbs /\ r.handler \in MethodsIn(n, "handler")

(* APIServer implements oapi.ServerInterface.                              *)
ForwardsBuild ==
  /\ \A i, j \in DOMAIN forwards : forwards[i].iface = forwards[j].iface => i = j
  /\ \A o \in iface : \E f \in ToSet(forwards) : f.iface = Iface[o] /\ f.signature = Signature(o)
  /\ \A f \in ToSet(forwards) :
       /\ lines[f.name]["apiserver-fields"] > 0 /\ f.method \in MethodsIn(f.name, "handler")
       /\ f.signature = "params" => \E o \in iface : Iface[o] = f.iface /\ Doc[o].query.fields # {}

Builds == ForwardsBuild /\ \A n \in Names : FilesBuild(n) /\ LinesBuild(n)
=============================================================================
