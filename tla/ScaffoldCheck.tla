----------------------------- MODULE ScaffoldCheck -----------------------------
(***************************************************************************)
(* The three judges of what Scaffold leaves on disk: the compiler          *)
(* (Builds), the drift detector make new-endpoint-check, and the server,   *)
(* which answers a request or does not.                                    *)
(***************************************************************************)
EXTENDS Scaffold

(* scripts/new-endpoint-check.go.                                          *)

(* The resources that exist: the builtin ones and every handler type.      *)
Known == Builtin \union {n \in Names : "handler" \in present[n] /\ FilesParse(n)}

OpsOf(r) == {o \in yaml : Owner(o, Known) = r}

BugAuthAgrees(o, r) == TRUE

AuthAgrees(o, r) == r.way.inAuth = RequiresAuth(o)

(* The calls in the body of the first register function of the name.       *)
Body(n) == Head(routes[n])

Collected == {"GET", "POST", "PUT", "DELETE", "PATCH"}

(* Those of them that the detector collects.                               *)
RegisteredRoutes(n) == {i \in DOMAIN Body(n) : Body(n)[i].verb \in Collected}

(* The calls that register the operation's method under its verb.          *)
CallsOf(o, n) ==
  {i \in RegisteredRoutes(n) :
     Body(n)[i].verb = Doc[o].verb /\ Body(n)[i].handler = CheckMethod(o, n)}

IsCallOf(i, o, n) == i \in CallsOf(o, n) /\ \A j \in CallsOf(o, n) : i <= j

(* The first of them has the path of the document, if its path can be      *)
(* read, and as far as can be read its authentication.                     *)
RouteAgrees(o, n) ==
  \E i \in RegisteredRoutes(n) :
    /\ IsCallOf(i, o, n)
    /\ Body(n)[i].way.pathKnown => Body(n)[i].path = RoutePath(o, OpsOf(n))
    /\ AuthAgrees(o, Body(n)[i])

HasField(n) == lines[n]["handlers-fields"] > 0

(* A search of the text for "Name:", which the fixture of a resource whose *)
(* name ends in this one would satisfy as well; no name here does.         *)
HasFixture(n) == lines[n]["test-deps"] > 0

(* No finding for a resource: its methods, its routes, the forwarders of   *)
(* its operations, its field of HTTPHandlers and its fixture.              *)
Clean(n) ==
  /\ n \in Names
  /\ Code \subseteq present[n] /\ FilesParse(n)
  /\ routes[n] # <<>> /\ RegisteredRoutes(n) # {}
  /\ \A o \in OpsOf(n) :
       /\ CheckMethod(o, n) # None =>
            /\ \A layer \in Code : CheckMethod(o, n) \in MethodsIn(n, layer)
            /\ RouteAgrees(o, n)
       /\ \E f \in ToSet(forwards) : f.iface = Iface[o]
  /\ \A i \in RegisteredRoutes(n) :
       \E o \in OpsOf(n) : CheckMethod(o, n) = Body(n)[i].handler
  /\ HasField(n) /\ HasFixture(n)

(* The builtin resources are skipped; an operation that nobody owns is a   *)
(* resource of its own without a handler.                                  *)
AllClean == \A o \in yaml : Owner(o, Known) \in Builtin \/ Clean(Owner(o, Known))

-----------------------------------------------------------------------------
(* The routes of the running server: newEngine passes the handlers that    *)
(* are in its literals, and a register function without one returns.       *)
Registered(n) == n \in wired /\ lines[n]["routes-register"] > 0 /\ routes[n] # <<>>

(* gin panics on a route that is registered twice.                         *)
Starts ==
  /\ \A n \in Names : lines[n]["routes-register"] <= 1
  /\ \A m, n \in Names : Registered(m) /\ Registered(n) =>
       \A i \in DOMAIN routes[m][1], j \in DOMAIN routes[n][1] :
         /\ routes[m][1][i].verb = routes[n][1][j].verb
         /\ routes[m][1][i].path = routes[n][1][j].path
         => m = n /\ i = j

(* A request for the operation, written as the document says, reaches the  *)
(* handler of this name behind the authentication the document asks for.   *)
Routed(o, n, m) ==
  /\ Registered(n)
  /\ \E r \in ToSet(Body(n)) :
       /\ r.verb = Doc[o].verb /\ r.path = Gin(Doc[o].path)
       /\ r.handler = m /\ r.way.auth = RequiresAuth(o)

Served(o, n, m) == Starts /\ Routed(o, n, m)

-----------------------------------------------------------------------------
(* As long as nobody edits the generated code: a tree that builds has      *)
(* everything an operation of the interface needs.  The forwarders that    *)
(* the compiler insists on are the last thing a run writes, so a run that  *)
(* died, with whatever was removed and run again, is seen by the compiler. *)
(* Only the fixture of the router's test may be missing.                   *)
BuildMeansComplete ==
  hand = 0 /\ Builds =>
    \A o \in iface : \E f \in ToSet(forwards) :
      /\ f.iface = Iface[o]
      /\ \A layer \in Code : f.method \in MethodsIn(f.name, layer)
      /\ \A s \in Lines \ {"test-deps"} : lines[f.name][s] = 1
      /\ routes[f.name] # <<>> /\ \E r \in ToSet(routes[f.name][1]) : r.handler = f.method

(* The generator and the detector, two programs with two copies of the     *)
(* naming rules, agree: after a first run, while they agree on which       *)
(* operations are the resource's own and no two of these want one method,  *)
(* there is nothing to report but the fixture, if the run had to leave it  *)
(* out, and a route under a verb that the generator writes and the         *)
(* detector does not collect (HEAD, OPTIONS), which it says is missing.    *)
GeneratedIsClean ==
  LET n == done.name
      agreed == \A o \in yaml : BelongsTo(o, n) <=> Owner(o, Known) = n
      distinct == \A o, p \in OpsOf(n) : CheckMethod(o, n) = CheckMethod(p, n) => o = p
      collected == \A o \in OpsOf(n) : Doc[o].verb \in Collected
  IN  done # Idle /\ done.fresh /\ agreed /\ distinct
        => (Clean(n) <=> HasFixture(n) /\ collected)

(* Every call of the register function is one that the detector compares   *)
(* with an operation of the document, its path included.  It does not look *)
(* at a resource that the document has lost, nor at a call of a known      *)
(* handler under another verb, nor at a second call under the same one,    *)
(* nor at a path that is not a literal on a group it can follow.           *)
NothingLeftOver(n) ==
  \A i \in DOMAIN Body(n) :
    /\ Body(n)[i].way.pathKnown
    /\ \E o \in OpsOf(n) : CheckMethod(o, n) # None /\ IsCallOf(i, o, n)

(* What a clean report vouches for, call by call: the path, if it can be   *)
(* read and the prefix is of whole segments; that an operation which asks  *)
(* for authentication has it, however the call is written; that one which  *)
(* does not is open, if the call shows its authentication.                 *)
Vouched(o, n, r) ==
  /\ r.way.pathKnown /\ WholeSegments(OpsOf(n)) => r.path = Gin(Doc[o].path)
  /\ RequiresAuth(o) => r.way.auth
  /\ r.way.inAuth = r.way.auth => r.way.auth = RequiresAuth(o)

(* How far a clean report can be relied on, whatever was generated, edited *)
(* and drifted before: a server that builds has a route for every          *)
(* operation of the document, as far as Vouched says; and it starts if no  *)
(* call is left over.  Not covered by the detector, and excluded: a prefix *)
(* that is not whole segments, an operation without a method or of a       *)
(* builtin resource, and a handler that newEngine was not given.           *)
CleanMeansServed ==
  Builds /\ AllClean =>
    /\ \A o \in yaml :
         LET n == Owner(o, Known)
         IN  n \in wired /\ CheckMethod(o, n) # None =>
               /\ Registered(n)
               /\ \E i \in DOMAIN Body(n) : IsCallOf(i, o, n) /\ Vouched(o, n, Body(n)[i])
    /\ (\A n \in Names : Registered(n) => NothingLeftOver(n) /\ WholeSegments(OpsOf(n)))
         => Starts

(* What a finished run announces: the resource is "generated, assembled    *)
(* and injected" (scripts/new-endpoint.go:1917).                           *)
FinishedIsServed ==
  done # Idle /\ Builds =>
    \A i \in DOMAIN done.ops : Served(done.ops[i], done.name, DeriveMethod(done.ops[i], done.name))
=============================================================================
