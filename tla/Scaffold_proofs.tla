---------------------------- MODULE Scaffold_proofs ----------------------------
(***************************************************************************)
(* What holds of the scaffold whatever the document, the names and the     *)
(* number of edits and runs: the three invariants of ScaffoldCheck.  They  *)
(* follow from one inductive invariant, which says how far the run under   *)
(* way has come (Progress), and what is left by runs that died: a          *)
(* forwarder is written last, so everything else was written before it.    *)
(***************************************************************************)
EXTENDS ScaffoldCheck, SequenceTheorems, FiniteSetTheorems, NaturalsInduction,
        WellFoundedInduction, TLAPS

Entry == [op : Ops \union {None}, method : Methods \union {None}, args : SUBSET {"id", "req"}]

Call ==
  [verb : {Doc[o].verb : o \in Ops},
   path : {Gin(Doc[o].path) : o \in Ops} \union UNION {{RoutePath(o, O) : o \in O} : O \in SUBSET Ops},
   handler : Methods \union {None},
   way : Way]

Forward ==
  [iface : {Iface[o] : o \in Ops}, signature : {"both", "param", "params", "plain"},
   name : Names, method : Methods \union {None}]

Run ==
  [name : Names, dto : DtoModes, left : SUBSET (Layers \union TestFiles),
   at : 1..12, ops : Seq(Ops), todo : Seq(Ops), fresh : BOOLEAN]

TypeInv ==
  /\ yaml \in Documents \union {{}} /\ iface \in Documents \union {{}}
  /\ present \in [Names -> SUBSET (Layers \union TestFiles)]
  /\ methods \in [Names -> [Code -> SUBSET Entry]]
  /\ lines \in [Names -> [Lines -> Nat]]
  /\ routes \in [Names -> Seq(Seq(Call))]
  /\ forwards \in Seq(Forward)
  /\ wired \subseteq Names
  /\ gen \in Run \union {Idle} /\ done \in Run \union {Idle}
  /\ edits \in Nat /\ runs \in Nat /\ hand \in Nat

(* The line that calls the register function comes after the field it      *)
(* needs, the function itself after the call.                              *)
Pending(n) == IF gen # Idle /\ gen.name = n /\ gen.at = 7 THEN 1 ELSE 0

LineOrder ==
  \A n \in Names :
    /\ lines[n]["routes-register"] + Pending(n) <= lines[n]["deps-fields"]
    /\ routes[n] # <<>> => lines[n]["routes-register"] >= 1

(* How far a run has come.                                                 *)
Asked(g) ==
  /\ ToSet(g.ops) = Mine(g.name) /\ Mine(g.name) # {}
  /\ \A o \in ToSet(g.ops) : /\ DeriveMethod(o, g.name) # None
                             /\ \E p \in iface : Iface[p] = Iface[o]

Written(g) ==
  /\ (Layers \union TestFiles) \ g.left \subseteq present[g.name]
  /\ \A layer \in Code \ g.left : \A o \in ToSet(g.ops) :
       DeriveMethod(o, g.name) \in MethodsIn(g.name, layer)
  /\ g.at > 1 => g.left = {}

(* The lines that every run injects.                                       *)
Needed == Lines \ {"test-deps"}

Injected(g) ==
  \A k \in 1..11 : k < g.at /\ Patches[k] \in Needed => lines[g.name][Patches[k]] >= 1

Calls(n, m) == \E i \in DOMAIN routes[n] : \E k \in DOMAIN routes[n][i] : routes[n][i][k].handler = m

Assembled(g) == g.at > 8 => \A o \in ToSet(g.ops) : Calls(g.name, DeriveMethod(o, g.name))

Forwarded(g) ==
  /\ g.at <= 11 <=> g.todo # <<>>
  /\ ToSet(g.todo) \subseteq ToSet(g.ops)
  /\ \A o \in ToSet(g.ops) \ ToSet(g.todo) : \E f \in ToSet(forwards) : f.iface = Iface[o]

Routes(s, g) == [i \in DOMAIN s |-> RouteOf(s[i], ToSet(g.ops), g.name)]

Untouched(g) ==
  g.fresh => /\ g.at <= 8 => routes[g.name] = <<>>
             /\ g.at > 8 => \E s \in InOrder(ToSet(g.ops), PublicFirst) :
                              routes[g.name] = <<Routes(s, g)>>

Progress(g) ==
  Asked(g) /\ Written(g) /\ Injected(g) /\ Assembled(g) /\ Forwarded(g) /\ Untouched(g)

Running == gen # Idle => done = Idle /\ Progress(gen)

Finished == done # Idle => /\ gen = Idle /\ done.at = 12
                           /\ Progress(done) /\ FilesParse(done.name)

(* What a forwarder stands for, until somebody edits the code by hand.     *)
ForwardsLast ==
  hand = 0 => \A f \in ToSet(forwards) :
                /\ \A s \in Needed : lines[f.name][s] >= 1
                /\ Calls(f.name, f.method)

IInv == TypeInv /\ LineOrder /\ Running /\ Finished /\ ForwardsLast

-----------------------------------------------------------------------------
(* Sequences.                                                              *)

LEMMA OrderedSeq ==
  ASSUME NEW O \in SUBSET Ops, NEW s \in [1..Cardinality(O) -> O]
  PROVE  s \in Seq(O) /\ s \in Seq(Ops) /\ Len(s) \in Nat /\ DOMAIN s = 1..Len(s)
<1>1. Cardinality(O) \in Nat
  BY FS_Subset, FS_CardinalityType, ScaffoldAssumption DEF ScaffoldAssumption
<1>2. s \in Seq(O)
  BY <1>1, SeqDef
<1>3. s \in Seq(Ops)
  BY <1>2, SeqMonotonic
<1> QED
  BY <1>2, <1>3, LenProperties

LEMMA RemovedSeq ==
  ASSUME NEW S, NEW s \in Seq(S), NEW i \in 1..Len(s)
  PROVE  RemoveAt(s, i) \in Seq(S)
<1>1. Len(s) \in Nat /\ \A k \in 1..Len(s) : s[k] \in S
  BY LenProperties, ElementOfSeq
<1>2. SubSeq(s, 1, i - 1) \in Seq(S)
  <2>1. \A k \in 1..(i - 1) : s[k] \in S
    BY <1>1
  <2> QED
    BY <1>1, <2>1, SubSeqProperties
<1>3. SubSeq(s, i + 1, Len(s)) \in Seq(S)
  <2>1. \A k \in (i + 1)..Len(s) : s[k] \in S
    BY <1>1
  <2> QED
    BY <1>1, <2>1, SubSeqProperties
<1> QED
  BY <1>2, <1>3, ConcatProperties DEF RemoveAt

LEMMA AppendedSet ==
  ASSUME NEW S, NEW s \in Seq(S), NEW e \in S
  PROVE  ToSet(Append(s, e)) = ToSet(s) \union {e}
<1>1. DOMAIN s = 1..Len(s) /\ Len(s) \in Nat
  BY LenProperties
<1>2. DOMAIN Append(s, e) = 1..(Len(s) + 1)
  BY AppendProperties, LenProperties
<1> QED
  BY <1>1, <1>2, AppendProperties DEF ToSet

LEMMA TailSet ==
  ASSUME NEW S, NEW s \in Seq(S), s # <<>>
  PROVE  /\ Head(s) \in ToSet(s) /\ ToSet(Tail(s)) \subseteq ToSet(s)
         /\ ToSet(s) \subseteq ToSet(Tail(s)) \union {Head(s)}
         /\ Tail(s) = <<>> <=> Len(s) = 1
<1>1. DOMAIN s = 1..Len(s) /\ Len(s) \in Nat \ {0}
  BY LenProperties, EmptySeq
<1>2. /\ Tail(s) \in Seq(S) /\ Len(Tail(s)) = Len(s) - 1
      /\ \A i \in 1..Len(Tail(s)) : Tail(s)[i] = s[i + 1]
  BY HeadTailProperties
<1>3. DOMAIN Tail(s) = 1..(Len(s) - 1)
  BY <1>2, LenProperties
<1>4. Head(s) = s[1]
  OBVIOUS
<1>5. ToSet(s) \subseteq ToSet(Tail(s)) \union {Head(s)}
  <2> SUFFICES ASSUME NEW i \in 1..Len(s), i # 1
               PROVE  s[i] \in ToSet(Tail(s))
    BY <1>1, <1>4 DEF ToSet
  <2>1. i - 1 \in 1..Len(Tail(s)) /\ Tail(s)[i - 1] = s[i]
    BY <1>1, <1>2
  <2> QED
    BY <1>2, <1>3, <2>1 DEF ToSet
<1>6. ToSet(Tail(s)) \subseteq ToSet(s)
  BY <1>1, <1>2, <1>3 DEF ToSet
<1>7. Tail(s) = <<>> <=> Len(s) = 1
  BY <1>1, <1>2, EmptySeq
<1>8. Head(s) \in ToSet(s)
  BY <1>1, <1>4 DEF ToSet
<1> QED
  BY <1>5, <1>6, <1>7, <1>8

LEMMA SeqElements ==
  ASSUME NEW S, NEW s \in Seq(S)
  PROVE  ToSet(s) \subseteq S
BY LenProperties, ElementOfSeq DEF ToSet

LEMMA PatchNames ==
  /\ DOMAIN Patches = 1..11 /\ Len(Patches) = 11
  /\ Lines = {"handlers-fields", "deps-repository", "deps-service", "handlers-construct",
              "handlers-return", "deps-fields", "routes-register", "test-deps",
              "apiserver-fields"}
<1>1. DOMAIN Patches = 1..11 /\ Len(Patches) = 11
  BY DEF Patches
<1> QED
  BY <1>1 DEF Lines, Patches, ToSet

(* Which patch is which.                                                   *)
LEMMA PatchAt ==
  ASSUME NEW k \in 1..11
  PROVE  /\ Patches[k] \in Lines <=> k # 8 /\ k # 11
         /\ Patches[k] = "routes-func" <=> k = 8
         /\ Patches[k] = "apiserver-methods" <=> k = 11
         /\ Patches[k] = "routes-register" <=> k = 7
         /\ Patches[k] = "deps-fields" <=> k = 6
         /\ Patches[k] = "test-deps" <=> k = 9
<1>1. \/ k = 1 \/ k = 2 \/ k = 3 \/ k = 4 \/ k = 5 \/ k = 6
      \/ k = 7 \/ k = 8 \/ k = 9 \/ k = 10 \/ k = 11
  OBVIOUS
<1>2. CASE k \in {1, 2, 3, 4, 5}
  BY <1>2, PatchNames DEF Patches
<1>3. CASE k \in {6, 7, 8}
  BY <1>3, PatchNames DEF Patches
<1>4. CASE k \in {9, 10, 11}
  BY <1>4, PatchNames DEF Patches
<1> QED
  BY <1>1, <1>2, <1>3, <1>4

LEMMA AllInjected ==
  ASSUME NEW n, \A k \in 1..11 : Patches[k] \in Needed => lines[n][Patches[k]] >= 1
  PROVE  \A s \in Needed : lines[n][s] >= 1
<1> SUFFICES ASSUME NEW s \in Needed PROVE lines[n][s] >= 1
  OBVIOUS
<1>1. PICK k \in 1..11 : Patches[k] = s
  BY PatchNames DEF Needed, Lines, ToSet
<1> QED
  BY <1>1

LEMMA MethodTypes ==
  ASSUME NEW o, NEW n, NEW m, NEW dto
  PROVE  /\ DeriveMethod(o, n) \in Methods \union {None}
         /\ HandlerArgs(o, m, dto) \in SUBSET {"id", "req"}
         /\ ServiceArgs(o, m, dto) \in SUBSET {"id", "req"}
         /\ Signature(o) \in {"both", "param", "params", "plain"}
         /\ ForwardSignature(o) \in {"both", "param", "params", "plain"}
         /\ RequiresAuth(o) \in BOOLEAN
<1>1. DeriveMethod(o, n) \in Methods \union {None}
  BY DEF DeriveMethod
<1>2. HandlerArgs(o, m, dto) \in SUBSET {"id", "req"}
  BY DEF HandlerArgs
<1>3. ServiceArgs(o, m, dto) \in SUBSET {"id", "req"}
  BY DEF ServiceArgs
<1>4. Signature(o) \in {"both", "param", "params", "plain"}
  <2> DEFINE p == PathParams(o) = {}
             q == Doc[o].query.fields = {}
  <2>1. CASE p /\ q
    BY <2>1 DEF Signature
  <2>2. CASE p /\ ~q
    BY <2>2 DEF Signature
  <2>3. CASE ~p /\ q
    BY <2>3 DEF Signature
  <2>4. CASE ~p /\ ~q
    BY <2>4 DEF Signature
  <2> QED
    BY <2>1, <2>2, <2>3, <2>4
<1>5. ForwardSignature(o) \in {"both", "param", "params", "plain"}
  BY <1>4 DEF ForwardSignature
<1>6. RequiresAuth(o) \in BOOLEAN
  BY DEF RequiresAuth
<1> QED
  BY <1>1, <1>2, <1>3, <1>4, <1>5, <1>6

LEMMA MineInOps ==
  ASSUME TypeInv, NEW n
  PROVE  yaml \subseteq Ops /\ iface \subseteq Ops /\ Mine(n) \in SUBSET Ops
BY ScaffoldAssumption DEF ScaffoldAssumption, TypeInv, Mine

-----------------------------------------------------------------------------
(* Types.                                                                  *)

LEMMA RouteType ==
  ASSUME NEW O \in SUBSET Ops, NEW o \in O, NEW n
  PROVE  RouteOf(o, O, n) \in Call
<1>1. RoutePath(o, O) \in UNION {{RoutePath(q, Q) : q \in Q} : Q \in SUBSET Ops}
  OBVIOUS
<1> HIDE DEF RoutePath
<1>2. DeriveMethod(o, n) \in Methods \union {None} /\ RequiresAuth(o) \in BOOLEAN
  BY MethodTypes
<1>3. Generated(o) \in Way
  BY <1>2 DEF Generated, Way
<1> HIDE DEF Generated
<1> QED
  BY <1>1, <1>2, <1>3 DEF RouteOf, Call

LEMMA RoutesType ==
  ASSUME TypeInv, gen \in Run, NEW s \in InOrder(ToSet(gen.ops), PublicFirst)
  PROVE  Routes(s, gen) \in Seq(Call)
<1> DEFINE O == ToSet(gen.ops)
<1>1. O \in SUBSET Ops
  BY SeqElements DEF Run
<1>2. s \in [1..Cardinality(O) -> O]
  BY DEF InOrder
<1> HIDE DEF O
<1>3. s \in Seq(O) /\ DOMAIN s = 1..Len(s) /\ Len(s) \in Nat
  BY <1>1, <1>2, OrderedSeq
<1>4. \A i \in 1..Len(s) : RouteOf(s[i], O, gen.name) \in Call
  BY <1>1, <1>3, ElementOfSeq, RouteType
<1>5. [i \in 1..Len(s) |-> RouteOf(s[i], O, gen.name)] \in [1..Len(s) -> Call]
  BY <1>4
<1> QED
  BY <1>3, <1>5, SeqDef DEF Routes, O

LEMMA RenderedType ==
  ASSUME TypeInv, gen \in Run, NEW f \in Code
  PROVE  Rendered(f) \in SUBSET Entry
<1> SUFFICES ASSUME NEW o \in ToSet(gen.ops)
             PROVE  [op |-> o, method |-> DeriveMethod(o, gen.name),
                     args |-> IF f = "handler"
                              THEN HandlerArgs(o, DeriveMethod(o, gen.name), gen.dto)
                              ELSE ServiceArgs(o, DeriveMethod(o, gen.name), gen.dto)] \in Entry
  BY DEF Rendered
<1>1. o \in Ops
  BY SeqElements DEF Run
<1>2. DeriveMethod(o, gen.name) \in Methods \union {None}
  BY MethodTypes
<1>3. HandlerArgs(o, DeriveMethod(o, gen.name), gen.dto) \in SUBSET {"id", "req"}
  BY MethodTypes
<1>4. ServiceArgs(o, DeriveMethod(o, gen.name), gen.dto) \in SUBSET {"id", "req"}
  BY MethodTypes
<1> QED
  BY <1>1, <1>2, <1>3, <1>4 DEF Entry

LEMMA RunUpdates ==
  ASSUME NEW g \in Run, NEW k \in 1..12, NEW t \in Seq(Ops)
  PROVE  /\ [g EXCEPT !.at = k] \in Run
         /\ [g EXCEPT !.todo = t, !.at = k] \in Run
BY DEF Run

LEMMA TypeInit == Init => TypeInv
<1> SUFFICES ASSUME Init PROVE TypeInv
  OBVIOUS
<1>1. routes \in [Names -> Seq(Seq(Call))] /\ forwards \in Seq(Forward)
  BY EmptySeq DEF Init
<1>2. methods \in [Names -> [Code -> SUBSET Entry]]
  BY DEF Init
<1>3. lines \in [Names -> [Lines -> Nat]]
  BY DEF Init
<1> QED
  BY <1>1, <1>2, <1>3 DEF Init, TypeInv

(* One case per action.                                                    *)
LEMMA TypeStep ==
  ASSUME TypeInv, Running, [Next]_vars
  PROVE  TypeInv'
<1> USE DEF TypeInv
<1>1. ASSUME EditYaml PROVE TypeInv'
  BY <1>1 DEF EditYaml, tree
<1>2. ASSUME MakeOapi PROVE TypeInv'
  BY <1>2 DEF MakeOapi, tree
<1>3. ASSUME NEW n \in Names, NEW dto \in DtoModes, NewEndpoint(n, dto) PROVE TypeInv'
  <2>1. PICK ops \in InOrder(Mine(n), ByRank) :
          gen' = [name |-> n, dto |-> dto, left |-> Layers \union TestFiles, at |-> 1,
                  ops |-> ops, todo |-> ops,
                  fresh |-> /\ \A s \in Lines : lines[n][s] = 0
                            /\ \A i \in DOMAIN forwards : forwards[i].name # n]
    BY <1>3 DEF NewEndpoint
  <2>2. ops \in [1..Cardinality(Mine(n)) -> Mine(n)]
    BY <2>1 DEF InOrder
  <2>3. ops \in Seq(Ops)
    BY <2>2, MineInOps, OrderedSeq
  <2> DEFINE F == /\ \A s \in Lines : lines[n][s] = 0
                  /\ \A i \in DOMAIN forwards : forwards[i].name # n
  <2>4. F \in BOOLEAN
    OBVIOUS
  <2>5. gen' = [name |-> n, dto |-> dto, left |-> Layers \union TestFiles, at |-> 1,
                ops |-> ops, todo |-> ops, fresh |-> F]
    BY <2>1
  <2> HIDE DEF F
  <2>6. gen' \in Run
    BY <2>3, <2>4, <2>5 DEF Run
  <2>7. UNCHANGED <<doc, tree, wired, hand>> /\ runs' = runs + 1 /\ done' = Idle
    BY <1>3 DEF NewEndpoint
  <2> QED
    BY <2>6, <2>7 DEF doc, tree
<1>4. ASSUME NEW f \in Layers \union TestFiles, WriteFile(f) PROVE TypeInv'
  <2>1. gen \in Run
    BY <1>4 DEF WriteFile
  <2>2. gen' \in Run
    <3>1. gen' = [gen EXCEPT !.left = @ \ {f}]
      BY <1>4 DEF WriteFile
    <3> QED
      BY <2>1, <3>1 DEF Run
  <2>3. present' \in [Names -> SUBSET (Layers \union TestFiles)]
    BY <1>4, <2>1 DEF WriteFile, Run
  <2>4. methods' \in [Names -> [Code -> SUBSET Entry]]
    <3>1. CASE f \in Code
      <4>1. methods' = [methods EXCEPT ![gen.name][f] = Rendered(f)]
        BY <1>4, <3>1 DEF WriteFile
      <4>2. Rendered(f) \in SUBSET Entry
        BY <2>1, <3>1, RenderedType
      <4> QED
        BY <2>1, <3>1, <4>1, <4>2 DEF Run
    <3>2. CASE f \notin Code
      BY <1>4, <3>2 DEF WriteFile
    <3> QED
      BY <3>1, <3>2
  <2>5. UNCHANGED <<doc, lines, routes, forwards, wired, done, runs, hand>>
    BY <1>4 DEF WriteFile
  <2> QED
    BY <2>2, <2>3, <2>4, <2>5 DEF doc
<1>5. ASSUME InsertLine PROVE TypeInv'
  <2>0. Injecting /\ gen \in Run
    BY <1>5 DEF InsertLine, Injecting
  <2>1. gen \in Run /\ gen.at \in 1..11
    BY <2>0, PatchNames DEF Injecting, Run
  <2>2. gen' \in Run
    <3>1. gen' = [gen EXCEPT !.at = @ + 1]
      BY <1>5 DEF InsertLine
    <3>2. gen.at + 1 \in 1..12
      BY <2>1
    <3> QED
      BY <2>1, <3>1, <3>2, RunUpdates, EmptySeq
  <2>3. lines' \in [Names -> [Lines -> Nat]]
    <3> DEFINE s == Patches[gen.at]
    <3>1. s \in Lines /\ (lines' = lines \/ lines' = [lines EXCEPT ![gen.name][s] = @ + 1])
      BY <1>5 DEF InsertLine
    <3> HIDE DEF s
    <3>2. lines \in [Names -> [Lines -> Nat]] /\ gen.name \in Names
      BY <2>1 DEF Run
    <3>3. CASE lines' = [lines EXCEPT ![gen.name][s] = @ + 1]
      <4> HIDE DEF TypeInv
      <4>1. lines[gen.name][s] + 1 \in Nat
        BY <3>1, <3>2
      <4> QED
        BY <3>1, <3>2, <3>3, <4>1
    <3> QED
      BY <3>1, <3>2, <3>3
  <2>4. UNCHANGED <<doc, present, methods, routes, forwards, wired, done, runs, hand>>
    BY <1>5 DEF InsertLine
  <2> QED
    BY <2>2, <2>3, <2>4 DEF doc
<1>6. ASSUME AppendRouterFunc PROVE TypeInv'
  <2>1. gen \in Run /\ gen.at \in 1..11
    BY <1>6, PatchNames DEF AppendRouterFunc, Injecting, Run
  <2>2. gen' \in Run
    <3>1. gen' = [gen EXCEPT !.at = @ + 1]
      BY <1>6 DEF AppendRouterFunc
    <3>2. gen.at + 1 \in 1..12
      BY <2>1
    <3> QED
      BY <2>1, <3>1, <3>2, RunUpdates, EmptySeq
  <2>3. PICK s \in InOrder(ToSet(gen.ops), PublicFirst) :
          routes' = [routes EXCEPT ![gen.name] = Append(@, Routes(s, gen))]
    BY <1>6 DEF AppendRouterFunc, Routes
  <2>4. Append(routes[gen.name], Routes(s, gen)) \in Seq(Seq(Call))
    <3>1. routes[gen.name] \in Seq(Seq(Call))
      BY <2>1 DEF Run
    <3> QED
      BY <2>1, <3>1, RoutesType, AppendProperties
  <2>5. routes' \in [Names -> Seq(Seq(Call))]
    BY <2>1, <2>3, <2>4 DEF Run
  <2>6. UNCHANGED <<doc, present, methods, lines, forwards, wired, done, runs, hand>>
    BY <1>6 DEF AppendRouterFunc
  <2> QED
    BY <2>2, <2>5, <2>6 DEF doc
<1>7. ASSUME InsertForward PROVE TypeInv'
  <2>1. gen \in Run /\ gen.at \in 1..11 /\ gen # Idle
    BY <1>7, PatchNames DEF InsertForward, Injecting, Run
  <2>2. gen.todo \in Seq(Ops) /\ gen.todo # <<>>
    BY <2>1 DEF Run, Running, Progress, Forwarded
  <2> DEFINE o == Head(gen.todo)
  <2>3. o \in ToSet(gen.ops)
    BY <2>1, <2>2, TailSet DEF Running, Progress, Forwarded
  <2>4. \E p \in iface : Iface[p] = Iface[o]
    BY <2>1, <2>3 DEF Running, Progress, Asked
  <2>5. PICK p \in iface :
          forwards' = Append(forwards, ForwardOf(p, gen.name, DeriveMethod(o, gen.name)))
    BY <1>7, <2>4 DEF InsertForward
  <2>6. ForwardOf(p, gen.name, DeriveMethod(o, gen.name)) \in Forward
    <3>1. p \in Ops /\ gen.name \in Names
      BY <2>1, MineInOps DEF Run
    <3>2. /\ DeriveMethod(o, gen.name) \in Methods \union {None}
          /\ ForwardSignature(p) \in {"both", "param", "params", "plain"}
      BY MethodTypes
    <3> QED
      BY <3>1, <3>2 DEF ForwardOf, Forward
  <2>7. forwards' \in Seq(Forward)
    BY <2>5, <2>6, AppendProperties
  <2>8. gen' \in Run
    <3>1. gen' = [gen EXCEPT !.todo = Tail(@), !.at = IF Len(gen.todo) = 1 THEN @ + 1 ELSE @]
      BY <1>7 DEF InsertForward
    <3>2. Tail(gen.todo) \in Seq(Ops)
      BY <2>2, HeadTailProperties
    <3> DEFINE k == IF Len(gen.todo) = 1 THEN gen.at + 1 ELSE gen.at
    <3>3. k \in 1..12 /\ gen' = [gen EXCEPT !.todo = Tail(gen.todo), !.at = k]
      BY <2>1, <3>1
    <3> HIDE DEF k
    <3> QED
      BY <2>1, <3>2, <3>3, RunUpdates
  <2>9. UNCHANGED <<doc, present, methods, lines, routes, wired, done, runs, hand>>
    BY <1>7 DEF InsertForward
  <2> QED
    BY <2>7, <2>8, <2>9 DEF doc
<1>8. ASSUME Finish PROVE TypeInv'
  BY <1>8 DEF Finish, doc, tree
<1>9. ASSUME Die PROVE TypeInv'
  BY <1>9 DEF Die, doc, tree
<1>10. ASSUME NEW n \in Names, RemoveFiles(n) PROVE TypeInv'
  <2>1. methods' \in [Names -> [Code -> SUBSET Entry]]
    BY <1>10 DEF RemoveFiles
  <2>2. present' \in [Names -> SUBSET (Layers \union TestFiles)]
    BY <1>10 DEF RemoveFiles
  <2> QED
    BY <1>10, <2>1, <2>2 DEF RemoveFiles, doc
<1>11. ASSUME NEW n \in Names, Wire(n) PROVE TypeInv'
  BY <1>11 DEF Wire, doc, tree
<1>12. ASSUME NEW n \in Names, NEW o \in yaml, HandMethod(n, o) PROVE TypeInv'
  <2>1. [op |-> None, method |-> CheckMethod(o, n), args |-> {}] \in Entry
    BY <1>12 DEF HandMethod, Entry
  <2>2. methods' = [methods EXCEPT ![n] = [layer \in Code |->
                      @[layer] \union {[op |-> None, method |-> CheckMethod(o, n), args |-> {}]}]]
    BY <1>12 DEF HandMethod
  <2>3. methods' \in [Names -> [Code -> SUBSET Entry]]
    BY <2>1, <2>2
  <2> QED
    BY <1>12, <2>3 DEF HandMethod, ByHand, doc
<1>13. ASSUME NEW n \in Names, NEW o \in yaml, HandRoute(n, o) PROVE TypeInv'
  <2> DEFINE calls == routes[n][1]
             call(p, way) == [verb |-> Doc[o].verb, path |-> Gin(Doc[p].path),
                              handler |-> CheckMethod(o, n), way |-> way]
  <2>1. \A p \in yaml, way \in HandWays : call(p, way) \in Call
    <3>1. HandWays \subseteq Way /\ CheckMethod(o, n) \in Methods /\ yaml \subseteq Ops
      BY <1>13, MineInOps, ScaffoldAssumption DEF HandRoute, ScaffoldAssumption
    <3> QED
      BY <3>1 DEF Call
  <2>2. routes[n] \in Seq(Seq(Call)) /\ routes[n] # <<>>
    BY <1>13 DEF HandRoute
  <2>3. 1 \in 1..Len(routes[n]) /\ calls \in Seq(Call)
    BY <2>2, EmptySeq, LenProperties, ElementOfSeq
  <2>4. DOMAIN calls = 1..Len(calls)
    BY <2>3, LenProperties
  <2>5. \/ \E i \in DOMAIN calls, p \in yaml, way \in HandWays :
             routes' = [routes EXCEPT ![n][1][i] = call(p, way)]
        \/ \E i \in DOMAIN calls : routes' = [routes EXCEPT ![n][1] = RemoveAt(@, i)]
        \/ \E p \in yaml, way \in HandWays :
             routes' = [routes EXCEPT ![n][1] = Append(@, call(p, way))]
    BY <1>13 DEF HandRoute
  <2> HIDE DEF call
  <2>6. ASSUME NEW c \in Seq(Call), routes' = [routes EXCEPT ![n][1] = c]
        PROVE  routes' \in [Names -> Seq(Seq(Call))]
    <3>1. [routes[n] EXCEPT ![1] = c] \in Seq(Seq(Call))
      BY <2>2, <2>3, <2>6, ExceptSeq
    <3> QED
      BY <2>6, <3>1
  <2>7. routes' \in [Names -> Seq(Seq(Call))]
    <3>1. ASSUME NEW i \in DOMAIN calls, NEW new \in Call,
                 routes' = [routes EXCEPT ![n][1][i] = new]
          PROVE  routes' \in [Names -> Seq(Seq(Call))]
      <4>1. [calls EXCEPT ![i] = new] \in Seq(Call)
        BY <2>3, <2>4, ExceptSeq
      <4>2. routes' = [routes EXCEPT ![n][1] = [calls EXCEPT ![i] = new]]
        BY <3>1
      <4> QED
        BY <2>6, <4>1, <4>2
    <3>2. ASSUME NEW i \in DOMAIN calls, routes' = [routes EXCEPT ![n][1] = RemoveAt(@, i)]
          PROVE  routes' \in [Names -> Seq(Seq(Call))]
      <4>1. RemoveAt(calls, i) \in Seq(Call)
        BY <2>3, <2>4, RemovedSeq
      <4> QED
        BY <2>6, <3>2, <4>1
    <3>3. ASSUME NEW new \in Call, routes' = [routes EXCEPT ![n][1] = Append(@, new)]
          PROVE  routes' \in [Names -> Seq(Seq(Call))]
      <4>1. Append(calls, new) \in Seq(Call)
        BY <2>3, AppendProperties
      <4> QED
        BY <2>6, <3>3, <4>1
    <3> QED
      BY <2>1, <2>5, <3>1, <3>2, <3>3
  <2> QED
    BY <1>13, <2>7 DEF HandRoute, ByHand, doc
<1>14. ASSUME NEW n \in Names, NEW o \in yaml, HandForward(n, o) PROVE TypeInv'
  <2> DEFINE new == [ForwardOf(o, n, CheckMethod(o, n)) EXCEPT !.signature = Signature(o)]
  <2>1. new \in Forward
    <3>1. /\ o \in Ops /\ CheckMethod(o, n) \in Methods
          /\ Signature(o) \in {"both", "param", "params", "plain"}
      BY <1>14, MineInOps, MethodTypes DEF HandForward
    <3> QED
      BY <3>1 DEF ForwardOf, Forward
  <2>2. DOMAIN forwards = 1..Len(forwards)
    BY LenProperties
  <2>3. \/ \E i \in DOMAIN forwards : forwards' = [forwards EXCEPT ![i] = new]
        \/ \E i \in DOMAIN forwards : forwards' = RemoveAt(forwards, i)
        \/ forwards' = Append(forwards, new)
    BY <1>14 DEF HandForward
  <2> HIDE DEF new
  <2>4. ASSUME NEW i \in DOMAIN forwards
        PROVE  [forwards EXCEPT ![i] = new] \in Seq(Forward) /\ RemoveAt(forwards, i) \in Seq(Forward)
    BY <2>1, <2>2, ExceptSeq, RemovedSeq
  <2>5. Append(forwards, new) \in Seq(Forward)
    BY <2>1, AppendProperties
  <2>6. forwards' \in Seq(Forward)
    BY <2>3, <2>4, <2>5
  <2> QED
    BY <1>14, <2>6 DEF HandForward, ByHand, doc
<1>15. ASSUME UNCHANGED vars PROVE TypeInv'
  BY <1>15 DEF vars
<1> QED
  BY <1>1, <1>2, <1>3, <1>4, <1>5, <1>6, <1>7, <1>8, <1>9, <1>10, <1>11, <1>12, <1>13,
     <1>14, <1>15 DEF Next, Developer, Generator

-----------------------------------------------------------------------------
(* The order of the lines.                                                 *)

LEMMA LineTypes ==
  ASSUME TypeInv, NEW n \in Names, NEW s \in Lines
  PROVE  lines[n][s] \in Nat
BY DEF TypeInv

LEMMA RunType ==
  ASSUME TypeInv, gen # Idle
  PROVE  gen \in Run /\ gen.name \in Names /\ gen.at \in 1..12
         /\ gen.ops \in Seq(Ops) /\ gen.todo \in Seq(Ops) /\ ToSet(gen.ops) \subseteq Ops
<1>1. gen \in Run
  BY DEF TypeInv
<1> QED
  BY <1>1, SeqElements DEF Run

LEMMA InsertedLine ==
  ASSUME TypeInv, InsertLine
  PROVE  /\ gen \in Run /\ gen # Idle /\ gen.left = {} /\ gen.at \in 1..11 /\ gen.at \notin {8, 11}
         /\ gen' = [gen EXCEPT !.at = gen.at + 1]
         /\ \A m \in Names, t \in Lines :
              \/ lines'[m][t] = IF m = gen.name /\ t = Patches[gen.at]
                                THEN lines[m][t] + 1 ELSE lines[m][t]
              \/ t = "test-deps" /\ lines'[m][t] = lines[m][t]
<1>1. gen \in Run /\ gen # Idle /\ gen.left = {} /\ gen.at \in 1..11 /\ gen.name \in Names
  BY RunType, PatchNames DEF InsertLine, Injecting
<1>2. gen.at \notin {8, 11}
  BY <1>1, PatchAt DEF InsertLine
<1>3. gen' = [gen EXCEPT !.at = gen.at + 1]
  BY DEF InsertLine
<1>4. /\ Patches[gen.at] \in Lines
      /\ \/ lines' = [lines EXCEPT ![gen.name][Patches[gen.at]] = @ + 1]
         \/ Patches[gen.at] = "test-deps" /\ lines' = lines
  BY DEF InsertLine
<1>5. lines \in [Names -> [Lines -> Nat]]
  BY DEF TypeInv
<1>6. ASSUME NEW m \in Names, NEW t \in Lines
      PROVE  \/ lines'[m][t] = IF m = gen.name /\ t = Patches[gen.at]
                               THEN lines[m][t] + 1 ELSE lines[m][t]
             \/ t = "test-deps" /\ lines'[m][t] = lines[m][t]
  BY <1>1, <1>4, <1>5
<1> QED
  BY <1>1, <1>2, <1>3, <1>6

LEMMA AppendedFunction ==
  ASSUME TypeInv, AppendRouterFunc
  PROVE  /\ gen \in Run /\ gen # Idle /\ gen.left = {} /\ gen.at = 8
         /\ gen' = [gen EXCEPT !.at = 9]
         /\ \E s \in InOrder(ToSet(gen.ops), PublicFirst) :
              /\ Routes(s, gen) \in Seq(Call)
              /\ routes' = [routes EXCEPT ![gen.name] = Append(@, Routes(s, gen))]
<1>1. gen \in Run /\ gen # Idle /\ gen.left = {} /\ gen.at \in 1..11
  BY RunType, PatchNames DEF AppendRouterFunc, Injecting
<1>2. gen.at = 8
  BY <1>1, PatchAt DEF AppendRouterFunc
<1>3. gen' = [gen EXCEPT !.at = 9]
  BY <1>2 DEF AppendRouterFunc
<1>4. PICK s \in InOrder(ToSet(gen.ops), PublicFirst) :
        routes' = [routes EXCEPT ![gen.name] = Append(@, Routes(s, gen))]
  BY DEF AppendRouterFunc, Routes
<1>5. Routes(s, gen) \in Seq(Call)
  BY <1>1, RoutesType
<1> QED
  BY <1>1, <1>2, <1>3, <1>4, <1>5

LEMMA InsertedForward ==
  ASSUME TypeInv, Running, InsertForward
  PROVE  /\ gen \in Run /\ gen # Idle /\ gen.left = {} /\ gen.at = 11
         /\ gen.todo \in Seq(Ops) /\ gen.todo # <<>>
         /\ gen' = [gen EXCEPT !.todo = Tail(gen.todo),
                               !.at = IF Len(gen.todo) = 1 THEN 12 ELSE 11]
         /\ \E f \in Forward :
              /\ forwards' = Append(forwards, f)
              /\ f.iface = Iface[Head(gen.todo)] /\ f.name = gen.name
              /\ f.method = DeriveMethod(Head(gen.todo), gen.name)
<1>1. gen \in Run /\ gen # Idle /\ gen.left = {} /\ gen.at \in 1..11 /\ gen.name \in Names
  BY RunType, PatchNames DEF InsertForward, Injecting
<1>2. gen.at = 11
  BY <1>1, PatchAt DEF InsertForward
<1>3. gen.todo \in Seq(Ops) /\ gen.todo # <<>>
  BY <1>1, RunType DEF Running, Progress, Forwarded
<1>4. gen' = [gen EXCEPT !.todo = Tail(gen.todo),
                         !.at = IF Len(gen.todo) = 1 THEN 12 ELSE 11]
  BY <1>2 DEF InsertForward
<1> DEFINE o == Head(gen.todo)
<1>5. o \in ToSet(gen.ops)
  BY <1>1, <1>3, TailSet DEF Running, Progress, Forwarded
<1>6. \E p \in iface : Iface[p] = Iface[o]
  BY <1>1, <1>5 DEF Running, Progress, Asked
<1>7. PICK p \in iface :
        /\ Iface[p] = Iface[o]
        /\ forwards' = Append(forwards, ForwardOf(p, gen.name, DeriveMethod(o, gen.name)))
  BY <1>6 DEF InsertForward
<1>8. ForwardOf(p, gen.name, DeriveMethod(o, gen.name)) \in Forward
  <2>1. p \in Ops
    BY MineInOps
  <2>2. /\ DeriveMethod(o, gen.name) \in Methods \union {None}
        /\ ForwardSignature(p) \in {"both", "param", "params", "plain"}
    BY MethodTypes
  <2> QED
    BY <1>1, <2>1, <2>2 DEF ForwardOf, Forward
<1> DEFINE f == ForwardOf(p, gen.name, DeriveMethod(o, gen.name))
<1>9. f.iface = Iface[o] /\ f.name = gen.name /\ f.method = DeriveMethod(o, gen.name)
  BY <1>7 DEF ForwardOf
<1> QED
  BY <1>1, <1>2, <1>3, <1>4, <1>7, <1>8, <1>9

(* Between two runs nothing is pending.                                    *)
LEMMA NothingPending ==
  ASSUME gen = Idle \/ gen.at # 7, NEW n
  PROVE  Pending(n) = 0
BY DEF Pending

LEMMA LineOrderStep ==
  ASSUME TypeInv, LineOrder, Running, [Next]_vars
  PROVE  LineOrder'
<1> SUFFICES ASSUME NEW m \in Names
             PROVE  /\ lines'[m]["routes-register"] + Pending(m)' <= lines'[m]["deps-fields"]
                    /\ routes'[m] # <<>> => lines'[m]["routes-register"] >= 1
  BY DEF LineOrder
<1>a. /\ lines[m]["routes-register"] \in Nat /\ lines[m]["deps-fields"] \in Nat
      /\ "routes-register" \in Lines /\ "deps-fields" \in Lines
  BY LineTypes, PatchNames
<1>b. /\ lines[m]["routes-register"] + Pending(m) <= lines[m]["deps-fields"]
      /\ routes[m] # <<>> => lines[m]["routes-register"] >= 1
      /\ Pending(m) \in {0, 1} /\ Pending(m)' \in {0, 1}
  BY DEF LineOrder, Pending
<1> DEFINE Goal == /\ lines'[m]["routes-register"] + Pending(m)' <= lines'[m]["deps-fields"]
                   /\ routes'[m] # <<>> => lines'[m]["routes-register"] >= 1
<1>c. ASSUME lines' = lines, routes'[m] # <<>> => routes[m] # <<>>,
             Pending(m)' = 0 \/ Pending(m)' = Pending(m)
      PROVE  Goal
  BY <1>a, <1>b, <1>c
<1> HIDE DEF Goal
<1>1. ASSUME EditYaml PROVE Goal
  BY <1>1, <1>c DEF EditYaml, tree, Pending
<1>2. ASSUME MakeOapi PROVE Goal
  BY <1>2, <1>c DEF MakeOapi, tree, Pending
<1>3. ASSUME NEW n \in Names, NEW dto \in DtoModes, NewEndpoint(n, dto) PROVE Goal
  <2>1. gen'.at = 1
    BY <1>3 DEF NewEndpoint
  <2>2. Pending(m)' = 0
    BY <2>1 DEF Pending
  <2> QED
    BY <1>3, <1>c, <2>2 DEF NewEndpoint, tree
<1>4. ASSUME NEW f \in Layers \union TestFiles, WriteFile(f) PROVE Goal
  <2>1. gen \in Run /\ gen # Idle /\ gen' = [gen EXCEPT !.left = @ \ {f}]
    BY <1>4, RunType DEF WriteFile
  <2>2. gen'.at = gen.at /\ gen'.name = gen.name
    BY <2>1 DEF Run
  <2>3. Pending(m)' = 0 \/ Pending(m)' = Pending(m)
    BY <2>1, <2>2 DEF Pending
  <2> QED
    BY <1>4, <1>c, <2>3 DEF WriteFile
<1>5. ASSUME InsertLine PROVE Goal
  <2>1. /\ gen \in Run /\ gen # Idle /\ gen.at \in 1..11
        /\ gen' = [gen EXCEPT !.at = gen.at + 1]
    BY <1>5, InsertedLine
  <2>2. gen'.at = gen.at + 1 /\ gen'.name = gen.name
    BY <2>1 DEF Run
  <2>3. /\ lines'[m]["routes-register"] = IF m = gen.name /\ gen.at = 7
               THEN lines[m]["routes-register"] + 1 ELSE lines[m]["routes-register"]
        /\ lines'[m]["deps-fields"] = IF m = gen.name /\ gen.at = 6
               THEN lines[m]["deps-fields"] + 1 ELSE lines[m]["deps-fields"]
    BY <1>5, <1>a, <2>1, InsertedLine, PatchAt
  <2>4. Pending(m) = IF m = gen.name /\ gen.at = 7 THEN 1 ELSE 0
    BY <2>1 DEF Pending
  <2>5. Pending(m)' = 1 => m = gen.name /\ gen.at = 6
    BY <2>1, <2>2 DEF Pending
  <2>6. routes' = routes
    BY <1>5 DEF InsertLine
  <2> QED
    BY <1>a, <1>b, <2>1, <2>3, <2>4, <2>5, <2>6 DEF Goal
<1>6. ASSUME AppendRouterFunc PROVE Goal
  <2>1. /\ gen \in Run /\ gen # Idle /\ gen.at = 8 /\ gen' = [gen EXCEPT !.at = 9]
        /\ lines' = lines
    BY <1>6, AppendedFunction DEF AppendRouterFunc
  <2>2. gen'.at = 9
    BY <2>1 DEF Run
  <2>3. Pending(m)' = 0
    BY <2>2 DEF Pending
  <2>4. PICK c : routes' = [routes EXCEPT ![gen.name] = c]
    BY <1>6, AppendedFunction
  <2>5. m # gen.name => routes'[m] = routes[m]
    BY <2>4 DEF TypeInv
  <2>6. lines[gen.name]["routes-register"] >= 1
    <3>1. Patches[7] = "routes-register"
      BY PatchAt
    <3> QED
      BY <1>a, <2>1, <3>1 DEF Running, Progress, Injected, Needed
  <2> QED
    BY <1>a, <1>b, <2>1, <2>3, <2>5, <2>6 DEF Goal
<1>7. ASSUME InsertForward PROVE Goal
  <2>1. /\ gen \in Run /\ gen' = [gen EXCEPT !.todo = Tail(gen.todo),
                                             !.at = IF Len(gen.todo) = 1 THEN 12 ELSE 11]
        /\ lines' = lines /\ routes' = routes
    BY <1>7, InsertedForward DEF InsertForward
  <2>2. gen'.at # 7
    BY <2>1 DEF Run
  <2>3. Pending(m)' = 0
    BY <2>2 DEF Pending
  <2> QED
    BY <1>c, <2>1, <2>3
<1>8. ASSUME Finish PROVE Goal
  BY <1>8, <1>c DEF Finish, tree, Pending
<1>9. ASSUME Die PROVE Goal
  BY <1>9, <1>c DEF Die, tree, Pending
<1>10. ASSUME NEW n \in Names, RemoveFiles(n) PROVE Goal
  BY <1>10, <1>c DEF RemoveFiles, Pending
<1>11. ASSUME NEW n \in Names, Wire(n) PROVE Goal
  BY <1>11, <1>c DEF Wire, tree, Pending
<1>12. ASSUME NEW n \in Names, NEW o \in yaml, HandMethod(n, o) PROVE Goal
  BY <1>12, <1>c DEF HandMethod, ByHand, Pending
<1>13. ASSUME NEW n \in Names, NEW o \in yaml, HandRoute(n, o) PROVE Goal
  <2>1. /\ routes[n] # <<>> /\ lines' = lines /\ gen' = gen
        /\ \E c : routes' = [routes EXCEPT ![n] = c]
    BY <1>13 DEF HandRoute, ByHand
  <2>2. routes'[m] # <<>> => routes[m] # <<>>
    BY <2>1 DEF TypeInv
  <2> QED
    BY <1>c, <2>1, <2>2 DEF Pending
<1>14. ASSUME NEW n \in Names, NEW o \in yaml, HandForward(n, o) PROVE Goal
  BY <1>14, <1>c DEF HandForward, ByHand, Pending
<1>15. ASSUME UNCHANGED vars PROVE Goal
  BY <1>15, <1>c DEF vars, Pending
<1>16. Goal
  BY <1>1, <1>2, <1>3, <1>4, <1>5, <1>6, <1>7, <1>8, <1>9, <1>10, <1>11, <1>12, <1>13,
     <1>14, <1>15 DEF Next, Developer, Generator
<1> QED
  BY <1>16 DEF Goal

-----------------------------------------------------------------------------
(* A run keeps what it has done.                                           *)

LEMMA CallsKept ==
  ASSUME TypeInv, NEW n \in Names, NEW m, Calls(n, m),
         routes' = routes \/ AppendRouterFunc
  PROVE  Calls(n, m)'
<1>1. CASE routes' = routes
  BY <1>1 DEF Calls
<1>2. CASE AppendRouterFunc
  <2>1. gen.name \in Names
    BY <1>2, RunType DEF AppendRouterFunc, Injecting
  <2>2. PICK c \in Seq(Call) : routes' = [routes EXCEPT ![gen.name] = Append(@, c)]
    BY <1>2, AppendedFunction
  <2>3. routes[n] \in Seq(Seq(Call)) /\ routes \in [Names -> Seq(Seq(Call))]
    BY DEF TypeInv
  <2>4. DOMAIN routes[n] = 1..Len(routes[n]) /\ Len(routes[n]) \in Nat
    BY <2>3, LenProperties
  <2>5. CASE n # gen.name
    BY <2>1, <2>2, <2>3, <2>5 DEF Calls
  <2>6. CASE n = gen.name
    <3>1. routes'[n] = Append(routes[n], c)
      BY <2>1, <2>2, <2>3, <2>6
    <3>2. DOMAIN routes'[n] = 1..(Len(routes[n]) + 1)
      BY <2>2, <2>3, <3>1, AppendProperties, LenProperties
    <3>3. \A i \in DOMAIN routes[n] : i \in DOMAIN routes'[n] /\ routes'[n][i] = routes[n][i]
      BY <2>2, <2>3, <2>4, <3>1, <3>2, AppendProperties
    <3> QED
      BY <3>3 DEF Calls
  <2> QED
    BY <2>5, <2>6
<1> QED
  BY <1>1, <1>2

LEMMA RunStarts ==
  ASSUME TypeInv, LineOrder, NEW n \in Names, NEW dto \in DtoModes, NewEndpoint(n, dto)
  PROVE  done' = Idle /\ Progress(gen)'
<1>1. PICK ops \in InOrder(Mine(n), ByRank) :
        gen' = [name |-> n, dto |-> dto, left |-> Layers \union TestFiles, at |-> 1,
                ops |-> ops, todo |-> ops,
                fresh |-> /\ \A s \in Lines : lines[n][s] = 0
                          /\ \A i \in DOMAIN forwards : forwards[i].name # n]
  BY DEF NewEndpoint
<1> DEFINE F == /\ \A s \in Lines : lines[n][s] = 0
                /\ \A i \in DOMAIN forwards : forwards[i].name # n
<1>2. /\ gen'.name = n /\ gen'.left = Layers \union TestFiles /\ gen'.at = 1
      /\ gen'.ops = ops /\ gen'.todo = ops /\ gen'.fresh = F
  BY <1>1
<1>3. ToSet(ops) = Mine(n) /\ ops \in [1..Cardinality(Mine(n)) -> Mine(n)]
  BY DEF InOrder
<1>4. Accepts(n) /\ UNCHANGED <<yaml, iface, lines, routes, forwards>> /\ done' = Idle
  BY DEF NewEndpoint, doc, tree
<1>5. Asked(gen)'
  BY <1>2, <1>3, <1>4 DEF Asked, Accepts, Mine
<1>6. Written(gen)'
  BY <1>2 DEF Written, Code, Layers
<1>7. Injected(gen)'
  BY <1>2 DEF Injected
<1>8. Assembled(gen)'
  BY <1>2 DEF Assembled
<1>9. Forwarded(gen)'
  <2>1. ops # <<>>
    <3>1. Mine(n) # {}
      BY <1>4 DEF Accepts
    <3>2. ToSet(<<>>) = {}
      BY DEF ToSet
    <3> QED
      BY <1>3, <3>1, <3>2
  <2> QED
    BY <1>2, <2>1 DEF Forwarded
<1>10. Untouched(gen)'
  <2>1. F => routes[n] = <<>>
    BY LineTypes, PatchNames DEF LineOrder
  <2> HIDE DEF F
  <2>2. gen'.fresh => routes'[gen'.name] = <<>>
    BY <1>2, <1>4, <2>1
  <2>3. ~(gen'.at > 8)
    BY <1>2
  <2> QED
    BY <2>2, <2>3 DEF Untouched
<1> QED
  BY <1>4, <1>5, <1>6, <1>7, <1>8, <1>9, <1>10 DEF Progress

LEMMA FileIsProgress ==
  ASSUME TypeInv, Progress(gen), NEW f \in Layers \union TestFiles, WriteFile(f)
  PROVE  Progress(gen)'
<1>1. /\ gen \in Run /\ gen.name \in Names /\ gen.at \in 1..12
      /\ gen' = [gen EXCEPT !.left = @ \ {f}] /\ f \in gen.left
      /\ UNCHANGED <<yaml, iface, lines, routes, forwards>>
  BY RunType DEF WriteFile, doc
<1>2. /\ gen'.name = gen.name /\ gen'.at = gen.at /\ gen'.ops = gen.ops
      /\ gen'.todo = gen.todo /\ gen'.fresh = gen.fresh /\ gen'.left = gen.left \ {f}
  BY <1>1 DEF Run
<1>3. gen.at = 1
  BY <1>1 DEF Progress, Written
<1>4. Asked(gen)'
  BY <1>1, <1>2 DEF Progress, Asked, Mine
<1>5. Written(gen)'
  <2>1. present'[gen.name] = present[gen.name] \union {f}
    BY <1>1 DEF WriteFile, TypeInv
  <2>2. ASSUME NEW layer \in Code \ gen'.left, NEW o \in ToSet(gen.ops)
        PROVE  \E e \in methods'[gen.name][layer] : e.method = DeriveMethod(o, gen.name)
    <3>1. CASE layer = f
      <4>1. methods' = [methods EXCEPT ![gen.name][f] = Rendered(f)]
        BY <3>1 DEF WriteFile
      <4>2. methods \in [Names -> [Code -> SUBSET Entry]]
        BY DEF TypeInv
      <4>3. methods'[gen.name][layer] = Rendered(f)
        BY <1>1, <3>1, <4>1, <4>2
      <4> DEFINE m == DeriveMethod(o, gen.name)
                 e == [op |-> o, method |-> m,
                       args |-> IF layer = "handler" THEN HandlerArgs(o, m, gen.dto)
                                                     ELSE ServiceArgs(o, m, gen.dto)]
      <4>4. e \in Rendered(f)
        BY <3>1 DEF Rendered
      <4>5. e.method = m
        OBVIOUS
      <4> QED
        BY <4>3, <4>4, <4>5
    <3>2. CASE layer # f
      <4>1. methods'[gen.name][layer] = methods[gen.name][layer]
        BY <1>1, <3>2 DEF WriteFile, TypeInv
      <4>2. DeriveMethod(o, gen.name) \in MethodsIn(gen.name, layer)
        BY <1>2, <3>2 DEF Progress, Written
      <4> QED
        BY <4>1, <4>2 DEF MethodsIn
    <3> QED
      BY <3>1, <3>2
  <2>3. (Layers \union TestFiles) \ gen'.left \subseteq present'[gen.name]
    BY <1>2, <2>1 DEF Progress, Written
  <2> QED
    BY <1>2, <1>3, <2>2, <2>3 DEF Written, MethodsIn
<1>6. Injected(gen)'
  BY <1>2, <1>3 DEF Injected
<1>7. Assembled(gen)'
  BY <1>2, <1>3 DEF Assembled
<1>8. Forwarded(gen)'
  BY <1>1, <1>2 DEF Progress, Forwarded
<1>9. Untouched(gen)'
  BY <1>1, <1>2, <1>3 DEF Progress, Untouched
<1> QED
  BY <1>4, <1>5, <1>6, <1>7, <1>8, <1>9 DEF Progress

LEMMA LineIsProgress ==
  ASSUME TypeInv, Progress(gen), InsertLine
  PROVE  Progress(gen)'
<1>1. /\ gen \in Run /\ gen.left = {} /\ gen.at \in 1..11 /\ gen.at \notin {8, 11}
      /\ gen' = [gen EXCEPT !.at = gen.at + 1] /\ gen.name \in Names
      /\ UNCHANGED <<yaml, iface, present, methods, routes, forwards>>
  BY InsertedLine, RunType DEF InsertLine, doc
<1>2. /\ gen'.name = gen.name /\ gen'.at = gen.at + 1 /\ gen'.ops = gen.ops
      /\ gen'.todo = gen.todo /\ gen'.fresh = gen.fresh /\ gen'.left = gen.left
  BY <1>1 DEF Run
<1>3. Asked(gen)'
  BY <1>1, <1>2 DEF Progress, Asked, Mine
<1>4. Written(gen)'
  BY <1>1, <1>2 DEF Progress, Written, MethodsIn
<1>5. Injected(gen)'
  <2> SUFFICES ASSUME NEW k \in 1..11, k < gen.at + 1, Patches[k] \in Needed
               PROVE  lines'[gen.name][Patches[k]] >= 1
    BY <1>2 DEF Injected
  <2>0. Patches[k] \in Lines /\ Patches[k] # "test-deps"
    BY DEF Needed
  <2>1. lines[gen.name][Patches[k]] \in Nat
    BY <1>1, <2>0, LineTypes
  <2>2. lines'[gen.name][Patches[k]] = IF Patches[k] = Patches[gen.at]
                                       THEN lines[gen.name][Patches[k]] + 1
                                       ELSE lines[gen.name][Patches[k]]
    BY <1>1, <2>0, InsertedLine
  <2>3. k < gen.at => lines[gen.name][Patches[k]] >= 1
    BY DEF Progress, Injected
  <2>4. k = gen.at \/ k < gen.at
    BY <1>1
  <2> QED
    BY <2>1, <2>2, <2>3, <2>4
<1>6. Assembled(gen)'
  <2>1. gen'.at > 8 => gen.at > 8
    BY <1>1, <1>2
  <2> QED
    BY <1>1, <1>2, <2>1 DEF Progress, Assembled, Calls
<1>7. Forwarded(gen)'
  <2>1. gen'.at <= 11 /\ gen.at <= 11
    BY <1>1, <1>2
  <2> QED
    BY <1>1, <1>2, <2>1 DEF Progress, Forwarded
<1>8. Untouched(gen)'
  <2>1. (gen'.at <= 8 => gen.at <= 8) /\ (gen'.at > 8 => gen.at > 8)
    BY <1>1, <1>2
  <2>2. \A s : Routes(s, gen)' = Routes(s, gen)
    BY <1>2 DEF Routes
  <2> QED
    BY <1>1, <1>2, <2>1, <2>2 DEF Progress, Untouched
<1> QED
  BY <1>3, <1>4, <1>5, <1>6, <1>7, <1>8 DEF Progress

LEMMA FunctionIsProgress ==
  ASSUME TypeInv, Progress(gen), AppendRouterFunc
  PROVE  Progress(gen)'
<1>1. /\ gen \in Run /\ gen.left = {} /\ gen.at = 8 /\ gen' = [gen EXCEPT !.at = 9]
      /\ gen.name \in Names
      /\ UNCHANGED <<yaml, iface, present, methods, lines, forwards>>
  BY AppendedFunction, RunType DEF AppendRouterFunc, doc
<1>2. /\ gen'.name = gen.name /\ gen'.at = 9 /\ gen'.ops = gen.ops
      /\ gen'.todo = gen.todo /\ gen'.fresh = gen.fresh /\ gen'.left = gen.left
  BY <1>1 DEF Run
<1>3. Asked(gen)'
  BY <1>1, <1>2 DEF Progress, Asked, Mine
<1>4. Written(gen)'
  BY <1>1, <1>2 DEF Progress, Written, MethodsIn
<1>5. Injected(gen)'
  <2>1. \A k \in 1..11 : k < 9 /\ Patches[k] \in Needed => k < 8
    BY PatchAt DEF Needed
  <2> QED
    BY <1>1, <1>2, <2>1 DEF Progress, Injected
<1>6. PICK s \in InOrder(ToSet(gen.ops), PublicFirst) :
        /\ Routes(s, gen) \in Seq(Call)
        /\ routes' = [routes EXCEPT ![gen.name] = Append(@, Routes(s, gen))]
  BY AppendedFunction
<1>7. routes[gen.name] \in Seq(Seq(Call)) /\ routes'[gen.name] = Append(routes[gen.name], Routes(s, gen))
  BY <1>1, <1>6 DEF TypeInv
<1>8. Assembled(gen)'
  <2> SUFFICES ASSUME NEW o \in ToSet(gen.ops)
               PROVE  Calls(gen.name, DeriveMethod(o, gen.name))'
    BY <1>2 DEF Assembled
  <2> DEFINE i == Len(routes[gen.name]) + 1
  <2>1. i \in DOMAIN routes'[gen.name] /\ routes'[gen.name][i] = Routes(s, gen)
    BY <1>6, <1>7, AppendProperties, LenProperties
  <2>2. PICK k \in DOMAIN s : s[k] = o
    BY DEF InOrder, ToSet
  <2>3. k \in DOMAIN Routes(s, gen) /\ Routes(s, gen)[k].handler = DeriveMethod(o, gen.name)
    BY <2>2 DEF Routes, RouteOf
  <2> QED
    BY <1>2, <2>1, <2>3 DEF Calls
<1>9. Forwarded(gen)'
  BY <1>1, <1>2 DEF Progress, Forwarded
<1>10. Untouched(gen)'
  <2>1. gen.fresh => routes[gen.name] = <<>>
    BY <1>1 DEF Progress, Untouched
  <2>2. Append(<<>>, Routes(s, gen)) = <<Routes(s, gen)>>
    OBVIOUS
  <2>3. Routes(s, gen)' = Routes(s, gen)
    BY <1>2 DEF Routes
  <2>4. gen.fresh => routes'[gen.name] = <<Routes(s, gen)>>
    BY <1>7, <2>1, <2>2
  <2> QED
    BY <1>2, <2>3, <2>4 DEF Untouched
<1> QED
  BY <1>3, <1>4, <1>5, <1>8, <1>9, <1>10 DEF Progress

LEMMA ForwardIsProgress ==
  ASSUME TypeInv, Running, InsertForward
  PROVE  Progress(gen)'
<1>1. /\ gen \in Run /\ gen # Idle /\ gen.left = {} /\ gen.at = 11
      /\ gen.todo \in Seq(Ops) /\ gen.todo # <<>>
      /\ gen' = [gen EXCEPT !.todo = Tail(gen.todo),
                            !.at = IF Len(gen.todo) = 1 THEN 12 ELSE 11]
      /\ UNCHANGED <<yaml, iface, present, methods, lines, routes>>
  BY InsertedForward DEF InsertForward, doc
<1>2. /\ gen'.name = gen.name /\ gen'.ops = gen.ops /\ gen'.todo = Tail(gen.todo)
      /\ gen'.fresh = gen.fresh /\ gen'.left = gen.left
      /\ gen'.at = IF Len(gen.todo) = 1 THEN 12 ELSE 11
  BY <1>1 DEF Run
<1>p. Progress(gen)
  BY <1>1 DEF Running
<1>3. Asked(gen)'
  BY <1>1, <1>2, <1>p DEF Progress, Asked, Mine
<1>4. Written(gen)'
  BY <1>1, <1>2, <1>p DEF Progress, Written, MethodsIn
<1>5. Injected(gen)'
  <2>1. \A k \in 1..11 : k < gen'.at /\ Patches[k] \in Needed => k < 11
    BY <1>2, PatchAt DEF Needed
  <2> QED
    BY <1>1, <1>2, <1>p, <2>1 DEF Progress, Injected
<1>6. Assembled(gen)'
  BY <1>1, <1>2, <1>p DEF Progress, Assembled, Calls
<1>7. PICK f \in Forward : forwards' = Append(forwards, f) /\ f.iface = Iface[Head(gen.todo)]
  BY InsertedForward
<1>8. Forwarded(gen)'
  <2>1. /\ ToSet(Tail(gen.todo)) \subseteq ToSet(gen.todo)
        /\ ToSet(gen.todo) \subseteq ToSet(Tail(gen.todo)) \union {Head(gen.todo)}
        /\ Tail(gen.todo) = <<>> <=> Len(gen.todo) = 1
    BY <1>1, TailSet
  <2>2. ToSet(forwards') = ToSet(forwards) \union {f}
    BY <1>7, AppendedSet DEF TypeInv
  <2>3. gen'.at <= 11 <=> gen'.todo # <<>>
    BY <1>2, <2>1
  <2>4. ToSet(gen.todo) \subseteq ToSet(gen.ops)
    BY <1>p DEF Progress, Forwarded
  <2>5. ASSUME NEW o \in ToSet(gen.ops) \ ToSet(Tail(gen.todo))
        PROVE  \E h \in ToSet(forwards') : h.iface = Iface[o]
    <3>1. CASE o = Head(gen.todo)
      BY <1>7, <2>2, <3>1
    <3>2. CASE o # Head(gen.todo)
      BY <1>p, <2>1, <2>2, <3>2 DEF Progress, Forwarded
    <3> QED
      BY <3>1, <3>2
  <2> QED
    BY <1>2, <2>1, <2>3, <2>4, <2>5 DEF Forwarded
<1>9. Untouched(gen)'
  <2>1. gen'.at > 8 /\ gen.at > 8 /\ ~(gen'.at <= 8)
    BY <1>1, <1>2
  <2>2. \A s : Routes(s, gen)' = Routes(s, gen)
    BY <1>2 DEF Routes
  <2> QED
    BY <1>1, <1>2, <1>p, <2>1, <2>2 DEF Progress, Untouched
<1> QED
  BY <1>3, <1>4, <1>5, <1>6, <1>8, <1>9 DEF Progress

-----------------------------------------------------------------------------
(* The inductive invariant.                                                *)

(* A run has come as far as it had while what it wrote is left alone,       *)
(* whether it is still under way or has just finished.                      *)
LEMMA ProgressOf ==
  ASSUME NEW g,
         UNCHANGED <<yaml, iface, present, methods, lines, routes, forwards>>
  PROVE  /\ gen' = g => Progress(gen)' = Progress(g)
         /\ done' = g => Progress(done)' = Progress(g)
         /\ done' = g => FilesParse(done.name)' = FilesParse(g.name)
<1>1. ASSUME gen' = g PROVE Progress(gen)' = Progress(g)
  <2>1. Asked(gen)' = Asked(g)
    BY <1>1 DEF Asked, Mine
  <2>2. Written(gen)' = Written(g)
    BY <1>1 DEF Written, MethodsIn
  <2>3. Injected(gen)' = Injected(g)
    BY <1>1 DEF Injected
  <2>4. Assembled(gen)' = Assembled(g)
    BY <1>1 DEF Assembled, Calls
  <2>5. Forwarded(gen)' = Forwarded(g)
    BY <1>1 DEF Forwarded
  <2>6. Untouched(gen)' = Untouched(g)
    BY <1>1 DEF Untouched, Routes
  <2> QED
    BY <2>1, <2>2, <2>3, <2>4, <2>5, <2>6, Zenon DEF Progress
<1>2. ASSUME done' = g PROVE Progress(done)' = Progress(g)
  <2>1. Asked(done)' = Asked(g)
    BY <1>2 DEF Asked, Mine
  <2>2. Written(done)' = Written(g)
    BY <1>2 DEF Written, MethodsIn
  <2>3. Injected(done)' = Injected(g)
    BY <1>2 DEF Injected
  <2>4. Assembled(done)' = Assembled(g)
    BY <1>2 DEF Assembled, Calls
  <2>5. Forwarded(done)' = Forwarded(g)
    BY <1>2 DEF Forwarded
  <2>6. Untouched(done)' = Untouched(g)
    BY <1>2 DEF Untouched, Routes
  <2> QED
    BY <2>1, <2>2, <2>3, <2>4, <2>5, <2>6, Zenon DEF Progress
<1>3. done' = g => FilesParse(done.name)' = FilesParse(g.name)
  BY DEF FilesParse
<1> QED
  BY <1>1, <1>2, <1>3

LEMMA RunningStep ==
  ASSUME TypeInv, LineOrder, Running, [Next]_vars
  PROVE  Running'
<1>1. CASE gen' = Idle
  BY <1>1 DEF Running
<1>2. CASE gen' = gen /\ gen' # Idle /\ UNCHANGED vars
  <2>1. UNCHANGED <<yaml, iface, present, methods, lines, routes, forwards, gen, done>>
    BY <1>2 DEF vars
  <2>2. Progress(gen) /\ done' = Idle
    BY <1>2, <2>1 DEF Running
  <2>3. Progress(gen)'
    BY <2>1, <2>2, ProgressOf, Zenon
  <2> QED
    BY <2>2, <2>3 DEF Running
<1>3. ASSUME NEW n \in Names, NEW dto \in DtoModes, NewEndpoint(n, dto) PROVE Running'
  BY <1>3, RunStarts DEF Running
<1>4. ASSUME NEW f \in Layers \union TestFiles, WriteFile(f) PROVE Running'
  BY <1>4, FileIsProgress DEF Running, WriteFile
<1>5. ASSUME InsertLine PROVE Running'
  BY <1>5, LineIsProgress DEF Running, InsertLine, Injecting
<1>6. ASSUME AppendRouterFunc PROVE Running'
  BY <1>6, FunctionIsProgress DEF Running, AppendRouterFunc, Injecting
<1>7. ASSUME InsertForward PROVE Running'
  BY <1>7, ForwardIsProgress DEF Running, InsertForward, Injecting
<1>8. Finish \/ Die => gen' = Idle
  BY DEF Finish, Die
<1>9. EditYaml \/ MakeOapi => gen' = Idle
  BY DEF EditYaml, MakeOapi
<1>10. ASSUME NEW n \in Names, RemoveFiles(n) \/ Wire(n) PROVE gen' = Idle
  BY <1>10 DEF RemoveFiles, Wire
<1>11. ASSUME NEW n \in Names, NEW o \in yaml,
              HandMethod(n, o) \/ HandRoute(n, o) \/ HandForward(n, o)
       PROVE  gen' = Idle
  BY <1>11 DEF HandMethod, HandRoute, HandForward, ByHand
<1> QED
  BY <1>1, <1>2, <1>3, <1>4, <1>5, <1>6, <1>7, <1>8, <1>9, <1>10, <1>11
     DEF Next, Developer, Generator, vars

LEMMA FinishedStep ==
  ASSUME TypeInv, Running, Finished, [Next]_vars
  PROVE  Finished'
<1>1. CASE done' = Idle
  BY <1>1 DEF Finished
<1>2. ASSUME UNCHANGED vars, done' # Idle PROVE Finished'
  <2>1. UNCHANGED <<yaml, iface, present, methods, lines, routes, forwards, gen, done>>
    BY <1>2 DEF vars
  <2>2. gen = Idle /\ done.at = 12 /\ Progress(done) /\ FilesParse(done.name)
    BY <1>2, <2>1 DEF Finished
  <2>3. Progress(done)' /\ FilesParse(done.name)'
    BY <2>1, <2>2, ProgressOf, Zenon
  <2> QED
    BY <2>1, <2>2, <2>3 DEF Finished
<1>3. ASSUME Finish PROVE Finished'
  <2>1. /\ gen # Idle /\ gen.at > 11 /\ done' = gen /\ gen' = Idle /\ FilesParse(gen.name)
        /\ UNCHANGED <<yaml, iface, present, methods, lines, routes, forwards>>
    BY <1>3, PatchNames DEF Finish, doc, tree
  <2>2. gen.at = 12
    BY <2>1, RunType
  <2>3. Progress(gen)
    BY <2>1 DEF Running
  <2>4. Progress(done)' /\ FilesParse(done.name)'
    BY <2>1, <2>3, ProgressOf, Zenon
  <2> QED
    BY <2>1, <2>2, <2>4 DEF Finished
<1>4. ASSUME gen # Idle, done' = done PROVE done' = Idle
  BY <1>4 DEF Running
<1>5. ASSUME NEW f \in Layers \union TestFiles, WriteFile(f) PROVE done' = Idle
  BY <1>4, <1>5 DEF WriteFile
<1>6. InsertLine \/ AppendRouterFunc \/ InsertForward \/ Die => done' = Idle
  BY <1>4 DEF InsertLine, AppendRouterFunc, InsertForward, Die, Injecting
<1>7. EditYaml \/ MakeOapi => done' = Idle
  BY DEF EditYaml, MakeOapi
<1>8. ASSUME NEW n \in Names,
             \/ RemoveFiles(n) \/ Wire(n) \/ \E dto \in DtoModes : NewEndpoint(n, dto)
      PROVE  done' = Idle
  BY <1>8 DEF RemoveFiles, Wire, NewEndpoint
<1>9. ASSUME NEW n \in Names, NEW o \in yaml,
             HandMethod(n, o) \/ HandRoute(n, o) \/ HandForward(n, o)
      PROVE  done' = Idle
  BY <1>9 DEF HandMethod, HandRoute, HandForward, ByHand
<1> QED
  BY <1>1, <1>2, <1>3, <1>5, <1>6, <1>7, <1>8, <1>9 DEF Next, Developer, Generator

LEMMA ForwardNames ==
  ASSUME TypeInv, NEW f \in ToSet(forwards)
  PROVE  f.name \in Names
<1>1. f \in Forward
  BY SeqElements DEF TypeInv
<1> QED
  BY <1>1 DEF Forward

LEMMA ForwardsLastStep ==
  ASSUME TypeInv, Running, ForwardsLast, [Next]_vars
  PROVE  ForwardsLast'
<1> DEFINE Behind(f) == /\ \A s \in Needed : lines[f.name][s] >= 1
                        /\ Calls(f.name, f.method)
<1>1. CASE hand' # 0
  BY <1>1 DEF ForwardsLast
<1>2. hand = 0 => \A f \in ToSet(forwards) : f.name \in Names /\ Behind(f)
  BY ForwardNames DEF ForwardsLast
<1>3. ASSUME hand' = hand, hand = 0, UNCHANGED <<lines, routes, forwards>> PROVE ForwardsLast'
  BY <1>3 DEF ForwardsLast, Calls
<1>4. ASSUME InsertLine, hand = 0 PROVE ForwardsLast'
  <2>1. UNCHANGED <<routes, forwards>>
    BY <1>4 DEF InsertLine
  <2>2. \A m \in Names, t \in Lines :
          /\ lines[m][t] \in Nat
          /\ lines'[m][t] = lines[m][t] \/ lines'[m][t] = lines[m][t] + 1
    BY <1>4, InsertedLine, LineTypes
  <2>3. \A f \in ToSet(forwards) : \A s \in Needed : lines'[f.name][s] >= 1
    BY <1>2, <1>4, <2>2 DEF Needed
  <2>4. \A f \in ToSet(forwards) : Calls(f.name, f.method)'
    BY <1>2, <1>4, <2>1 DEF Calls
  <2> QED
    BY <2>1, <2>3, <2>4 DEF ForwardsLast
<1>5. ASSUME AppendRouterFunc, hand = 0 PROVE ForwardsLast'
  <2>1. UNCHANGED <<lines, forwards>>
    BY <1>5 DEF AppendRouterFunc
  <2>2. \A f \in ToSet(forwards) : Calls(f.name, f.method)'
    BY <1>2, <1>5, CallsKept
  <2> QED
    BY <1>2, <1>5, <2>1, <2>2 DEF ForwardsLast
<1>6. ASSUME InsertForward, hand = 0 PROVE ForwardsLast'
  <2>1. UNCHANGED <<lines, routes>> /\ gen \in Run /\ gen # Idle /\ gen.at = 11
    BY <1>6, InsertedForward DEF InsertForward
  <2>2. PICK f \in Forward :
          /\ forwards' = Append(forwards, f) /\ f.name = gen.name
          /\ f.method = DeriveMethod(Head(gen.todo), gen.name)
    BY <1>6, InsertedForward
  <2>3. ToSet(forwards') = ToSet(forwards) \union {f}
    BY <2>2, AppendedSet DEF TypeInv
  <2>4. \A s \in Needed : lines[gen.name][s] >= 1
    <3>1. \A k \in 1..11 : Patches[k] \in Needed => k < 11
      BY PatchAt DEF Needed
    <3>2. \A k \in 1..11 : Patches[k] \in Needed => lines[gen.name][Patches[k]] >= 1
      BY <2>1, <3>1 DEF Running, Progress, Injected
    <3> QED
      BY <3>2, AllInjected
  <2>5. Calls(gen.name, f.method)
    <3>1. gen.todo \in Seq(Ops) /\ gen.todo # <<>>
      BY <1>6, InsertedForward
    <3>2. Head(gen.todo) \in ToSet(gen.ops)
      BY <2>1, <3>1, TailSet DEF Running, Progress, Forwarded
    <3> QED
      BY <2>1, <2>2, <3>2 DEF Running, Progress, Assembled
  <2>6. \A h \in ToSet(forwards') : Behind(h)
    BY <1>2, <1>6, <2>2, <2>3, <2>4, <2>5
  <2>7. \A m, n : Calls(n, m)' = Calls(n, m)
    BY <2>1 DEF Calls
  <2> QED
    BY <2>1, <2>6, <2>7 DEF ForwardsLast
<1>7. ASSUME NEW n \in Names, NEW o \in yaml,
             HandMethod(n, o) \/ HandRoute(n, o) \/ HandForward(n, o)
      PROVE  hand' # 0
  <2>1. hand \in Nat
    BY DEF TypeInv
  <2>2. hand' = hand + 1
    BY <1>7 DEF HandMethod, HandRoute, HandForward, ByHand
  <2> QED
    BY <2>1, <2>2
<1>8. EditYaml \/ MakeOapi \/ Finish \/ Die \/ UNCHANGED vars
        => hand' = hand /\ UNCHANGED <<lines, routes, forwards>>
  BY DEF EditYaml, MakeOapi, Finish, Die, tree, vars
<1>9. ASSUME NEW n \in Names,
             \/ RemoveFiles(n) \/ Wire(n) \/ \E dto \in DtoModes : NewEndpoint(n, dto)
      PROVE  hand' = hand /\ UNCHANGED <<lines, routes, forwards>>
  BY <1>9 DEF RemoveFiles, Wire, NewEndpoint, tree
<1>10. ASSUME NEW f \in Layers \union TestFiles, WriteFile(f)
       PROVE  hand' = hand /\ UNCHANGED <<lines, routes, forwards>>
  BY <1>10 DEF WriteFile
<1>11. InsertLine \/ AppendRouterFunc \/ InsertForward => hand' = hand
  BY DEF InsertLine, AppendRouterFunc, InsertForward
<1> QED
  BY <1>1, <1>3, <1>4, <1>5, <1>6, <1>7, <1>8, <1>9, <1>10, <1>11
     DEF Next, Developer, Generator

(* Spec => []IInv: everything the three invariants follow from.            *)
THEOREM ScaffoldInvariant == Spec => []IInv
<1>1. Init => IInv
  <2> SUFFICES ASSUME Init PROVE IInv
    OBVIOUS
  <2>1. TypeInv
    BY TypeInit
  <2>2. LineOrder
    BY PatchNames DEF Init, LineOrder, Pending
  <2>3. Running /\ Finished
    BY DEF Init, Running, Finished
  <2>4. ForwardsLast
    BY DEF Init, ForwardsLast, ToSet
  <2> QED
    BY <2>1, <2>2, <2>3, <2>4 DEF IInv
<1>2. IInv /\ [Next]_vars => IInv'
  <2> SUFFICES ASSUME IInv, [Next]_vars PROVE IInv'
    OBVIOUS
  <2>1. TypeInv' /\ LineOrder' /\ Running' /\ Finished' /\ ForwardsLast'
    BY TypeStep, LineOrderStep, RunningStep, FinishedStep, ForwardsLastStep DEF IInv
  <2> QED
    BY <2>1 DEF IInv
<1> QED
  BY <1>1, <1>2, PTL DEF Spec

-----------------------------------------------------------------------------
(* What the compiler's verdict is worth.                                   *)

LEMMA BuildMeansCompleteStep == IInv => BuildMeansComplete
<1> SUFFICES ASSUME IInv, hand = 0, Builds, NEW o \in iface
             PROVE  \E f \in ToSet(forwards) :
                      /\ f.iface = Iface[o]
                      /\ \A layer \in Code : f.method \in MethodsIn(f.name, layer)
                      /\ \A s \in Lines \ {"test-deps"} : lines[f.name][s] = 1
                      /\ routes[f.name] # <<>>
                      /\ \E r \in ToSet(routes[f.name][1]) : r.handler = f.method
  BY DEF BuildMeansComplete
<1>1. PICK f \in ToSet(forwards) : f.iface = Iface[o]
  BY DEF Builds, ForwardsBuild
<1> DEFINE n == f.name
<1>2. n \in Names
  BY ForwardNames DEF IInv
<1>3. /\ \A s \in Needed : lines[n][s] >= 1
      /\ Calls(n, f.method)
  BY DEF IInv, ForwardsLast
<1>4. f.method \in MethodsIn(n, "handler")
  BY DEF Builds, ForwardsBuild
<1>5. FilesBuild(n) /\ LinesBuild(n)
  BY <1>2 DEF Builds
<1>6. \A s \in Lines : lines[n][s] \in Nat
  BY <1>2, LineTypes DEF IInv
<1>7. f.method \in MethodsIn(n, "service")
  <2>1. "handler" \in present[n]
    <3>1. lines[n]["apiserver-fields"] > 0
      BY <1>3, <1>6, PatchNames DEF Needed
    <3> QED
      BY <1>5, <3>1 DEF LinesBuild
  <2>2. PICK e \in methods[n]["handler"] : e.method = f.method
    BY <1>4 DEF MethodsIn
  <2> QED
    BY <1>5, <2>1, <2>2 DEF FilesBuild, MethodsIn
<1>8. \A s \in Needed : lines[n][s] = 1
  <2>1. \A s \in Lines : lines[n][s] <= 1 \/ s = "routes-register"
    BY <1>5 DEF LinesBuild
  <2>2. lines[n]["routes-register"] <= lines[n]["deps-fields"]
    <3>1. /\ lines[n]["routes-register"] + Pending(n) <= lines[n]["deps-fields"]
          /\ Pending(n) \in {0, 1}
      BY <1>2 DEF IInv, LineOrder, Pending
    <3>2. lines[n]["routes-register"] \in Nat /\ lines[n]["deps-fields"] \in Nat
      BY <1>6, PatchNames
    <3> QED
      BY <3>1, <3>2
  <2> QED
    BY <1>3, <1>6, <2>1, <2>2, PatchNames DEF Needed
<1>9. routes[n] # <<>> /\ \E r \in ToSet(routes[n][1]) : r.handler = f.method
  <2>1. routes[n] \in Seq(Seq(Call)) /\ Len(routes[n]) <= 1
    BY <1>2, <1>5 DEF IInv, TypeInv, LinesBuild
  <2>2. PICK i \in DOMAIN routes[n] : \E k \in DOMAIN routes[n][i] : routes[n][i][k].handler = f.method
    BY <1>3 DEF Calls
  <2>3. i \in 1..Len(routes[n]) /\ Len(routes[n]) \in Nat
    BY <2>1, LenProperties
  <2>4. i = 1 /\ routes[n] # <<>>
    BY <2>1, <2>3, EmptySeq
  <2> QED
    BY <2>2, <2>4 DEF ToSet
<1> QED
  BY <1>1, <1>4, <1>7, <1>8, <1>9 DEF Code, Needed

(* As long as nobody edits the generated code: a tree that compiles has    *)
(* everything an operation of the interface needs, after any number of     *)
(* edits, runs and deaths (BuildMeansComplete).                            *)
THEOREM BuiltIsComplete == Spec => []BuildMeansComplete
BY ScaffoldInvariant, BuildMeansCompleteStep, PTL

-----------------------------------------------------------------------------
(* What the detector finds after a first run.                              *)

(* Where the generator finds a method, the detector finds the same.        *)
LEMMA SameMethod ==
  ASSUME NEW o, NEW n, DeriveMethod(o, n) # None
  PROVE  CheckMethod(o, n) = DeriveMethod(o, n)
<1> DEFINE x == Doc[o].xMethod
           cut == Doc[o].cut[n]
<1>1. None \notin Methods
  BY NamingAssumption DEF NamingAssumption
<1>2. CASE x \in Methods
  BY <1>1, <1>2 DEF DeriveMethod, CheckMethod
<1>3. CASE x \notin Methods /\ x = None /\ cut.plural \in Methods
  BY <1>3 DEF DeriveMethod, CheckMethod
<1>4. CASE x \notin Methods /\ x = None /\ cut.plural \notin Methods
  BY <1>4 DEF DeriveMethod, CheckMethod
<1>5. CASE x \notin Methods /\ x # None
  BY <1>5 DEF DeriveMethod, CheckMethod
<1> QED
  BY <1>2, <1>3, <1>4, <1>5

(* An order has no operation twice.                                        *)
LEMMA OrderInjective ==
  ASSUME NEW O \in SUBSET Ops, NEW s \in InOrder(O, PublicFirst),
         NEW i \in DOMAIN s, NEW j \in DOMAIN s, s[i] = s[j]
  PROVE  i = j
<1>1. s \in [1..Cardinality(O) -> O]
      /\ \A k, l \in DOMAIN s : k < l => PublicFirst(s[k], s[l])
  BY DEF InOrder
<1>2. DOMAIN s = 1..Len(s) /\ Len(s) \in Nat
  BY <1>1, OrderedSeq
<1>3. s[i] \in Ops
  BY <1>1
<1>4. ~PublicFirst(s[i], s[i])
  <2>1. Rank[s[i]] \in Int
    BY <1>3, ScaffoldAssumption DEF ScaffoldAssumption
  <2>2. ~ByRank(s[i], s[i])
    BY <2>1 DEF ByRank
  <2> QED
    BY <2>2, Zenon DEF PublicFirst
<1> QED
  BY <1>1, <1>2, <1>4

LEMMA GeneratedIsCleanStep == IInv => GeneratedIsClean
<1> DEFINE n == done.name
           collected == \A o \in OpsOf(n) : Doc[o].verb \in Collected
<1> SUFFICES ASSUME IInv, done # Idle, done.fresh,
                    \A o \in yaml : BelongsTo(o, n) <=> Owner(o, Known) = n,
                    \A o, p \in OpsOf(n) : CheckMethod(o, n) = CheckMethod(p, n) => o = p
             PROVE  Clean(n) <=> HasFixture(n) /\ collected
  BY DEF GeneratedIsClean
<1>1. /\ gen = Idle /\ done.at = 12 /\ Progress(done) /\ FilesParse(n)
      /\ done \in Run
  BY DEF IInv, TypeInv, Finished
<1>2. n \in Names /\ done.ops \in Seq(Ops) /\ ToSet(done.ops) \in SUBSET Ops
  BY <1>1, SeqElements DEF Run
<1>3. ToSet(done.ops) = OpsOf(n) /\ OpsOf(n) # {}
  BY <1>1 DEF Progress, Asked, Mine, OpsOf
<1>4. \A o \in OpsOf(n) : /\ DeriveMethod(o, n) # None
                          /\ CheckMethod(o, n) = DeriveMethod(o, n)
  BY <1>1, <1>3, SameMethod DEF Progress, Asked
<1>5. done.left = {} /\ Code \subseteq present[n]
  BY <1>1 DEF Progress, Written, Code, Layers
<1>6. PICK s \in InOrder(OpsOf(n), PublicFirst) : routes[n] = <<Routes(s, done)>>
  BY <1>1, <1>3 DEF Progress, Untouched
<1>7. /\ routes[n] # <<>> /\ Body(n) = Routes(s, done)
      /\ DOMAIN Body(n) = DOMAIN s
      /\ \A i \in DOMAIN s : Body(n)[i] = RouteOf(s[i], OpsOf(n), n)
  BY <1>3, <1>6 DEF Body, Routes
<1>8. ToSet(s) = OpsOf(n)
  BY DEF InOrder
<1>9. DOMAIN s \subseteq Nat /\ \A i \in DOMAIN s : s[i] \in OpsOf(n)
  <2>1. s \in [1..Cardinality(OpsOf(n)) -> OpsOf(n)]
    BY DEF InOrder
  <2>2. OpsOf(n) \in SUBSET Ops
    BY <1>2, <1>3
  <2>3. DOMAIN s = 1..Len(s) /\ Len(s) \in Nat
    BY <2>1, <2>2, OrderedSeq
  <2>4. DOMAIN s \subseteq Nat
    BY <2>3
  <2>5. \A i \in DOMAIN s : s[i] \in OpsOf(n)
    BY <2>1
  <2> QED
    BY <2>4, <2>5
<1>10. ASSUME collected, NEW o \in OpsOf(n)
       PROVE  /\ \A layer \in Code : CheckMethod(o, n) \in MethodsIn(n, layer)
              /\ RouteAgrees(o, n)
              /\ \E f \in ToSet(forwards) : f.iface = Iface[o]
  <2>1. \A layer \in Code : CheckMethod(o, n) \in MethodsIn(n, layer)
    BY <1>1, <1>3, <1>4, <1>5 DEF Progress, Written
  <2>2. PICK i \in DOMAIN s : s[i] = o
    BY <1>8 DEF ToSet
  <2>3. /\ Body(n)[i].verb = Doc[o].verb
        /\ Body(n)[i].path = RoutePath(o, OpsOf(n))
        /\ Body(n)[i].handler = CheckMethod(o, n)
        /\ Body(n)[i].way.inAuth = RequiresAuth(o)
    BY <1>4, <1>7, <2>2 DEF RouteOf, Generated
  <2>4. ASSUME NEW j \in CallsOf(o, n) PROVE j = i
    <3>1. j \in DOMAIN s /\ Body(n)[j].handler = CheckMethod(o, n)
      BY <1>7 DEF CallsOf, RegisteredRoutes
    <3>2. CheckMethod(s[j], n) = CheckMethod(o, n)
      BY <1>4, <1>7, <1>9, <3>1 DEF RouteOf
    <3>3. s[j] = s[i]
      BY <1>9, <2>2, <3>1, <3>2
    <3> QED
      BY <1>2, <1>3, <2>2, <3>1, <3>3, OrderInjective
  <2>5. i \in RegisteredRoutes(n)
    BY <1>7, <1>10, <2>2, <2>3 DEF RegisteredRoutes
  <2>6. IsCallOf(i, o, n)
    BY <1>9, <2>2, <2>3, <2>4, <2>5 DEF IsCallOf, CallsOf
  <2>7. RouteAgrees(o, n)
    BY <2>3, <2>5, <2>6 DEF RouteAgrees, AuthAgrees
  <2>8. \E f \in ToSet(forwards) : f.iface = Iface[o]
    <3>1. done.todo = <<>>
      BY <1>1 DEF Progress, Forwarded
    <3>2. ToSet(done.todo) = {}
      BY <3>1 DEF ToSet
    <3> QED
      BY <1>1, <1>3, <3>2 DEF Progress, Forwarded
  <2> QED
    BY <2>1, <2>7, <2>8
<1>11. \A i \in RegisteredRoutes(n) : \E o \in OpsOf(n) : CheckMethod(o, n) = Body(n)[i].handler
  BY <1>4, <1>7, <1>9 DEF RouteOf, RegisteredRoutes
<1>12. HasField(n)
  <2>1. \A k \in 1..11 : Patches[k] \in Needed => lines[n][Patches[k]] >= 1
    BY <1>1 DEF Progress, Injected
  <2>2. \A t \in Needed : lines[n][t] >= 1
    BY <2>1, AllInjected
  <2>3. "handlers-fields" \in Needed /\ lines[n]["handlers-fields"] \in Nat
    BY <1>2, LineTypes, PatchNames DEF IInv, Needed
  <2> QED
    BY <2>2, <2>3 DEF HasField
<1>13. ASSUME HasFixture(n), collected PROVE Clean(n)
  <2>1. RegisteredRoutes(n) # {}
    <3>1. PICK o \in OpsOf(n) : TRUE
      BY <1>3
    <3> QED
      BY <1>10, <1>13, <3>1 DEF RouteAgrees
  <2> QED
    BY <1>1, <1>2, <1>5, <1>7, <1>10, <1>11, <1>12, <1>13, <2>1 DEF Clean
<1>14. ASSUME Clean(n) PROVE HasFixture(n) /\ collected
  <2>1. ASSUME NEW o \in OpsOf(n) PROVE Doc[o].verb \in Collected
    <3>1. RouteAgrees(o, n)
      BY <1>4, <1>14 DEF Clean
    <3> QED
      BY <3>1 DEF RouteAgrees, IsCallOf, CallsOf, RegisteredRoutes
  <2> QED
    BY <1>14, <2>1 DEF Clean
<1> QED
  BY <1>13, <1>14

(* The two programs with two copies of the naming rules agree: after a     *)
(* first run the detector reports nothing but a fixture that was left out  *)
(* and the verbs it does not collect (GeneratedIsClean).                   *)
THEOREM FirstRunIsClean == Spec => []GeneratedIsClean
BY ScaffoldInvariant, GeneratedIsCleanStep, PTL

-----------------------------------------------------------------------------
(* The path of a route.                                                    *)

LEMMA LeastOf ==
  ASSUME NEW T \in SUBSET Nat, T # {}
  PROVE  \E x \in T : \A y \in T : x <= y
<1>1. PICK x \in T : \A y \in T : ~(<<y, x>> \in OpToRel(<, Nat))
  BY NatLessThanWellFounded, WFMin
<1>2. \A y \in T : ~(y < x)
  BY <1>1 DEF OpToRel
<1> QED
  BY <1>2

(* Sequences have a longest common prefix.                                 *)
LEMMA LongestExists ==
  ASSUME NEW S \in SUBSET Seq(STRING), NEW s \in S
  PROVE  \E c \in CommonPrefixes(S) : \A d \in CommonPrefixes(S) : Len(d) <= Len(c)
<1>1. Len(s) \in Nat
  BY LenProperties
<1>2. ASSUME NEW t \in S
      PROVE  Len(t) \in Nat /\ SubSeq(t, 1, 0) = <<>>
  BY <1>2, LenProperties, SubSeqEmpty
<1>3. <<>> \in CommonPrefixes(S)
  <2>1. <<>> \in Prefixes(s)
    BY <1>1, <1>2 DEF Prefixes
  <2>2. ASSUME NEW t \in S PROVE IsPrefix(<<>>, t)
    <3>1. SubSeq(<<>>, 1, 0) = <<>>
      BY SubSeqEmpty
    <3> QED
      BY <1>2, <3>1, EmptySeq DEF IsPrefix
  <2> QED
    BY <2>1, <2>2 DEF CommonPrefixes
<1>4. ASSUME NEW c \in CommonPrefixes(S)
      PROVE  Len(c) \in Nat /\ Len(c) <= Len(s)
  <2>1. Len(c) <= Len(s)
    BY DEF CommonPrefixes, IsPrefix
  <2>2. PICK t \in S : c \in Prefixes(t)
    BY DEF CommonPrefixes
  <2>3. PICK k \in 0..Len(t) : c = SubSeq(t, 1, k)
    BY <2>2 DEF Prefixes
  <2>4. \A i \in 1..k : t[i] \in STRING
    BY <1>2, <2>3, ElementOfSeq
  <2>5. c \in Seq(STRING)
    BY <2>3, <2>4, SubSeqProperties
  <2> QED
    BY <2>1, <2>5, LenProperties
<1> DEFINE T == {Len(s) - Len(c) : c \in CommonPrefixes(S)}
<1>5. T \in SUBSET Nat /\ T # {}
  BY <1>1, <1>3, <1>4
<1>6. PICK x \in T : \A y \in T : x <= y
  BY <1>5, LeastOf
<1>7. PICK c \in CommonPrefixes(S) : x = Len(s) - Len(c)
  BY <1>6
<1>8. ASSUME NEW d \in CommonPrefixes(S) PROVE Len(d) <= Len(c)
  <2>1. Len(s) - Len(c) <= Len(s) - Len(d)
    BY <1>6, <1>7
  <2> QED
    BY <1>1, <1>4, <2>1
<1> QED
  BY <1>8

Leads(q, path) ==
  q \in Seq(STRING) /\ Len(q) <= Len(path) /\ \A i \in 1..Len(q) : q[i] = path[i]

LEMMA LeadsCut ==
  ASSUME NEW path \in Seq(STRING), NEW q, Leads(q, path), NEW k \in Int, k <= Len(q)
  PROVE  Leads(SubSeq(q, 1, k), path)
<1>1. Len(q) \in Nat /\ Len(path) \in Nat /\ q \in Seq(STRING)
  BY LenProperties DEF Leads
<1>2. \A i \in 1..k : q[i] \in STRING
  BY <1>1, ElementOfSeq
<1>3. /\ SubSeq(q, 1, k) \in Seq(STRING)
      /\ Len(SubSeq(q, 1, k)) = IF 1 <= k THEN k ELSE 0
      /\ \A i \in 1..k : SubSeq(q, 1, k)[i] = q[i]
  <2>1. /\ SubSeq(q, 1, k) \in Seq(STRING)
        /\ Len(SubSeq(q, 1, k)) = IF 1 <= k THEN k - 1 + 1 ELSE 0
        /\ \A i \in 1..(k - 1 + 1) : SubSeq(q, 1, k)[i] = q[1 + i - 1]
    BY <1>2, SubSeqProperties
  <2> QED
    BY <2>1
<1> QED
  BY <1>1, <1>3 DEF Leads

LEMMA PathTypes ==
  ASSUME NEW o \in Ops
  PROVE  /\ Doc[o].path \in Seq(STRING) /\ Len(Doc[o].path) \in Nat \ {0}
         /\ Doc[o].path[1] = "/" /\ (Len(Doc[o].path) > 1 => Doc[o].path[2] # "/")
         /\ "/" \notin Params /\ Colon \in [Params -> STRING]
         /\ \A p \in Params : Colon[p] # "/"
BY NamingAssumption, EmptySeq DEF NamingAssumption

(* The prefix of a set of operations leads the path of each.               *)
LEMMA PrefixLeads ==
  ASSUME NEW O \in SUBSET Ops, NEW o \in O
  PROVE  Leads(Prefix(O), Doc[o].path)
<1> DEFINE S == {Doc[p].path : p \in O}
           path == Doc[o].path
           c == LongestCommonPrefix(S)
<1>1. S \in SUBSET Seq(STRING) /\ path \in S /\ path \in Seq(STRING)
  BY PathTypes
<1>2. c \in CommonPrefixes(S)
  BY <1>1, LongestExists DEF LongestCommonPrefix
<1>3. Leads(c, path)
  <2>1. PICK t \in S : c \in Prefixes(t)
    BY <1>2 DEF CommonPrefixes
  <2>2. PICK k \in 0..Len(t) : c = SubSeq(t, 1, k)
    BY <2>1 DEF Prefixes
  <2>3. t \in Seq(STRING) /\ Len(t) \in Nat /\ Len(path) \in Nat
    BY <1>1, LenProperties
  <2>4. \A i \in 1..k : t[i] \in STRING
    BY <2>2, <2>3, ElementOfSeq
  <2>5. c \in Seq(STRING) /\ Len(c) \in Nat
    <3> HIDE DEF c
    <3>1. c \in Seq(STRING)
      BY <2>2, <2>4, SubSeqProperties
    <3> QED
      BY <3>1, LenProperties
  <2>6. IsPrefix(c, path)
    BY <1>1, <1>2 DEF CommonPrefixes
  <2>7. Len(c) <= Len(path) /\ SubSeq(c, 1, Len(c)) = SubSeq(path, 1, Len(c))
    BY <2>6 DEF IsPrefix
  <2>8. SubSeq(c, 1, Len(c)) = c
    BY <2>5, SubSeqFull
  <2>9. \A i \in 1..Len(c) : path[i] \in STRING
    BY <1>1, <2>3, <2>5, <2>7, ElementOfSeq
  <2>10. \A i \in 1..Len(c) : SubSeq(path, 1, Len(c))[i] = path[i]
    <3>1. \A i \in 1..(Len(c) - 1 + 1) : SubSeq(path, 1, Len(c))[i] = path[1 + i - 1]
      BY <2>5, <2>9, SubSeqProperties
    <3> QED
      BY <2>5, <3>1
  <2> QED
    BY <2>5, <2>7, <2>8, <2>10 DEF Leads
<1> HIDE DEF c
<1>4. ASSUME NEW q, Leads(q, path) PROVE Leads(TrimSlash(q), path)
  <2>1. Len(q) \in Nat
    BY <1>4, LenProperties DEF Leads
  <2>2. Leads(SubSeq(q, 1, Len(q) - 1), path)
    BY <1>1, <1>4, <2>1, LeadsCut
  <2> QED
    BY <1>4, <2>2 DEF TrimSlash, Front
<1>5. Leads(SubSeq(c, 1, Len(c) - 2), path)
  <2>1. Len(c) \in Nat
    BY <1>3, LenProperties DEF Leads
  <2> QED
    BY <1>1, <1>3, <2>1, LeadsCut
<1>6. Prefix(O) = TrimSlash(SubSeq(c, 1, Len(c) - 2)) \/ Prefix(O) = TrimSlash(c)
  BY DEF Prefix, c
<1> QED
  BY <1>3, <1>4, <1>5, <1>6

LEMMA GinSeq ==
  ASSUME NEW p \in Seq(STRING), Colon \in [Params -> STRING]
  PROVE  /\ Gin(p) \in Seq(STRING) /\ Len(Gin(p)) = Len(p)
         /\ \A i \in 1..Len(p) : Gin(p)[i] = IF p[i] \in Params THEN Colon[p[i]] ELSE p[i]
<1>1. DOMAIN p = 1..Len(p) /\ Len(p) \in Nat
  BY LenProperties
<1>2. \A i \in 1..Len(p) : p[i] \in STRING
  BY ElementOfSeq
<1>3. Gin(p) \in [1..Len(p) -> STRING]
  BY <1>1, <1>2 DEF Gin
<1>4. Gin(p) \in Seq(STRING)
  BY <1>1, <1>3, SeqDef
<1>5. DOMAIN Gin(p) = 1..Len(p) /\ DOMAIN Gin(p) = 1..Len(Gin(p)) /\ Len(Gin(p)) \in Nat
  BY <1>3, <1>4, LenProperties
<1>6. Len(Gin(p)) = Len(p)
  BY <1>1, <1>5
<1> QED
  BY <1>1, <1>4, <1>6 DEF Gin

(* A path is its prefix and what is left for the child.                    *)
LEMMA PathParts ==
  ASSUME NEW O \in SUBSET Ops, NEW o \in O, WholeSegments(O)
  PROVE  /\ Prefix(O) \in Seq(STRING) /\ Child(o, O) \in Seq(STRING)
         /\ Gin(Doc[o].path) = Prefix(O) \o Child(o, O)
<1> DEFINE P == Prefix(O)
           path == Doc[o].path
           rest == SubSeq(path, Len(P) + 1, Len(path))
<1>1. /\ P \in Seq(STRING) /\ Len(P) <= Len(path)
      /\ \A i \in 1..Len(P) : P[i] = path[i]
  BY PrefixLeads DEF Leads
<1>2. /\ Len(P) \in Nat /\ DOMAIN P = 1..Len(P)
      /\ path \in Seq(STRING) /\ Len(path) \in Nat /\ Colon \in [Params -> STRING]
  BY <1>1, LenProperties, PathTypes
<1>3. \A i \in 1..Len(P) : P[i] \notin Params
  BY <1>2 DEF WholeSegments, ToSet
<1> HIDE DEF P
<1>4. \A i \in (Len(P) + 1)..Len(path) : path[i] \in STRING
  BY <1>2, ElementOfSeq
<1>5. /\ rest \in Seq(STRING) /\ Len(rest) = Len(path) - Len(P)
      /\ \A i \in 1..Len(rest) : rest[i] = path[Len(P) + i]
  <2>1. /\ rest \in Seq(STRING)
        /\ Len(rest) = IF Len(P) + 1 <= Len(path) THEN Len(path) - (Len(P) + 1) + 1 ELSE 0
        /\ \A i \in 1..(Len(path) - (Len(P) + 1) + 1) : rest[i] = path[Len(P) + 1 + i - 1]
    BY <1>2, <1>4, SubSeqProperties
  <2> QED
    BY <1>1, <1>2, <2>1
<1> HIDE DEF rest
<1>6. Child(o, O) = Gin(rest)
  BY DEF Child, rest, P
<1>7. /\ Gin(rest) \in Seq(STRING) /\ Len(Gin(rest)) = Len(rest)
      /\ \A i \in 1..Len(rest) : Gin(rest)[i] = IF rest[i] \in Params THEN Colon[rest[i]] ELSE rest[i]
  BY <1>2, <1>5, GinSeq
<1>8. /\ Gin(path) \in Seq(STRING) /\ Len(Gin(path)) = Len(path)
      /\ \A i \in 1..Len(path) : Gin(path)[i] = IF path[i] \in Params THEN Colon[path[i]] ELSE path[i]
  BY <1>2, GinSeq
<1>9. /\ P \o Gin(rest) \in Seq(STRING) /\ Len(P \o Gin(rest)) = Len(P) + Len(rest)
      /\ \A i \in 1..(Len(P) + Len(rest)) :
           (P \o Gin(rest))[i] = IF i <= Len(P) THEN P[i] ELSE Gin(rest)[i - Len(P)]
  <2> DEFINE G == Gin(rest)
  <2>1. G \in Seq(STRING) /\ P \in Seq(STRING)
    BY <1>1, <1>7
  <2> HIDE DEF G
  <2>2. /\ P \o G \in Seq(STRING) /\ Len(P \o G) = Len(P) + Len(G)
        /\ \A i \in 1..(Len(P) + Len(G)) : (P \o G)[i] = IF i <= Len(P) THEN P[i] ELSE G[i - Len(P)]
    BY <2>1, ConcatProperties
  <2>3. Len(G) = Len(rest)
    BY <1>7 DEF G
  <2> QED
    BY <2>2, <2>3 DEF G
<1>10. ASSUME NEW i \in 1..Len(path) PROVE Gin(path)[i] = (P \o Gin(rest))[i]
  <2>0. Len(P) + Len(rest) = Len(path)
    BY <1>1, <1>2, <1>5
  <2>1. CASE i <= Len(P)
    <3>1. i \in 1..Len(P) /\ i \in 1..(Len(P) + Len(rest))
      BY <1>2, <2>0, <2>1
    <3> QED
      BY <1>1, <1>3, <1>8, <1>9, <2>1, <3>1
  <2>2. CASE ~(i <= Len(P))
    <3>1. i - Len(P) \in 1..Len(rest) /\ Len(P) + (i - Len(P)) = i /\ i \in 1..(Len(P) + Len(rest))
      BY <1>2, <2>0, <2>2, <1>5
    <3>2. rest[i - Len(P)] = path[i]
      BY <1>5, <3>1
    <3>3. (P \o Gin(rest))[i] = Gin(rest)[i - Len(P)]
      BY <1>9, <2>2, <3>1
    <3> QED
      BY <1>7, <1>8, <3>1, <3>2, <3>3
  <2> QED
    BY <2>1, <2>2
<1>11. Len(Gin(path)) = Len(P \o Gin(rest))
  BY <1>1, <1>2, <1>5, <1>8, <1>9
<1>12. Gin(path) = P \o Gin(rest)
  BY <1>8, <1>9, <1>10, <1>11, SeqEqual
<1> QED
  BY <1>1, <1>6, <1>7, <1>12 DEF P

LEMMA SingleSeq ==
  ASSUME NEW S, NEW x \in S
  PROVE  <<x>> \in Seq(S) /\ Len(<<x>>) = 1 /\ <<x>>[1] = x
<1>1. <<x>> \in [1..1 -> S]
  OBVIOUS
<1>2. <<x>> \in Seq(S)
  BY <1>1, SeqDef
<1> QED
  BY <1>2

LEMMA SlashAndTail ==
  ASSUME NEW c \in Seq(STRING), c # <<>>, Head(c) = "/"
  PROVE  <<"/">> \o Tail(c) = c
<1>1. Len(c) \in Nat \ {0} /\ c[1] = "/"
  BY EmptySeq
<1>2. /\ Tail(c) \in Seq(STRING) /\ Len(Tail(c)) = Len(c) - 1
      /\ \A i \in 1..Len(Tail(c)) : Tail(c)[i] = c[i + 1]
  BY HeadTailProperties
<1>3. <<"/">> \in Seq(STRING) /\ Len(<<"/">>) = 1 /\ <<"/">>[1] = "/"
  <2>1. "/" \in STRING
    BY HeadTailProperties
  <2> QED
    BY <2>1, SingleSeq
<1>4. /\ <<"/">> \o Tail(c) \in Seq(STRING) /\ Len(<<"/">> \o Tail(c)) = 1 + Len(Tail(c))
      /\ \A i \in 1..(1 + Len(Tail(c))) :
           (<<"/">> \o Tail(c))[i] = IF i <= 1 THEN <<"/">>[i] ELSE Tail(c)[i - 1]
  BY <1>2, <1>3, ConcatProperties
<1>5. ASSUME NEW i \in 1..Len(c) PROVE (<<"/">> \o Tail(c))[i] = c[i]
  <2>1. CASE i = 1
    BY <1>1, <1>2, <1>3, <1>4, <2>1
  <2>2. CASE i # 1
    <3>1. i - 1 \in 1..Len(Tail(c)) /\ i \in 1..(1 + Len(Tail(c))) /\ ~(i <= 1)
      BY <1>1, <1>2, <2>2
    <3> QED
      BY <1>2, <1>4, <3>1
  <2> QED
    BY <2>1, <2>2
<1>6. Len(<<"/">> \o Tail(c)) = Len(c)
  BY <1>1, <1>2, <1>4
<1> QED
  BY <1>4, <1>5, <1>6, SeqEqual

(* The route that the generator writes and the detector expects, a child   *)
(* in a group, is the path of the document.                                *)
THEOREM RouteIsPath ==
  ASSUME NEW O \in SUBSET Ops, NEW o \in O, WholeSegments(O)
  PROVE  RoutePath(o, O) = Gin(Doc[o].path)
<1> DEFINE P == Prefix(O)
           C == Child(o, O)
           path == Doc[o].path
<1>1. P \in Seq(STRING) /\ C \in Seq(STRING) /\ Gin(path) = P \o C
  BY PathParts
<1>2. C = <<>> \/ Head(C) = "/"
  BY DEF WholeSegments
<1>3. /\ path \in Seq(STRING) /\ Len(path) \in Nat \ {0} /\ path[1] = "/"
      /\ (Len(path) > 1 => path[2] # "/") /\ "/" \notin Params /\ Colon \in [Params -> STRING]
      /\ \A p \in Params : Colon[p] # "/"
  BY PathTypes
<1>4. /\ Len(Gin(path)) = Len(path)
      /\ \A i \in 1..Len(path) : Gin(path)[i] = IF path[i] \in Params THEN Colon[path[i]] ELSE path[i]
  BY <1>3, GinSeq
<1>5. P = <<>> => Group(O) = <<"/">>
  BY DEF Group
<1>6. P # <<>> => Group(O) = P
  BY DEF Group
<1>7. RoutePath(o, O) = JoinRoutePath(Group(O), C)
  BY DEF RoutePath
<1> HIDE DEF P, C
<1>8. C # <<>> => <<"/">> \o Tail(C) = C
  BY <1>1, <1>2, SlashAndTail
<1>9. CASE P = <<>>
  <2>1. Gin(path) = C
    BY <1>1, <1>9, ConcatEmptySeq
  <2>2. C # <<>>
    BY <1>3, <1>4, <2>1, EmptySeq
  <2>3. JoinRoutePath(<<"/">>, C) = <<"/">> \o Tail(C)
    BY <1>2, <2>2 DEF JoinRoutePath
  <2> QED
    BY <1>5, <1>7, <1>8, <1>9, <2>1, <2>2, <2>3
<1>10. CASE P # <<>> /\ C = <<>>
  <2>1. Gin(path) = P
    BY <1>1, <1>10, ConcatEmptySeq
  <2>2. <<"/">> \o <<>> = <<"/">>
    BY ConcatEmptySeq
  <2>3. JoinRoutePath(P, <<>>) = P
    BY <2>2 DEF JoinRoutePath
  <2> QED
    BY <1>6, <1>7, <1>10, <2>1, <2>3
<1>11. CASE P # <<>> /\ C # <<>>
  <2>1. P # <<"/">>
    <3> SUFFICES ASSUME P = <<"/">> PROVE FALSE
      OBVIOUS
    <3>1. Len(P) = 1
      OBVIOUS
    <3>2. Len(C) \in Nat \ {0} /\ C[1] = "/"
      BY <1>1, <1>2, <1>11, EmptySeq
    <3>3. Len(path) = 1 + Len(C)
      BY <1>1, <1>4, <3>1, ConcatProperties
    <3>4. (P \o C)[2] = C[1]
      <4>1. 2 \in 1..(Len(P) + Len(C)) /\ ~(2 <= Len(P)) /\ 2 - Len(P) = 1
        BY <3>1, <3>2
      <4> QED
        BY <1>1, <4>1, ConcatProperties
    <3>5. Gin(path)[2] = "/" /\ Len(path) > 1
      BY <1>1, <3>2, <3>3, <3>4
    <3>6. 2 \in 1..Len(path)
      BY <1>3, <3>5
    <3>7. Gin(path)[2] = IF path[2] \in Params THEN Colon[path[2]] ELSE path[2]
      BY <1>4, <3>6
    <3> QED
      BY <1>3, <3>5, <3>7
  <2>2. JoinRoutePath(P, C) = P \o <<"/">> \o Tail(C)
    BY <1>2, <1>11, <2>1 DEF JoinRoutePath
  <2>3. Tail(C) \in Seq(STRING) /\ <<"/">> \in Seq(STRING)
    <3>1. Tail(C) \in Seq(STRING)
      BY <1>1, <1>11, HeadTailProperties
    <3>2. <<"/">> \in Seq(STRING)
      <4>1. "/" \in STRING
        BY <1>3, ElementOfSeq
      <4> QED
        BY <4>1, SingleSeq
    <3> QED
      BY <3>1, <3>2
  <2>4. P \o <<"/">> \o Tail(C) = P \o (<<"/">> \o Tail(C))
    BY <1>1, <2>3, ConcatAssociative
  <2> QED
    BY <1>1, <1>6, <1>7, <1>8, <1>11, <2>2, <2>4
<1> QED
  BY <1>9, <1>10, <1>11

-----------------------------------------------------------------------------
(* What a clean report is worth.                                           *)

LEMMA BodyTypes ==
  ASSUME TypeInv, NEW n \in Names, routes[n] # <<>>
  PROVE  /\ Body(n) = routes[n][1] /\ DOMAIN Body(n) \subseteq Nat
         /\ \A i \in DOMAIN Body(n) : Body(n)[i] \in Call
<1>1. routes[n] \in Seq(Seq(Call))
  BY DEF TypeInv
<1>2. 1 \in 1..Len(routes[n])
  BY <1>1, EmptySeq
<1>3. Body(n) = routes[n][1] /\ routes[n][1] \in Seq(Call)
  BY <1>1, <1>2, ElementOfSeq DEF Body
<1>4. DOMAIN Body(n) = 1..Len(Body(n)) /\ Len(Body(n)) \in Nat
  BY <1>3, LenProperties
<1>5. \A i \in DOMAIN Body(n) : Body(n)[i] \in Call
  BY <1>3, <1>4, ElementOfSeq
<1> QED
  BY <1>3, <1>4, <1>5

LEMMA OwnerIsClean ==
  ASSUME AllClean, NEW n \in Names, NEW o \in OpsOf(n)
  PROVE  Clean(n)
<1>1. n \notin Builtin
  BY NamingAssumption DEF NamingAssumption
<1> QED
  BY <1>1 DEF AllClean, OpsOf

(* What the detector has compared with the operation.                      *)
LEMMA CallIsVouched ==
  ASSUME TypeInv, NEW n \in Names, NEW o \in OpsOf(n), Clean(n),
         CheckMethod(o, n) # None, NEW i, IsCallOf(i, o, n)
  PROVE  /\ i \in DOMAIN Body(n) /\ i \in Nat
         /\ Body(n)[i].verb = Doc[o].verb
         /\ Vouched(o, n, Body(n)[i])
<1>1. routes[n] # <<>> /\ RouteAgrees(o, n)
  BY DEF Clean
<1>2. PICK j \in RegisteredRoutes(n) :
        /\ IsCallOf(j, o, n)
        /\ Body(n)[j].way.pathKnown => Body(n)[j].path = RoutePath(o, OpsOf(n))
        /\ AuthAgrees(o, Body(n)[j])
  BY <1>1 DEF RouteAgrees
<1>3. i \in DOMAIN Body(n) /\ i \in Nat /\ j \in Nat /\ Body(n)[i].verb = Doc[o].verb
  BY <1>1, BodyTypes DEF IsCallOf, CallsOf, RegisteredRoutes
<1>4. i = j
  <2>1. i <= j /\ j <= i
    BY <1>2 DEF IsCallOf
  <2> QED
    BY <1>3, <2>1
<1> DEFINE r == Body(n)[i]
<1>5. r.way \in Way
  BY <1>1, <1>3, BodyTypes DEF Call
<1>6. OpsOf(n) \in SUBSET Ops
  BY MineInOps DEF OpsOf
<1>7. WholeSegments(OpsOf(n)) => RoutePath(o, OpsOf(n)) = Gin(Doc[o].path)
  BY <1>6, RouteIsPath
<1>8. r.way.inAuth = RequiresAuth(o)
  BY <1>2, <1>4 DEF AuthAgrees
<1>9. r.way.pathKnown /\ WholeSegments(OpsOf(n)) => r.path = Gin(Doc[o].path)
  BY <1>2, <1>4, <1>7
<1>10. /\ RequiresAuth(o) => r.way.auth
       /\ r.way.inAuth = r.way.auth => r.way.auth = RequiresAuth(o)
  BY <1>5, <1>8 DEF Way
<1> QED
  BY <1>3, <1>9, <1>10 DEF Vouched

LEMMA ServedStep ==
  ASSUME IInv, AllClean, NEW n \in wired, NEW o \in OpsOf(n), CheckMethod(o, n) # None
  PROVE  /\ Registered(n)
         /\ \E i \in DOMAIN Body(n) : IsCallOf(i, o, n) /\ Vouched(o, n, Body(n)[i])
<1>1. TypeInv /\ n \in Names
  BY DEF IInv, TypeInv
<1>2. Clean(n)
  BY <1>1, OwnerIsClean
<1>3. routes[n] # <<>> /\ RouteAgrees(o, n)
  BY <1>2 DEF Clean
<1>4. PICK i \in RegisteredRoutes(n) : IsCallOf(i, o, n)
  BY <1>3 DEF RouteAgrees
<1>5. i \in DOMAIN Body(n) /\ Vouched(o, n, Body(n)[i])
  BY <1>1, <1>2, <1>4, CallIsVouched
<1>6. Registered(n)
  <2>1. lines[n]["routes-register"] >= 1 /\ lines[n]["routes-register"] \in Nat
    BY <1>1, <1>3, LineTypes, PatchNames DEF IInv, LineOrder
  <2> QED
    BY <1>3, <2>1 DEF Registered
<1> QED
  BY <1>4, <1>5, <1>6

(* No route twice: two calls that registered one would be calls of one     *)
(* operation.                                                              *)
LEMMA StartsStep ==
  ASSUME IInv, Builds, AllClean,
         \A n \in Names : Registered(n) => NothingLeftOver(n) /\ WholeSegments(OpsOf(n))
  PROVE  Starts
<1>1. TypeInv
  BY DEF IInv
<1>2. ASSUME NEW n \in Names PROVE lines[n]["routes-register"] <= 1
  <2>1. /\ lines[n]["routes-register"] \in Nat /\ lines[n]["deps-fields"] \in Nat
        /\ "deps-fields" \in Lines
    BY <1>1, LineTypes, PatchNames
  <2>2. lines[n]["routes-register"] + Pending(n) <= lines[n]["deps-fields"] /\ Pending(n) \in {0, 1}
    BY DEF IInv, LineOrder, Pending
  <2>3. lines[n]["deps-fields"] <= 1
    <3>1. \A s \in Lines : lines[n][s] <= 1 \/ s = "routes-register"
      BY DEF Builds, LinesBuild
    <3> QED
      BY <2>1, <3>1
  <2> QED
    BY <2>1, <2>2, <2>3
<1>3. ASSUME NEW m \in Names, Registered(m), NEW i \in DOMAIN routes[m][1]
      PROVE  \E o \in OpsOf(m) :
               /\ IsCallOf(i, o, m) /\ i \in Nat
               /\ routes[m][1][i].verb = Doc[o].verb
               /\ routes[m][1][i].path = Gin(Doc[o].path)
  <2>1. routes[m] # <<>>
    BY <1>3 DEF Registered
  <2>2. Body(m) = routes[m][1]
    BY <1>1, <2>1, BodyTypes
  <2>3. PICK o \in OpsOf(m) : CheckMethod(o, m) # None /\ IsCallOf(i, o, m)
    BY <1>3, <2>2 DEF NothingLeftOver
  <2>4. Clean(m)
    BY OwnerIsClean
  <2>5. /\ i \in Nat /\ Body(m)[i].verb = Doc[o].verb
        /\ Vouched(o, m, Body(m)[i])
    BY <1>1, <2>3, <2>4, CallIsVouched
  <2>6. Body(m)[i].way.pathKnown /\ WholeSegments(OpsOf(m))
    BY <1>3, <2>2 DEF NothingLeftOver
  <2> QED
    BY <2>2, <2>3, <2>5, <2>6 DEF Vouched
<1>4. ASSUME NEW m \in Names, NEW n \in Names, Registered(m), Registered(n),
             NEW i \in DOMAIN routes[m][1], NEW j \in DOMAIN routes[n][1],
             routes[m][1][i].verb = routes[n][1][j].verb,
             routes[m][1][i].path = routes[n][1][j].path
      PROVE  m = n /\ i = j
  <2>1. PICK o \in OpsOf(m) : /\ IsCallOf(i, o, m) /\ i \in Nat
                              /\ routes[m][1][i].verb = Doc[o].verb
                              /\ routes[m][1][i].path = Gin(Doc[o].path)
    BY <1>3, <1>4
  <2>2. PICK p \in OpsOf(n) : /\ IsCallOf(j, p, n) /\ j \in Nat
                              /\ routes[n][1][j].verb = Doc[p].verb
                              /\ routes[n][1][j].path = Gin(Doc[p].path)
    BY <1>3, <1>4
  <2>3. o \in yaml /\ p \in yaml /\ Owner(o, Known) = m /\ Owner(p, Known) = n
    BY DEF OpsOf
  <2>4. yaml \in Documents
    BY <1>1, <2>3 DEF TypeInv
  <2>5. o = p
    <3>1. Doc[o].verb = Doc[p].verb /\ Gin(Doc[o].path) = Gin(Doc[p].path)
      BY <1>4, <2>1, <2>2
    <3> QED
      BY <2>3, <2>4, <3>1, ScaffoldAssumption DEF ScaffoldAssumption
  <2>6. m = n
    BY <2>3, <2>5
  <2>7. i <= j /\ j <= i
    BY <2>1, <2>2, <2>5, <2>6 DEF IsCallOf
  <2> QED
    BY <2>1, <2>2, <2>6, <2>7
<1> QED
  BY <1>2, <1>4 DEF Starts

LEMMA CleanMeansServedStep == IInv => CleanMeansServed
<1> SUFFICES ASSUME IInv, Builds, AllClean PROVE CleanMeansServed
  BY DEF CleanMeansServed
<1> DEFINE n(o) == Owner(o, Known)
<1>1. ASSUME NEW o \in yaml, n(o) \in wired, CheckMethod(o, n(o)) # None
      PROVE  /\ Registered(n(o))
             /\ \E i \in DOMAIN Body(n(o)) :
                  IsCallOf(i, o, n(o)) /\ Vouched(o, n(o), Body(n(o))[i])
  <2>1. o \in OpsOf(n(o))
    BY DEF OpsOf
  <2> QED
    BY <1>1, <2>1, ServedStep
<1>2. (\A m \in Names : Registered(m) => NothingLeftOver(m) /\ WholeSegments(OpsOf(m))) => Starts
  BY StartsStep
<1> QED
  BY <1>1, <1>2 DEF CleanMeansServed

(* How far a clean report can be relied on, whatever was generated, edited *)
(* and drifted before (CleanMeansServed).                                  *)
THEOREM CleanIsServed == Spec => []CleanMeansServed
BY ScaffoldInvariant, CleanMeansServedStep, PTL

=============================================================================
