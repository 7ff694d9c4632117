---------------------------- MODULE ScaffoldNaming ----------------------------
(***************************************************************************)
(* What the scaffold generator (scripts/new-endpoint.go) and the drift     *)
(* detector (scripts/new-endpoint-check.go) derive from api/openapi.yaml:  *)
(* the resource an operation belongs to, the method that handles it, its   *)
(* route, its authentication and the arguments of the generated methods.   *)
(* The two scripts are separate programs with copies of these functions.   *)
(*                                                                         *)
(* A path is written relative to /api/v1, as the sequence of its pieces:   *)
(* distinct pieces share no first byte, so that the longest common prefix  *)
(* of the pieces is that of the bytes.  It starts with a slash, and its    *)
(* first segment is not empty.                                             *)
(***************************************************************************)
EXTENDS Integers, FiniteSets, SequencesExt

CONSTANTS
  Names,         \* resource names a developer may give to the generator
  Builtin,       \* resources that are not generated: Auth, Health, OpenAPI
  ByLength,      \* Names and Builtin, the longest name first
  Fold,          \* a resource name as written in x-resource |-> the name
  Ops,           \* operations that may be written into the document
  Doc,           \* what the document says of each of them
  Rank,          \* their order by path and verb
  GlobalBearer,  \* whether the document's own security asks for bearerAuth
  Params,        \* path pieces that are parameters, as "{id}"
  Colon,         \* "{id}" |-> ":id"
  Methods,       \* legal names of handler methods
  None

ASSUME NamingAssumption ==
  /\ ToSet(ByLength) = Names \union Builtin
  /\ Names \intersect Builtin = {} /\ None \notin Names \union Builtin
  /\ \A o \in Ops : /\ Doc[o].within \subseteq Names \union Builtin
                    /\ DOMAIN Doc[o].cut = Names \union Builtin
                    /\ Doc[o].path \in Seq(STRING) /\ Doc[o].path # <<>>
                    /\ Doc[o].path[1] = "/" /\ (Len(Doc[o].path) > 1 => Doc[o].path[2] # "/")
  /\ "/" \notin Params /\ Colon \in [Params -> STRING \ {"/"}]
  /\ None \notin Methods

-----------------------------------------------------------------------------
(* x-resource of the operation, else of its path.                          *)
Declared(o) ==
  IF Doc[o].xResource # None THEN Doc[o].xResource ELSE Doc[o].pathResource

(* The generator: the declared name, whatever its case, else any operation *)
(* whose id contains the name.                                             *)
BelongsTo(o, n) ==
  IF Declared(o) # None THEN Fold[Declared(o)] = n ELSE n \in Doc[o].within

(* The detector: the declared name as it is written, else the longest of   *)
(* the known names that the id contains.                                   *)
Owner(o, known) ==
  LET found == SelectSeq(ByLength, LAMBDA r : r \in known \intersect Doc[o].within)
  IN  CASE Declared(o) # None -> Declared(o)
        [] Declared(o) = None /\ found # <<>> -> Head(found)
        [] OTHER -> None

(* The generator's method: x-handler-method, else the id without the       *)
(* plural of the name, else without the name.  None: it refuses.           *)
DeriveMethod(o, n) ==
  LET cut == Doc[o].cut[n]
      cutPlural == cut.plural \in Methods
  IN  CASE Doc[o].xMethod \in Methods -> Doc[o].xMethod
        [] Doc[o].xMethod = None /\ cutPlural -> cut.plural
        [] /\ Doc[o].xMethod = None /\ ~cutPlural
           /\ cut.plural # "nothing" /\ cut.single \in Methods -> cut.single
        [] OTHER -> None

BugCheckMethod(o, n) ==
  LET cut == Doc[o].cut[n]
  IN  CASE Doc[o].xMethod # None -> Doc[o].xMethod
        [] Doc[o].xMethod = None /\ cut.single \in Methods -> cut.single
        [] Doc[o].xMethod = None /\ cut.single \notin Methods /\ cut.plural \in Methods -> cut.plural
        [] OTHER -> None

(* The detector's method: x-handler-method unchecked, and it goes on where *)
(* the generator gives up.  None: the operation is skipped.                *)
CheckMethod(o, n) ==
  LET cut == Doc[o].cut[n]
      cutPlural == cut.plural \in Methods
  IN  CASE Doc[o].xMethod # None -> Doc[o].xMethod
        [] Doc[o].xMethod = None /\ cutPlural -> cut.plural
        [] Doc[o].xMethod = None /\ ~cutPlural /\ cut.single \in Methods -> cut.single
        [] OTHER -> None

(* security of the operation, else of the document; an empty list is none. *)
RequiresAuth(o) ==
  Doc[o].security = "bearer" \/ (Doc[o].security = "inherit" /\ GlobalBearer)

-----------------------------------------------------------------------------
(* Paths.                                                                  *)
PathParams(o) == ToSet(Doc[o].path) \intersect Params

Gin(path) == [i \in DOMAIN path |-> IF path[i] \in Params THEN Colon[path[i]] ELSE path[i]]

TrimSlash(path) == IF path # <<>> /\ Last(path) = "/" THEN Front(path) ELSE path

(* The longest common prefix of the paths, without a parameter at its end. *)
(* It is not cut back to a whole segment.                                  *)
Prefix(O) ==
  LET common == LongestCommonPrefix({Doc[o].path : o \in O})
  IN  IF common # <<>> /\ Last(common) \in Params
      THEN TrimSlash(SubSeq(common, 1, Len(common) - 2))
      ELSE TrimSlash(common)

Group(O) == IF Prefix(O) = <<>> THEN <<"/">> ELSE Prefix(O)

Child(o, O) ==
  LET path == Doc[o].path IN Gin(SubSeq(path, Len(Prefix(O)) + 1, Len(path)))

(* How gin joins the path of a group and that of a route in it.            *)
JoinRoutePath(base, child) ==
  CASE base = <<"/">> -> <<"/">> \o (IF child # <<>> /\ Head(child) = "/" THEN Tail(child) ELSE child)
    [] base # <<"/">> /\ child = <<>> -> base
    [] OTHER -> base \o <<"/">> \o (IF Head(child) = "/" THEN Tail(child) ELSE child)

RoutePath(o, O) == JoinRoutePath(Group(O), Child(o, O))

(* The prefix ends where a segment ends and holds no parameter, which the  *)
(* group would keep as literal text.                                       *)
WholeSegments(O) ==
  /\ ToSet(Prefix(O)) \intersect Params = {}
  /\ \A o \in O : Child(o, O) = <<>> \/ Head(Child(o, O)) = "/"

-----------------------------------------------------------------------------
(* The Go methods that the two scripts and oapi-codegen speak of.          *)

(* The second parameter that oapi-codegen gives to the method of           *)
(* ServerInterface; "both" is a path parameter and a Params struct.        *)
Signature(o) ==
  CASE PathParams(o) # {} /\ Doc[o].query.fields # {} -> "both"
    [] PathParams(o) # {} /\ Doc[o].query.fields = {} -> "param"
    [] PathParams(o) = {} /\ Doc[o].query.fields # {} -> "params"
    [] OTHER -> "plain"

(* The forwarder has one parameter after the context, at most.             *)
ForwardSignature(o) == IF Signature(o) = "both" THEN "param" ELSE Signature(o)

Scalar == {"string", "integer", "boolean"}

(* The request struct of a schema: none, one with its fields, or an empty  *)
(* one when the schema is beyond the script.                               *)
Dto(schema, dto) ==
  CASE ~dto \/ schema.root = None -> "none"
    [] dto /\ schema.root = "object" /\ schema.fields \subseteq Scalar -> "simple"
    [] OTHER -> "complex"

BodyDto(o, dto) == Dto(Doc[o].body, dto)
QueryDto(o, dto) == IF Doc[o].query.fields = {} THEN "none" ELSE Dto(Doc[o].query, dto)

ActiveDto(o, dto) == IF BodyDto(o, dto) # "none" THEN BodyDto(o, dto) ELSE QueryDto(o, dto)

(* What the generated handler passes to the generated service ...          *)
HandlerArgs(o, m, dto) ==
  CASE m = "List" -> IF QueryDto(o, dto) = "simple" THEN {"req"} ELSE {}
    [] m \in {"Create", "EnqueueTask"} -> IF ActiveDto(o, dto) = "simple" THEN {"req"} ELSE {}
    [] m = "Update" -> {"id"} \union IF ActiveDto(o, dto) = "simple" THEN {"req"} ELSE {}
    [] m \in {"Get", "Delete"} -> {"id"}
    [] OTHER -> {}

(* ... and what the service takes.                                         *)
ServiceArgs(o, m, dto) ==
  CASE m \in {"List", "Create", "EnqueueTask"} -> IF ActiveDto(o, dto) # "none" THEN {"req"} ELSE {}
    [] m = "Update" -> {"id"} \union IF ActiveDto(o, dto) # "none" THEN {"req"} ELSE {}
    [] m \in {"Get", "Delete"} -> {"id"}
    [] OTHER -> {}

(* The handler reads its parameter into a variable of the parameter's      *)
(* name: without a parameter that is no Go.                                *)
Parses(o, m) == m \in {"Get", "Update", "Delete"} => PathParams(o) # {}
=============================================================================
