------------------------------ MODULE MCScaffold ------------------------------
(* An instance of ScaffoldCheck for TLC: the resources Order and           *)
(* OrderPayment, whose names contain one another, and a document that      *)
(* changes the authentication of getOrder and the owner of                 *)
(* createOrderPayment, whose path shares a part of a segment with the      *)
(* orders', one way and the other; headOrders is registered under a verb   *)
(* that the detector does not collect.                                     *)
EXTENDS ScaffoldCheck

MCNames == {"Order", "OrderPayment"}
MCByLength == <<"OrderPayment", "Order", "Auth">>
MCOps == {"list", "head", "get", "getOpen", "pay", "payClaimed", "payBack"}
Payments == {"pay", "payClaimed", "payBack"}

MCIface == [o \in MCOps |->
  CASE o = "list" -> "ListOrders"
    [] o = "head" -> "HeadOrders"
    [] o \in {"get", "getOpen"} -> "GetOrder"
    [] OTHER -> "CreateOrderPayment"]

MCRank == [o \in MCOps |->
  CASE o = "list" -> 2 [] o = "head" -> 3 [] o \in {"get", "getOpen"} -> 4 [] OTHER -> 1]

None0 == [root |-> None, fields |-> {}]
Cut(plural, single) == [plural |-> plural, single |-> single]

(* listOrders, headOrders, getOrder and createOrderPayment as written.     *)
MCDoc == [o \in MCOps |->
  [xResource |-> CASE o = "payClaimed" -> "OrderPayment" [] o = "payBack" -> "Order" [] OTHER -> None,
   pathResource |-> None,
   xMethod |-> None,
   within |-> IF o \in Payments THEN MCNames ELSE {"Order"},
   cut |-> [n \in MCNames \union {"Auth"} |->
     CASE o = "list" /\ n = "Order" -> Cut("List", "Lists")
       [] o = "head" /\ n = "Order" -> Cut("Head", "Heads")
       [] o \in {"get", "getOpen"} /\ n = "Order" -> Cut("absent", "Get")
       [] o \in Payments /\ n = "Order" -> Cut("absent", "CreatePayment")
       [] o \in Payments /\ n = "OrderPayment" -> Cut("absent", "Create")
       [] OTHER -> Cut("absent", "absent")],
   verb |-> CASE o \in {"list", "get", "getOpen"} -> "GET" [] o = "head" -> "HEAD" [] OTHER -> "POST",
   path |-> CASE o \in {"list", "head"} -> <<"/", "order", "s">>
              [] o \in {"get", "getOpen"} -> <<"/", "order", "s", "/", "{id}">>
              [] OTHER -> <<"/", "order", "-payments">>,
   security |-> CASE o = "getOpen" -> "off" [] o \in {"list", "head"} -> "inherit" [] OTHER -> "bearer",
   query |-> IF o = "list" THEN [root |-> "object", fields |-> {"integer"}] ELSE [root |-> "object", fields |-> {}],
   body |-> IF o = "payClaimed" THEN [root |-> "object", fields |-> {"string", "array"}] ELSE None0]]

(* Readable on either group, and on a group that a helper returns.         *)
MCHandWays ==
  { [auth |-> FALSE, pathKnown |-> TRUE,  inAuth |-> FALSE],
    [auth |-> TRUE,  pathKnown |-> TRUE,  inAuth |-> TRUE],
    [auth |-> TRUE,  pathKnown |-> FALSE, inAuth |-> FALSE] }

MCFold == [n \in MCNames |-> n]
MCMethods == {"List", "Lists", "Head", "Heads", "Get", "Create", "CreatePayment"}
MCColon == [p \in {"{id}"} |-> ":id"]
MCDocuments == {{"list", "get"}, {"getOpen", "head"}, {"pay"}, {"payClaimed"}, {"payBack"}}
=============================================================================
