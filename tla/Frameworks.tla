------------------------------ MODULE Frameworks ------------------------------
(***************************************************************************)
(* The frameworks module: functions that a web or command framework calls. *)
(* Nodes are those of SyntaxSymbols; the text of a decorator is the route  *)
(* method it calls, that of a superclass list the bases it names, and the  *)
(* children of an argument list are the arguments.  A line of a file has   *)
(* the words it contains (says).                                           *)
(***************************************************************************)
EXTENDS SyntaxSymbols, FiniteSets

RULES == [r \in {"framework-entry-point", "framework-detected"} |-> "info"]

HTTP_METHODS == {"GET", "POST", "PUT", "DELETE", "PATCH", "HEAD", "OPTIONS", "Any", "Handle"}

ROUTE_DECORATORS == {"get", "post", "put", "delete", "patch", "head", "options", "route"}

django_view_bases ==
    {"View", "TemplateView", "ListView", "DetailView", "CreateView", "UpdateView", "DeleteView", "FormView",
     "APIView", "ModelViewSet", "ViewSet", "GenericAPIView"}

Mentions(file, word) == \E l \in ToSet(file.lines) : word \in l.says

Entry(framework, kind, name, node) == <<[framework |-> framework, kind |-> kind, name |-> name, line |-> node.row]>>

HasField(node, field) == Field(node, field) # <<>>
TheField(node, field) == Field(node, field)[1]

-----------------------------------------------------------------------------
(* Go *)

\* The last of several arguments, unless it is a function itself.
extract_handler_arg(args, default) ==
    IF Len(args.children) < 2 \/ Last(args.children).kind = "func_literal" THEN default
    ELSE Last(args.children).text

\* A file that mentions both routers has the handlers of gin.
check_router_call(node, file) ==
    IF /\ HasField(node, "function") /\ TheField(node, "function").kind = "selector_expression"
       /\ HasField(TheField(node, "function"), "field")
       /\ TheField(TheField(node, "function"), "field").text \in HTTP_METHODS
       /\ HasField(node, "arguments")
       /\ Mentions(file, "gin-gonic/gin") \/ Mentions(file, "labstack/echo")
    THEN Entry(IF Mentions(file, "gin-gonic/gin") THEN "gin" ELSE "echo", "handler",
               extract_handler_arg(TheField(node, "arguments"), TheField(TheField(node, "function"), "field").text),
               node)
    ELSE <<>>

\* The last Use names the command; without a Run it is none.  An element that
\* has no key hides the command.
check_cobra_command(node) ==
    LET elements == OfKind(TheField(node, "body").children, {"keyed_element", "literal_element"})
        keyed(keys) == SelectSeq(elements, LAMBDA e : e.children[1].text \in keys)
    IN  IF /\ HasField(node, "type") /\ TheField(node, "type").text \in {"cobra.Command", "Command"}
           /\ HasField(node, "body")
           /\ \A e \in ToSet(elements) : e.children # <<>>
           /\ keyed({"Run", "RunE"}) # <<>>
        THEN Entry("cobra", "command",
                   IF keyed({"Use"}) = <<>> THEN "cobra command" ELSE Last(Last(keyed({"Use"})).children).text, node)
        ELSE <<>>

RECURSIVE walk_go_node(_, _)
walk_go_node(node, file) ==
    (IF node.kind = "call_expression" THEN check_router_call(node, file) ELSE <<>>)
    \o (IF node.kind = "composite_literal" /\ Mentions(file, "spf13/cobra") THEN check_cobra_command(node) ELSE <<>>)
    \o FlatMap(node.children, LAMBDA c : walk_go_node(c, file))

-----------------------------------------------------------------------------
(* Python *)

\* A decorator for a route is of FastAPI if the file mentions it, but @route is
\* of Flask if it mentions that.
check_route_decorator(decorator, name, file) ==
    LET fastapi == Mentions(file, "fastapi")
        flask == Mentions(file, "flask")
    IN  IF decorator.text \in ROUTE_DECORATORS /\ (fastapi \/ flask)
        THEN Entry(IF fastapi /\ (decorator.text # "route" \/ ~flask) THEN "fastapi" ELSE "flask", "route",
                   IF name = "" THEN decorator.text ELSE name, decorator)
        ELSE <<>>

\* A decorated class has no name here.
check_decorated_definition(node, file) ==
    LET defs == OfKind(node.children, {"function_definition"})
        name == IF defs = <<>> \/ ~HasField(defs[1], "name") THEN "" ELSE TheField(defs[1], "name").text
    IN  FlatMap(OfKind(node.children, {"decorator"}), LAMBDA d : check_route_decorator(d, name, file))

check_django_url_pattern(node) ==
    IF /\ HasField(node, "function") /\ TheField(node, "function").text \in {"path", "re_path"}
       /\ HasField(node, "arguments") /\ Len(TheField(node, "arguments").children) >= 2
       /\ TheField(node, "arguments").children[2].text # "include("
    THEN Entry("django", "url-pattern", TheField(node, "arguments").children[2].text, node) ELSE <<>>

check_django_class_view(node) ==
    IF /\ HasField(node, "name") /\ HasField(node, "superclasses")
       /\ TheField(node, "superclasses").text \in django_view_bases
    THEN Entry("django", "view", TheField(node, "name").text, node) ELSE <<>>

RECURSIVE walk_python_node(_, _)
walk_python_node(node, file) ==
    (IF node.kind = "decorated_definition" THEN check_decorated_definition(node, file) ELSE <<>>)
    \o (IF node.kind = "call" /\ Mentions(file, "django") THEN check_django_url_pattern(node) ELSE <<>>)
    \o (IF node.kind = "class_definition" /\ Mentions(file, "django") THEN check_django_class_view(node) ELSE <<>>)
    \o FlatMap(node.children, LAMBDA c : walk_python_node(c, file))

-----------------------------------------------------------------------------
(* The module *)

detect_framework_entries(file) ==
    CASE file.lang = "Go" -> walk_go_node(file.tree, file)
      [] file.lang = "Python" -> walk_python_node(file.tree, file)
      [] OTHER -> <<>>

\* Offered to the dead-code module, which does not ask.
get_alive_entry_points(files) == FlatMap(files, detect_framework_entries)

\* A finding for every entry, at its line, and one for every framework, nowhere.
analyze(files) ==
    LET entries == get_alive_entry_points(files)
    IN  [findings |-> [i \in DOMAIN files |->
                          {[rule_id |-> "framework-entry-point", start_line |-> e.line] :
                              e \in ToSet(detect_framework_entries(files[i]))}],
         frameworks_detected |-> {entries[k].framework : k \in DOMAIN entries}]

-----------------------------------------------------------------------------
(* The rules *)

describe == [id |-> "frameworks", rules |-> RULES]

\* Nothing for a rule of another module.
explain(rule_id) ==
    IF rule_id \notin DOMAIN RULES THEN <<>>
    ELSE <<[rule_id |-> rule_id, default_severity |-> RULES[rule_id], suppression |-> TRUE]>>
=============================================================================
