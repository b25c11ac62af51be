-------------------------- MODULE ExtractParameters -------------------------
(***************************************************************************)
(* inferExtractParameters of refactor-intelligence/src/analysis.ts: which  *)
(* parameters a function made of the selected code needs.                  *)
(*                                                                         *)
(* The source is its tokens, one string each; a token's place stands for   *)
(* the offsets of its two ends.                                            *)
(***************************************************************************)
EXTENDS Naturals, Sequences, SequencesExt, FiniteSets

CONSTANT Variables   \* the tokens for which isCandidate is true

KindOf == [list |-> "(", vector |-> "[", map |-> "{"]
Opens(token) == \E k \in DOMAIN KindOf : KindOf[k] = token
OpenedBy(token) == CHOOSE k \in DOMAIN KindOf : KindOf[k] = token
Closing == {")", "]", "}"}
QuoteMarks == {"'", "bq"}

-----------------------------------------------------------------------------
(* buildTree: the nodes that are open, the root first.  A closer closes    *)
(* whatever is open, never the root; what stays open ends at its opener.   *)

Branch(kind, i) == [kind |-> kind, children |-> <<>>, start |-> i - 1, end |-> i]
Leaf(token, i) == [kind |-> "atom", value |-> token, start |-> i - 1, end |-> i]

Adopt(stack, node) ==
    [stack EXCEPT ![Len(stack)] = [@ EXCEPT !.children = Append(@, node)]]
Fold(stack) == Adopt(Front(stack), Last(stack))

ReadToken(stack, token, i) ==
    CASE Opens(token) -> Append(stack, Branch(OpenedBy(token), i))
      [] token \in Closing ->
            IF Len(stack) = 1 THEN stack
            ELSE Fold([stack EXCEPT ![Len(stack)] = [@ EXCEPT !.end = i]])
      [] ~Opens(token) /\ token \notin Closing -> Adopt(stack, Leaf(token, i))

\* The tree of the tokens first..last.
BuildTree(tokens, first, last) ==
    LET stack == FoldLeft(LAMBDA s, i : ReadToken(s, tokens[i], i),
                          <<Branch("root", 1)>>, [k \in 1..(last + 1 - first) |-> first + k - 1])
        closed == FoldLeft(LAMBDA s, i : Fold(s), stack, [i \in 2..Len(stack) |-> i])
    IN [Head(closed) EXCEPT !.start = 0, !.end = last]

-----------------------------------------------------------------------------
(* The bindings of a form.                                                 *)

Composite(node) == node.kind # "atom"
Value(node) == IF Composite(node) THEN "" ELSE node.value
Child(node, i) == IF i <= Len(node.children) THEN {node.children[i]} ELSE {}
Children(node) == ToSet(node.children)

\* What can be reached from some nodes, in any number of steps.
Reached(nodes, Step(_)) ==
    LET level[k \in Nat] == IF k = 0 THEN nodes ELSE UNION {Step(n) : n \in level[k - 1]}
        from[k \in Nat] == IF level[k] = {} THEN {} ELSE level[k] \cup from[k + 1]
    IN from[0]

Parts(node) == IF Composite(node) THEN Children(node) ELSE {}
Nodes(tree) == Reached({tree}, Parts)

\* collectPattern; a map is a destructuring that is not looked into.
PatternParts(node) == IF node.kind \in {"list", "vector"} THEN Children(node) ELSE {}
Pattern(node) ==
    {n.value : n \in {m \in Reached({node}, PatternParts) : ~Composite(m)}} \cap Variables

Patterns(nodes) == UNION {Pattern(n) : n \in nodes}

LambdaHeads == {"lambda", "fn"}
DefunHeads == {"defun", "defmacro", "defn", "defn-", "defmacro-"}
LetHeads == {"let", "let*", "loop", "binding", "with-open", "doseq", "for"}

\* In a vector every other node is a name, in a list every pair begins with one.
LetNames(bindings) ==
    CASE bindings.kind = "vector" ->
            {bindings.children[i] : i \in {j \in DOMAIN bindings.children : j % 2 = 1}}
      [] bindings.kind = "list" ->
            UNION {Child(pair, 1) : pair \in {c \in Children(bindings) : c.kind = "list"}}
      [] OTHER -> {}

BindingsIntroduced(node) ==
    IF node.kind # "list" \/ node.children = <<>> THEN {}
    ELSE LET head == Value(node.children[1]) IN
         CASE head \in LambdaHeads -> Patterns(Child(node, 2))
           [] head \in DefunHeads -> Patterns(Child(node, 3))
           [] head \in LetHeads -> Patterns(UNION {LetNames(b) : b \in Child(node, 2)})
           [] OTHER -> {}

-----------------------------------------------------------------------------
(* What is bound around the selection, and in it.                          *)

\* findContainingPath.
Containing(tree, start, end) ==
    LET around(nodes) == {n \in nodes : n.start <= start /\ n.end >= end}
        step(node) == around({c \in Children(node) : Composite(c)})
    IN Reached(around({tree}), step)

Visible(tree, start, end) ==
    UNION {BindingsIntroduced(n) : n \in Containing(tree, start, end) \cup {tree}}

LocallyBound(tree) == UNION {BindingsIntroduced(n) : n \in Nodes(tree)}

-----------------------------------------------------------------------------
(* The walk: the variables of the selection, but for the head of a list    *)
(* and what follows a quote.                                               *)

IsFunctionHead(parent, i) == parent.kind = "list" /\ i = 1
(* Mutant: a quoted symbol counts as a use.                                *)
IsNeverQuoted(parent, i) == FALSE

IsQuoted(parent, i) == i > 1 /\ Value(parent.children[i - 1]) \in QuoteMarks

UsesIn(node) ==
    {node.children[i].value : i \in {j \in DOMAIN node.children :
        /\ ~Composite(node.children[j]) /\ node.children[j].value \in Variables
        /\ ~IsFunctionHead(node, j) /\ ~IsQuoted(node, j)}}
Uses(tree) == UNION {UsesIn(n) : n \in {m \in Nodes(tree) : Composite(m)}}

\* A binding form that is not understood is reported with the unresolved names
\* and only lowers the confidence; it is left out.
InferExtractParameters(tokens, first, last) ==
    LET visible == Visible(BuildTree(tokens, 1, Len(tokens)), first - 1, last)
        selected == BuildTree(tokens, first, last)
        used == Uses(selected) \ LocallyBound(selected)
    IN [parameters |-> used \cap visible, unresolved |-> used \ visible]

-----------------------------------------------------------------------------
(* The code as its author means it: forms, their tokens, and the variables *)
(* that are free in them.                                                  *)

PartsOfForm(form) ==
    CASE form.is \in {"variable", "quote"} -> {}
      [] form.is = "call" -> {form.first, form.second}
      [] form.is = "lambda" -> {form.body}
      [] form.is \in {"let", "vector let"} -> {form.value, form.body}
Subforms(form) == Reached({form}, PartsOfForm)

TokensOf(form) ==
    LET tokens[f \in Subforms(form)] ==
            CASE f.is = "variable" -> <<f.name>>
              [] f.is = "quote" -> <<"'", f.name>>
              [] f.is = "call" -> <<"(", "f">> \o tokens[f.first] \o tokens[f.second] \o <<")">>
              [] f.is = "lambda" -> <<"(", "lambda", "(", f.name, ")">> \o tokens[f.body] \o <<")">>
              [] f.is = "let" ->
                    <<"(", "let", "(", "(", f.name>> \o tokens[f.value] \o <<")", ")">>
                    \o tokens[f.body] \o <<")">>
              [] f.is = "vector let" ->
                    <<"(", "let", "[", f.name>> \o tokens[f.value] \o <<"]">>
                    \o tokens[f.body] \o <<")">>
    IN tokens[form]

Free(form) ==
    LET free[f \in Subforms(form)] ==
            CASE f.is = "variable" -> {f.name}
              [] f.is = "quote" -> {}
              [] f.is = "call" -> free[f.first] \cup free[f.second]
              [] f.is = "lambda" -> free[f.body] \ {f.name}
              [] f.is \in {"let", "vector let"} -> free[f.value] \cup (free[f.body] \ {f.name})
    IN free[form]

\* The names that are bound somewhere within a form.
BoundIn(form) == {f.name : f \in {g \in Subforms(form) : g.is \in {"lambda", "let", "vector let"}}}
=============================================================================
