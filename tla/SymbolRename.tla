---------------------------- MODULE SymbolRename ----------------------------
(***************************************************************************)
(* Renaming a Lisp symbol: what a symbol is in its language and which new  *)
(* names it may take (symbol-semantics.ts), and the plan of a rename over  *)
(* the files of a project, its check and its application (rename-plan.ts). *)
(***************************************************************************)
EXTENDS LispText, FiniteSets, FiniteSetsExt, Functions

CONSTANTS MaxFiles, MaxBytes, MaxEdits

Languages == {"generic", "elisp", "clojure", "common_lisp"}
Policies == {"exact", "preserve_qualification", "leaf_only"}

Upper(s) == [i \in DOMAIN s |-> IF s[i] = "a" THEN "A" ELSE s[i]]
Folded(s, lang) == IF lang = "common_lisp" THEN Upper(s) ELSE s
From(s, i) == SubSeq(s, i, Len(s))

\* indexOf and lastIndexOf, from 1; 0 when the separator is not there.
Places(s, sep) == {i \in 1..(Len(s) - Len(sep) + 1) : SubSeq(s, i, i + Len(sep) - 1) = sep}
First(s, sep) == Min(Places(s, sep) \cup {Len(s) + 1}) % (Len(s) + 1)
Final(s, sep) == Max(Places(s, sep) \cup {0})

Slash == <<"/">>
Colon == <<":">>
Colons == <<":", ":">>

-----------------------------------------------------------------------------
(* describeLispSymbol.  A qualifier of <<>> is none.                       *)

Plain(s, lang) == [kind |-> "plain_symbol", qualifier |-> <<>>, separator |-> <<>>,
                   name |-> s, renameable |-> TRUE, identity |-> Folded(s, lang)]
Fixed(s, lang, kind) == [Plain(s, lang) EXCEPT !.kind = kind, !.renameable = FALSE]

\* qualifier, separator, name: one separator, and something on both sides.
Qualified(s, lang, sep, kind) ==
    LET i == First(s, sep)
        name == From(s, i + Len(sep))
    IN IF i = 1 \/ i # Final(s, sep) \/ name = <<>> \/ (sep = Colons /\ First(name, Colon) # 0)
       THEN Fixed(s, lang, "invalid_symbol")
       ELSE [Plain(s, lang) EXCEPT !.kind = kind, !.qualifier = SubSeq(s, 1, i - 1),
                                   !.separator = sep, !.name = name]

InClojure(s) ==
    CASE Head(s) = ":" -> Fixed(s, "clojure", "keyword")
      [] Head(s) = "#" -> Fixed(s, "clojure", "reader_sensitive")
      [] Head(s) \notin {":", "#"} /\ s # Slash /\ First(s, Slash) # 0 ->
            Qualified(s, "clojure", Slash, "qualified_symbol")
      [] OTHER -> IF Last(s) = "#" THEN Fixed(s, "clojure", "auto_gensym_symbol")
                  ELSE Plain(s, "clojure")

InCommonLisp(s) ==
    CASE Two(s, 1, "#", ":") -> Fixed(s, "common_lisp", "uninterned_symbol")
      [] Head(s) = ":" -> Fixed(s, "common_lisp", "keyword")
      [] OTHER -> IF First(s, Colons) # 0
                  THEN Qualified(s, "common_lisp", Colons, "package_internal_symbol")
                  ELSE IF First(s, Colon) # 0
                  THEN Qualified(s, "common_lisp", Colon, "package_external_symbol")
                  ELSE Plain(s, "common_lisp")

Describe(s, lang) ==
    IF ToSet(s) \cap {"|", "\\"} # {} THEN Fixed(s, lang, "escaped_or_reader_sensitive")
    ELSE CASE lang = "clojure" -> InClojure(s)
           [] lang = "common_lisp" -> InCommonLisp(s)
           [] lang \in {"generic", "elisp"} ->
                 IF Head(s) = ":" THEN Fixed(s, lang, "keyword") ELSE Plain(s, lang)

-----------------------------------------------------------------------------
(* prepareSymbolRename: the effective new name, or an error.               *)

\* The router's language, when the caller names none: by the buffer's mode.
LanguageOf(mode) ==
    CASE mode \in {"emacs-lisp-mode", "lisp-interaction-mode"} -> "elisp"
      [] mode \in {"clojure-mode", "clojurescript-mode", "clojurec-mode"} -> "clojure"
      [] mode \in {"lisp-mode", "common-lisp-mode", "sly-mrepl-mode", "slime-repl-mode"} -> "common_lisp"
      [] OTHER -> "generic"

DefaultPolicy(lang) == IF lang \in {"generic", "elisp"} THEN "exact" ELSE "preserve_qualification"

(* Mutant: only the kinds of the two symbols are compared.                 *)
SameKind(d, e, lang) == d.kind = e.kind

SameQualification(d, e, lang) ==
    /\ d.kind = e.kind /\ d.separator = e.separator
    /\ Folded(d.qualifier, lang) = Folded(e.qualifier, lang)

EffectiveNew(old, new, lang, policy) ==
    LET d == Describe(old, lang)
        e == Describe(new, lang)
    IN IF policy = "leaf_only" /\ d.qualifier # <<>> /\ e.qualifier = <<>> /\ e.renameable
       THEN d.qualifier \o d.separator \o e.name ELSE new

PrepareRename(old, new, lang, policy) ==
    LET effective == EffectiveNew(old, new, lang, policy)
        d == Describe(old, lang)
        e == Describe(effective, lang)
        answer(code) == [status |-> code, name |-> effective]
    IN CASE ~ValidLispSymbol(old) \/ ~ValidLispSymbol(new) -> answer("TypeError")
         [] OTHER ->
              IF ~d.renameable \/ ~e.renameable THEN answer("E_SYMBOL_NOT_RENAMEABLE")
              ELSE IF d.identity = e.identity THEN answer("E_SYMBOL_IDENTITY_UNCHANGED")
              ELSE IF policy # "exact" /\ ~SameQualification(d, e, lang)
              THEN answer("E_SYMBOL_QUALIFICATION_CHANGE")
              ELSE answer("ok")

-----------------------------------------------------------------------------
(* The plan: the files, each with its content and its edits.  The hash of  *)
(* a content is the content.                                               *)

EditsFor(content, old) ==
    SelectSeq(ScanLisp(content).tokens, LAMBDA e : e.type = "symbol" /\ e.value = old)

Total(size) == FoldFunction(+, 0, size)
WithinLimits(files, old) ==
    /\ Cardinality(DOMAIN files) <= MaxFiles
    /\ Total([f \in DOMAIN files |-> Len(files[f])]) <= MaxBytes
    /\ Total([f \in DOMAIN files |-> Len(EditsFor(files[f], old))]) <= MaxEdits

\* A file without an edit is not in the plan.
CreatePlan(files, old, new) ==
    [old |-> old, new |-> new,
     files |-> [f \in {g \in DOMAIN files : EditsFor(files[g], old) # <<>>} |->
                  [hash |-> files[f], edits |-> EditsFor(files[f], old)]]]

\* validateRenamePlan, given that the plan is as it was made.
EditsAreInOrder(edits) ==
    \A i \in DOMAIN edits : /\ edits[i].end > edits[i].start
                            /\ i > 1 => edits[i].start >= edits[i - 1].end

(* Mutant: the edits are made from the first to the last, where the plan   *)
(* says: each moves those after it.                                        *)
ApplyEditsForward(content, edits, new) ==
    FoldLeft(LAMBDA c, e : SubSeq(c, 1, e.start) \o new \o From(c, e.end + 1), content, edits)

\* applyEdits: from the last to the first.
ApplyEdits(content, edits, new) ==
    FoldRight(LAMBDA e, c : SubSeq(c, 1, e.start) \o new \o From(c, e.end + 1), edits, content)

\* applyRenamePlanToMap: contents that are not as planned refuse all of it.
ApplyPlan(plan, contents) ==
    IF \A f \in DOMAIN plan.files : /\ f \in DOMAIN contents
                                    /\ contents[f] = plan.files[f].hash
                                    /\ EditsAreInOrder(plan.files[f].edits)
    THEN [status |-> "ok",
          contents |-> [f \in DOMAIN contents |->
             IF f \in DOMAIN plan.files
             THEN ApplyEdits(contents[f], plan.files[f].edits, plan.new) ELSE contents[f]]]
    ELSE [status |-> "stale"]
=============================================================================
