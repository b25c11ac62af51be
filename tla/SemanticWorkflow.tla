--------------------------- MODULE SemanticWorkflow ---------------------------
(***************************************************************************)
(* One emacs_workflow call: the transaction coordinator of toolRouter.ts,  *)
(* which checkpoints the target buffer, edits, validates and evaluates it  *)
(* through ordinary tool calls, and commits or rolls back.  The human      *)
(* keeps typing, requests time out in the server while Emacs still works   *)
(* on them, and the connection may drop.                                   *)
(*                                                                         *)
(* The coordinator is sequential: it has at most one bridge request that   *)
(* it waits for.  A request that timed out stays on the socket, Emacs will *)
(* get to it, and its reply is dropped.  Only an evaluation lets Emacs     *)
(* read the socket before it is done (it waits for process output), so     *)
(* requests sent after a timed-out evaluation run inside it.               *)
(***************************************************************************)
EXTENDS Checkpoints, Sequences

CONSTANTS
    target,         \* the session's buffer
    chk,            \* the id the workflow's checkpoint gets
    Proposal,       \* the words the workflow's edits put into the buffer
    Result,         \* what an executed Babel block inserts
    Effect,         \* what evaluated Lisp itself writes into the buffer
    NoText,         \* nothing has been validated
    Operations      \* the semantic operations the caller may ask for

(* The ids are of Emacs and of its table of checkpoints, and there is a    *)
(* client to send the requests.  Words are told apart by who writes them:  *)
(* the proposal's are in no file, in no Babel block's results and in       *)
(* nothing that evaluated code writes.                                     *)
ASSUME WorkflowAssumption ==
    /\ target \in Buffers /\ chk \in Chk /\ Agents # {}
    /\ {Proposal, Result, Effect} \subseteq Words
    /\ Proposal \notin {Result, Effect, Blank} /\ \A t \in InitTexts, s \in Segs : t[s] # Proposal
    /\ NoText \notin Text
    /\ Operations \subseteq {"repair_lisp", "refactor_defun", "rename_symbol", "extract_function",
                             "move_form", "transform_sexp", "org_rewrite_subtree", "org_build_section"}

VARIABLES
    todo,           \* bridge requests still to come; the head is the current one
    waiting,        \* the current request is sent and pending in BridgeClient
    held,           \* the coordinator has the checkpoint id
    cause,          \* why it is rolling back: "none", "rejected", "error"
    outcome,        \* what emacs_workflow answered, "none" before it does
    wire,           \* requests sent that Emacs has not read
    reply,          \* the reply under way to the pending request
    connected,      \* the BridgeClient's socket is up
    evaluating,     \* the evaluation Emacs is in, "no" outside one
    validated       \* history: the text that validation last accepted

callVars == <<todo, waiting, held, cause, outcome>>
wireVars == <<wire, reply, connected, evaluating>>
workflowVars == <<vars, callVars, wireVars, validated>>

Replies == {"none", "ok", "bad", "error"}
Outcomes == {"none", "committed", "rolled_back", "error", "rollback_failed"}

(***************************************************************************)
(* A tool call observes, sends its own request, and observes again.  Reads *)
(* that change nothing and decide nothing are all "look"; navigations are  *)
(* left out, and so is all but one repetition of a repeated command.       *)
(***************************************************************************)
Tool(m) == <<"look", m, "look">>

(* Each operation's requests between its checkpoint and its commit.  What  *)
(* the caller may leave out of a call gives the operation several bodies.  *)
EvaluatedOrNot(body) == {body, body \o Tool("eval")}

RepairLisp == EvaluatedOrNot(Tool("edit") \o Tool("validate"))
ValidatedLispCommand == EvaluatedOrNot(Tool("edit") \o Tool("validate"))
RenameSymbol == EvaluatedOrNot(Tool("rename") \o Tool("validate"))
RefactorDefun ==
    EvaluatedOrNot(Tool("edit") \o Tool("validate") \o <<"identity">>)

ExtractFunction ==   \* the definition, the enclosing one, then the caller's
    LET edited == Tool("edit") \o Tool("validate") IN
    EvaluatedOrNot(edited) \cup EvaluatedOrNot(edited \o Tool("eval"))

OrgRewriteSubtree ==
    {Tool("edit") \o Tool("validate"),
     Tool("edit") \o Tool("edit_more") \o Tool("validate")}

(* Mutant: the Org builder does not validate again after the evaluation.   *)
OrgBuildValidatingOnce ==
    {Tool("edit") \o Tool("edit_more") \o Tool("validate") \o Tool("babel")}

OrgBuildSection ==
    LET built == Tool("edit") \o Tool("edit_more") \o Tool("validate") IN
    {built \o Tool("validate"), built \o Tool("babel") \o Tool("validate")}

Bodies(op) ==
    CASE op = "repair_lisp" -> RepairLisp
      [] op = "refactor_defun" -> RefactorDefun
      [] op = "rename_symbol" -> RenameSymbol
      [] op = "extract_function" -> ExtractFunction
      [] op \in {"move_form", "transform_sexp"} -> ValidatedLispCommand
      [] op = "org_rewrite_subtree" -> OrgRewriteSubtree
      [] op = "org_build_section" -> OrgBuildSection

(* What is read before the checkpoint: the bounds of the defun that is to  *)
(* be replaced, or a name, a title or an analysis to compare with.         *)
Before(op) ==
    CASE op = "refactor_defun" -> {<<"bounds">>}
      [] op = "org_rewrite_subtree" -> {<<"look">>}
      [] op \in {"rename_symbol", "extract_function"} -> {<<>>, <<"look">>}
      [] OTHER -> {<<>>}

(* Mutant: the checkpoint is taken after the changes it is to undo.        *)
LateTransaction(body) == <<"look">> \o body \o <<"create">> \o Tool("commit")

Transaction(body) == <<"look", "create">> \o body \o Tool("commit")

Plans(op) == {<<"look">> \o first \o Transaction(body) \o <<"look">> :
                first \in Before(op), body \in Bodies(op)}

(* workflowRollback; a rejected proposal is then reported like a success,  *)
(* after the closing observation of emacs_workflow itself.                 *)
Undo(why) == Tool("rollback") \o (IF why = "rejected" THEN <<"look">> ELSE <<>>)

WorkflowInit ==
    /\ Init
    /\ Live(target)
    /\ \E op \in Operations : todo \in Plans(op)
    /\ waiting = FALSE /\ held = FALSE /\ cause = "none" /\ outcome = "none"
    /\ wire = <<>> /\ reply = "none" /\ connected = TRUE /\ evaluating = "no"
    /\ validated = NoText

-----------------------------------------------------------------------------
(* The coordinator.                                                        *)

(* Mutant: a failed rollback is reported like any other error.             *)
ThrowPlainly ==
    IF cause = "none" /\ held /\ Len(todo) > 1
    THEN cause' = "error" /\ todo' = Undo("error") /\ UNCHANGED <<held, outcome>>
    ELSE outcome' = "error" /\ todo' = <<>> /\ UNCHANGED <<held, cause>>

(* The current step of the workflow throws: inside the try block the       *)
(* coordinator rolls back, inside workflowRollback it gives up with        *)
(* E_ROLLBACK_FAILED, elsewhere the error is the answer.                   *)
Throw ==
    IF cause = "none" /\ held /\ Len(todo) > 1 THEN
        /\ cause' = "error" /\ todo' = Undo("error")
        /\ UNCHANGED <<held, outcome>>
    ELSE
        /\ outcome' = IF cause = "error" \/ (cause = "rejected" /\ Len(todo) > 1)
                      THEN "rollback_failed" ELSE "error"
        /\ todo' = <<>>
        /\ UNCHANGED <<held, cause>>

(* The current step returned.                                              *)
Advance ==
    /\ todo' = Tail(todo)
    /\ held' = (held \/ Head(todo) = "create")
    /\ cause' = cause
    /\ outcome' = IF Len(todo) > 1 THEN "none"
                  ELSE CASE cause = "none" -> "committed"
                         [] cause = "rejected" -> "rolled_back"
                         [] cause = "error" -> "error"

(* workflowProposalFailure                                                 *)
Reject ==
    /\ cause' = "rejected" /\ todo' = Undo("rejected")
    /\ UNCHANGED <<held, outcome>>

Send ==
    /\ outcome = "none" /\ ~waiting
    /\ IF connected
       THEN /\ wire' = Append(wire, Head(todo)) /\ waiting' = TRUE
            /\ UNCHANGED <<todo, held, cause, outcome>>
       ELSE Throw /\ UNCHANGED <<wire, waiting>>
    /\ UNCHANGED <<vars, reply, connected, evaluating, validated>>

(* Up to the commit the coordinator may still find an argument, a name, a  *)
(* title or the shape of an answer wrong.                                  *)
Questionable == \E n \in 2..Len(todo) : todo[n] = "commit"

Receive ==
    /\ waiting /\ reply # "none"
    /\ waiting' = FALSE /\ reply' = "none"
    /\ CASE reply = "ok" -> Advance \/ (Questionable /\ Throw)
         [] reply = "bad" -> Reject
         [] reply = "error" -> Throw
    /\ UNCHANGED <<vars, wire, connected, evaluating, validated>>

(* Mutant: evaluations are waited for without a limit.                     *)
TimeoutUnlessEvaluating ==
    /\ waiting /\ Head(todo) \notin {"eval", "babel"}
    /\ waiting' = FALSE /\ reply' = "none"
    /\ Throw
    /\ UNCHANGED <<vars, wire, connected, evaluating, validated>>

(* BridgeClient.request gives up; the request is not taken back.           *)
Timeout ==
    /\ waiting
    /\ waiting' = FALSE /\ reply' = "none"
    /\ Throw
    /\ UNCHANGED <<vars, wire, connected, evaluating, validated>>

(* The socket closes; Emacs may still read some of what was sent.          *)
Disconnect ==
    /\ connected
    /\ connected' = FALSE /\ waiting' = FALSE /\ reply' = "none"
    /\ \E n \in 0..Len(wire) : wire' = SubSeq(wire, 1, n)
    /\ IF waiting THEN Throw ELSE UNCHANGED <<todo, held, cause, outcome>>
    /\ UNCHANGED <<vars, evaluating, validated>>

-----------------------------------------------------------------------------
(* Emacs.                                                                  *)

(* Mutant: replies are not matched to the pending request.                 *)
AnswerAnyone(r) ==
    /\ wire' = Tail(wire)
    /\ reply' = r
    /\ UNCHANGED <<callVars, connected>>

(* The request at the head of the wire is answered with r, if anyone still *)
(* waits for it.                                                           *)
Answer(r) ==
    /\ wire' = Tail(wire)
    /\ reply' = IF waiting /\ Len(wire) = 1 THEN r ELSE reply
    /\ UNCHANGED <<callVars, connected>>

Reading(methods) == enabled /\ wire # <<>> /\ Head(wire) \in methods

Refusable(m) ==
    CASE m \in {"look", "bounds", "create"} -> ~Live(target)
      [] m = "commit" -> status[chk] # "open"
      [] m = "rollback" -> (status[chk] = "open" => ~RollbackAllowed(chk))
      [] OTHER -> TRUE

Refuse ==
    /\ Reading({Head(wire)}) /\ Refusable(Head(wire))
    /\ Answer("error")
    /\ UNCHANGED <<vars, evaluating, validated>>

Look ==
    /\ Reading({"look", "bounds"}) /\ Live(target)
    /\ Answer("ok")
    /\ UNCHANGED <<vars, evaluating, validated>>

(* adapter_observe after the edit: is it still the expected defun?         *)
Identify ==
    /\ Reading({"identity"}) /\ Live(target)
    /\ \E r \in {"ok", "bad"} : Answer(r)
    /\ UNCHANGED <<vars, evaluating, validated>>

Create ==
    /\ Reading({"create"})
    /\ CheckpointCreate(chk, target)
    /\ Answer("ok")
    /\ UNCHANGED <<evaluating, validated>>

(* edit.apply or an allowlisted command, without a caller's precondition;  *)
(* a rename may find nothing to replace.                                   *)
ApplyEdit ==
    /\ Reading({"edit", "edit_more", "rename"})
    /\ \/ /\ \E s \in Segs : WriteRegion(target, s, Proposal, "rpc")
          /\ Answer("ok")
       \/ /\ Head(wire) = "rename" /\ Live(target)
          /\ Answer("bad")
          /\ UNCHANGED emacsVars
    /\ UNCHANGED <<chkVars, evaluating, validated>>

Validate ==
    /\ Reading({"validate"}) /\ Live(target)
    /\ \/ Answer("ok") /\ validated' = buf[target].text
       \/ Answer("bad") /\ UNCHANGED validated
    /\ UNCHANGED <<vars, evaluating>>

StartEval ==
    /\ Reading({"eval", "babel"}) /\ Live(target) /\ evaluating = "no"
    /\ evaluating' = Head(wire)
    /\ wire' = Tail(wire)
    /\ UNCHANGED <<vars, callVars, reply, connected, validated>>

(* A Babel block inserts its results.  Other evaluations are of Lisp in    *)
(* the buffer, which in Emacs Lisp's modes eval runs with that buffer      *)
(* current: it may insert or delete there as it pleases.                   *)
WrittenBy(evaluation) == IF evaluation = "babel" THEN Result ELSE Effect

(* The evaluation ends, with a value, a wrong value or a condition, or an  *)
(* error, and may have changed the buffer.                                 *)
FinishEval ==
    /\ evaluating # "no"
    /\ evaluating' = "no"
    /\ \E r \in {"ok", "bad", "error"} :
          reply' = IF waiting /\ Head(todo) = evaluating THEN r ELSE reply
    /\ \/ UNCHANGED emacsVars
       \/ \E s \in Segs : WriteRegion(target, s, WrittenBy(evaluating), "rpc")
    /\ UNCHANGED <<chkVars, callVars, wire, connected, validated>>

Commit ==
    /\ Reading({"commit"})
    /\ CheckpointCommit(chk)
    /\ Answer("ok")
    /\ UNCHANGED <<evaluating, validated>>

Rollback ==
    /\ Reading({"rollback"})
    /\ CheckpointRollback(chk)
    /\ Answer("ok")
    /\ UNCHANGED <<evaluating, validated>>

Emacs == \/ Refuse \/ Look \/ Identify \/ Create \/ ApplyEdit \/ Validate
         \/ StartEval \/ FinishEval \/ Commit \/ Rollback

-----------------------------------------------------------------------------
(* The human types, saves and kills between requests, never inside one;    *)
(* what else a human may do to a checkpointed buffer is in Checkpoints.    *)
Human ==
    /\ evaluating = "no"
    /\ \/ \E s \in Segs, w \in Words \ {Proposal, Result, Effect} : HumanEdit(target, s, w)
       \/ Save(target)
       \/ Kill(target)
    /\ UNCHANGED <<chkVars, callVars, wireVars, validated>>

(* emacs-operator-mode off: the server process and its clients go.         *)
StopBridge ==
    /\ evaluating = "no"
    /\ ModeOff
    /\ connected' = FALSE /\ wire' = <<>> /\ waiting' = FALSE /\ reply' = "none"
    /\ IF waiting THEN Throw ELSE UNCHANGED <<todo, held, cause, outcome>>
    /\ UNCHANGED <<evaluating, validated>>

WorkflowNext ==
    \/ Send \/ Receive \/ Timeout \/ Disconnect
    \/ Emacs \/ Human \/ StopBridge
    \/ ForeignStep /\ UNCHANGED <<chkVars, callVars, wireVars, validated>>

(* Node runs what is ready and its timers fire; nothing is assumed of      *)
(* Emacs, of the socket or of the human.                                   *)
WorkflowSpec ==
    /\ WorkflowInit /\ [][WorkflowNext]_workflowVars
    /\ WF_workflowVars(Send) /\ WF_workflowVars(Receive) /\ WF_workflowVars(Timeout)

-----------------------------------------------------------------------------
(* Every variable has its type; the coordinator waits for a request only   *)
(* while its socket is up and the call is not answered, and the wire holds *)
(* nothing once the call has been answered without trouble.                *)
WorkflowTypeOK ==
    /\ TypeOK
    /\ waiting \in BOOLEAN /\ held \in BOOLEAN /\ connected \in BOOLEAN
    /\ cause \in {"none", "rejected", "error"}
    /\ outcome \in Outcomes /\ reply \in Replies
    /\ evaluating \in {"no", "eval", "babel"}
    /\ waiting => connected /\ outcome = "none"
    /\ reply # "none" => waiting /\ wire = <<>>
    /\ (todo = <<>>) <=> (outcome # "none")
    /\ outcome \in {"committed", "rolled_back"} => wire = <<>> /\ evaluating = "no"

(* A checkpoint is committed only over edits that validation has accepted: *)
(* whatever the workflow's edits, and the Babel blocks of an Org section,  *)
(* last wrote into the buffer is what the validator saw.  What the human   *)
(* typed since is theirs; and the Lisp operations evaluate after the last  *)
(* validation, so what evaluated code wrote is committed unseen.           *)
CommitIsEarned ==
    [][status[chk] = "open" /\ status'[chk] = "committed" /\ Live(target) =>
        /\ validated # NoText
        /\ \A s \in Segs : author[target][s] = "rpc" =>
                buf[target].text[s] \in {validated[s], Effect}]_workflowVars

(* Every answer but E_ROLLBACK_FAILED tells what became of the checkpoint: *)
(* "committed" and "rolled_back" mean what they say, and an error that the *)
(* coordinator answers once it has the checkpoint's id leaves it committed *)
(* or rolled back, never open and never cleared away with its edits kept.  *)
AnswerIsSettled ==
    /\ outcome \in {"committed", "rolled_back"} => status[chk] = outcome
    /\ outcome = "error" /\ held => status[chk] \in {"committed", "rolled_back"}

(* When the call answers "rolled_back", or an error that is not            *)
(* E_ROLLBACK_FAILED and comes before the commit, no word of the proposal  *)
(* is in the buffer, now or later: no edit that timed out reaches Emacs    *)
(* after the rollback that was to undo it.  (What an evaluation that timed *)
(* out writes after it is among the effects the answer warns of.)          *)
Leftover(w) ==
    Live(target) /\ \E s \in Segs : /\ author[target][s] = "rpc"
                                    /\ buf[target].text[s] = w

ProposalIsGone ==
    outcome \in {"rolled_back", "error"} /\ status[chk] # "committed"
        => ~Leftover(Proposal)

(* Every emacs_workflow call is answered, however slow or dead Emacs is.   *)
EveryCallIsAnswered == <>(outcome # "none")

=============================================================================
