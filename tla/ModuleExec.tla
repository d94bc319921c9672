----------------------------- MODULE ModuleExec -----------------------------
(***************************************************************************)
(* The generated mod_exec of a Universal HPy module (HPyModuleWriter.py,   *)
(* _render_module_exec): it makes values one after the other and publishes *)
(* each as an attribute of the module.  Every call may fail.  If the error *)
(* is a MemoryError, what was published is taken back, in the reverse of   *)
(* the order of first publications, and the error is set again, since a    *)
(* deletion may clear it; any other error is left alone, and so are the    *)
(* attributes.  An expression may also find an error by a test of its own  *)
(* (a name that is not defined, a keyword given twice): it leaves mod_exec *)
(* by another way, which deletes the functions and nothing else, and does  *)
(* not set the error again.                                                *)
(*                                                                         *)
(* Handles are not modelled here (see FunctionWriter).                     *)
(***************************************************************************)
EXTENDS Naturals, FiniteSets, SequencesExt

CONSTANTS Methods,        \* the module's functions, attributes from the start
          Globals,        \* names that statements assign or import
          Constants,      \* "builtins" and cached constants
          TypeDefaults,   \* defaults of the methods of types
          Types,          \* extension and closure types, bases first
          Defaults,       \* defaults of the module's functions
          MaxStatements,  \* bound: assignments and imports of the module
          MaxRemaining,   \* bound: names whose deletion fails
          NoError

ASSUME ExecAssumption ==
    /\ IsFiniteSet(Methods) /\ IsFiniteSet(Constants)
    /\ IsFiniteSet(TypeDefaults) /\ IsFiniteSet(Defaults)
    /\ Types \in Seq(ToSet(Types)) /\ MaxStatements \in Nat /\ MaxRemaining \in Nat
    /\ NoError \notin {"memory", "other", "deletion"}

VARIABLES plan,          \* the publications still to be made, in order
          value,         \* the name whose value has been made, or {}
          attributes,    \* of the module: the names it has
          published,     \* the names recorded for a rollback, the first to go first
          undo,          \* the deletions still to be made
          error,         \* the active exception
          exec,          \* "running", "done", "undoing" and then "failed", or
                         \* "leaving" and then "left" by an expression's own exit
          cause,         \* history: the error that ended it
          publications,  \* history: the names in the order they were published
          remaining      \* history: the names whose deletion failed

execVars == <<plan, value, attributes, published, undo, error, exec, cause,
              publications, remaining>>

\* Names whose value may be any expression; the others take a call or two.
Expressions == Globals \cup TypeDefaults \cup Defaults
Names == Methods \cup Constants \cup ToSet(Types) \cup Expressions

\* The variables keep their types; what is still to be made, to be taken back
\* and has been recorded are names of the module.
ExecTypeOK ==
    /\ plan \in Seq(Names) /\ undo \in Seq(Names)
    /\ published \in Seq(Names) /\ publications \in Seq(Names)
    /\ value \in SUBSET Names /\ Cardinality(value) <= 1
    /\ attributes \subseteq Names /\ remaining \subseteq Names
    /\ exec \in {"running", "done", "undoing", "failed", "leaving", "left"}
    /\ {error, cause} \subseteq {"memory", "other", "deletion", NoError}

\* The order of _render_module_exec: constants, defaults of type methods, types,
\* the statements as written, and the defaults of functions last.  A statement
\* may assign a name again, a function's too.
ExecInit ==
    /\ \E statements \in UNION {[1 .. n -> Globals] : n \in 0 .. MaxStatements} :
         plan = SetToSeq(Constants) \o SetToSeq(TypeDefaults) \o Types
                  \o statements \o SetToSeq(Defaults)
    /\ value = {} /\ attributes = Methods
    /\ published = <<>> /\ undo = <<>> /\ publications = <<>> /\ remaining = {}
    /\ error = NoError /\ cause = NoError /\ exec = "running"

------------------------------------------------------------------------------
\* Evaluate an expression, import a module, make a type.
Make ==
    /\ exec = "running" /\ plan # <<>> /\ value = {}
    /\ value' = {Head(plan)}
    /\ UNCHANGED <<plan, attributes, published, undo, error, exec, cause,
                   publications, remaining>>

\* Mutant: a name is recorded behind those recorded before it.
Mut_RecordLast(name) ==
    IF name \in ToSet(published) THEN published ELSE Append(published, name)
\* record_module_publication: the first publication of a name counts.
Recorded(name) == IF name \in ToSet(published) THEN published ELSE <<name>> \o published

Publish ==
    /\ exec = "running" /\ value # {}
    /\ attributes' = attributes \cup value
    /\ published' = Recorded(Head(plan))
    /\ publications' = Append(publications, Head(plan))
    /\ plan' = Tail(plan) /\ value' = {}
    /\ UNCHANGED <<undo, error, exec, cause, remaining>>

\* Making or publishing a value fails: _emit_module_failure_exit_preserving_memory.
\* The functions go first, in the order of their names.
Fail(kind) ==
    /\ exec = "running" /\ plan # <<>>
    /\ error' = kind /\ cause' = kind /\ value' = {}
    /\ IF kind = "memory"
       THEN exec' = "undoing" /\ undo' = SetToSeq(Methods) \o published
       ELSE exec' = "failed" /\ undo' = undo
    /\ UNCHANGED <<plan, attributes, published, publications, remaining>>

\* An expression finds an error by a test of its own, or looks up the keys of a
\* ** argument and fails: _emit_failure_exit, with the failure epilogue.
Leave(kind) ==
    /\ exec = "running" /\ value = {}
    /\ plan # <<>> /\ Head(plan) \in Expressions
    /\ error' = kind /\ cause' = kind
    /\ exec' = "leaving" /\ undo' = SetToSeq(Methods)
    /\ UNCHANGED <<plan, value, attributes, published, publications, remaining>>

\* A deletion that succeeds may clear the error.  One that fails, as that of a
\* name that is not there does, sets an error of its own; nobody looks at it.
DeletionSucceeds(name) ==
    /\ name \in attributes
    /\ attributes' = attributes \ {name} /\ remaining' = remaining
    /\ error' \in {error, NoError}

DeletionFails(name) ==
    /\ error' = "deletion" /\ attributes' = attributes
    /\ remaining' = remaining \cup ({name} \cap attributes)
    /\ Cardinality(remaining') <= MaxRemaining                                  \* bound

Unpublish ==
    /\ exec \in {"undoing", "leaving"} /\ undo # <<>>
    /\ DeletionSucceeds(Head(undo)) \/ DeletionFails(Head(undo))
    /\ undo' = Tail(undo)
    /\ UNCHANGED <<plan, value, published, exec, cause, publications>>

\* Mutant: the error is not set again.
Mut_ErrorAfter(kind) == error
ErrorAfter(kind) == "memory"

GiveUp ==
    /\ exec = "undoing" /\ undo = <<>>
    /\ error' = ErrorAfter(cause)
    /\ exec' = "failed"
    /\ UNCHANGED <<plan, value, attributes, published, undo, cause, publications, remaining>>

\* The end of the other way out: the error is what the deletions made of it.
ReturnAnyway ==
    /\ exec = "leaving" /\ undo = <<>>
    /\ exec' = "left"
    /\ UNCHANGED <<plan, value, attributes, published, undo, error, cause,
                   publications, remaining>>

Finish ==
    /\ exec = "running" /\ plan = <<>>
    /\ exec' = "done"
    /\ UNCHANGED <<plan, value, attributes, published, undo, error, cause,
                   publications, remaining>>

ExecNext ==
    \/ Make \/ Publish
    \/ \E kind \in {"memory", "other"} : Fail(kind) \/ Leave(kind)
    \/ Unpublish \/ GiveUp \/ ReturnAnyway \/ Finish

ExecSpec == ExecInit /\ [][ExecNext]_execVars

------------------------------------------------------------------------------
\* A module whose mod_exec fails in a call whose result is tested reports the
\* error of that call, and no error after a success; after a MemoryError nothing
\* of what was published is left, and none of the functions, but what could not
\* be deleted (_emit_module_failure_exit_preserving_memory).
FailureIsReported ==
    /\ exec = "failed" => error = cause /\ cause # NoError
    /\ exec = "done" => error = NoError
    /\ exec = "failed" /\ cause = "memory" => attributes \subseteq remaining

\* The same of every failure: whichever way mod_exec ends, its error arrives.
\* The exits of expressions (load_module_global and others) do not keep it.
ErrorArrives == exec \in {"failed", "left"} => error = cause

\* In a list, a is before every b.
IsBefore(list, a, b) ==
    \E i \in DOMAIN list : list[i] = a /\ \A j \in 1 .. i : list[j] # b

\* What is taken back goes in the reverse order of first publications: while an
\* attribute goes, what is still there was first published before it, but for
\* what could not be deleted.  (The functions, which mod_exec did not publish,
\* go before everything.)
LatestGoesFirst ==
    [][\A gone \in (attributes \ attributes') \ Methods, there \in attributes' \ remaining :
          IsBefore(publications, there, gone)]_execVars

\* The order that the comment in record_module_publication names, the exact
\* reverse of publications: what is still there was last published before what
\* goes.  A name that is assigned again keeps its first place in the record.
ExactlyReversed ==
    [][\A gone \in (attributes \ attributes') \ Methods, there \in attributes' \ remaining :
          IsBefore(Reverse(publications), gone, there)]_execVars
==============================================================================
