----------------------------- MODULE FormEngine -----------------------------
(***************************************************************************)
(* The forms of a screen: core/src/forms keeps, beside the values users    *)
(* type, the flags of every field (touched, dirty, errors) and of every    *)
(* form (isValid, errorCount, isDirty) at /ui/forms, by listening to the   *)
(* paths of the fields and to those their rules refer to.  The renderer    *)
(* makes an engine while it renders a spec and destroys the one before in  *)
(* an effect, so for a while two of them listen.  The action submitForm    *)
(* validates a form before it sends it.                                    *)
(***************************************************************************)
EXTENDS Integers, Sequences, FiniteSets, SequencesExt, FiniteSetsExt

CONSTANTS
    Fields,      \* the fields of every form, in order
    PathOf,      \* the state path of every field
    Rules,       \* its rules, [type, ref, arg]: the argument is at the path ref, if that is one
    Value,       \* what a user may enter
    Documents,   \* what an answer may put at the path above all values
    MaxRequests, MaxEngines, \* bounds
    PatientForms \* whether users wait for a submission to be answered

VARIABLES
    form,        \* what the store holds: values, the flags of the fields and of the forms
    engines,     \* the initial values of every engine that listens, the oldest first
    requests,    \* the submissions sent, [form, open]
    submitting,  \* /ui/submitting
    created      \* how many engines were made

formVars == <<form, engines, requests, submitting, created>>

Forms == DOMAIN Fields
Field == UNION {ToSet(Fields[f]) : f \in Forms}
FieldPath == {PathOf[d] : d \in Field}
-----------------------------------------------------------------------------
(* Rules.  A value has a kind, the numbers it converts to ({} for NaN), its length and *)
(* its length without blanks at the ends, and the formats it has. *)

Missing == [kind |-> "missing", num |-> {}, len |-> 0, trimmed |-> 0, fits |-> {}]
Number(n) == [kind |-> "number", num |-> {n}, len |-> 0, trimmed |-> 0, fits |-> {}]
Truthy(v) == CASE v.kind = "text" -> v.len > 0 [] v.kind = "number" -> v.num # {0} [] OTHER -> FALSE

Required(v) == v.kind # "missing" /\ (v.kind = "text" => v.trimmed > 0)
FullText(v) == v.kind = "text" /\ v.len > 0

\* BUILTIN_VALIDATORS; a registered validator is a format, an unknown type an error.
Passes(type, v, arg) ==
    CASE type = "required" -> Required(v)
      [] type \in {"email", "url", "pattern", "registered"} -> FullText(v) => type \in v.fits
      [] type = "minLength" -> FullText(v) => \A n \in arg.num : v.len >= n
      [] type = "maxLength" -> FullText(v) => \A n \in arg.num : v.len <= n
      [] type = "min" -> \A x \in v.num, n \in arg.num : x >= n
      [] type = "max" -> \A x \in v.num, n \in arg.num : x <= n
      [] type = "numeric" -> FullText(v) => v.num # {}
      [] type \in {"matches", "equalTo"} -> v.kind = "missing" \/ v = arg
      [] type = "lessThan" -> v.kind = "missing" \/ \E x \in v.num, y \in arg.num : x < y
      [] type = "greaterThan" -> v.kind = "missing" \/ \E x \in v.num, y \in arg.num : x > y
      [] type = "requiredIf" -> Truthy(arg) => Required(v)
      [] OTHER -> FALSE

\* The paths a rule's argument is read from.
RefsOf(d) == {Rules[d][i].ref : i \in DOMAIN Rules[d]} \ {""}

\* validate: the errors of a field are the rules it does not pass.
Failing(values, d) ==
    {i \in DOMAIN Rules[d] :
        LET rule == Rules[d][i]
        IN  ~Passes(rule.type, values[PathOf[d]], IF rule.ref = "" THEN rule.arg ELSE values[rule.ref])}
-----------------------------------------------------------------------------
(* The engine *)

ErrorsShown(fields, f) == MapThenSumSet(LAMBDA d : Cardinality(fields[d].errors), ToSet(Fields[f]))

\* recomputeFormState.  byReset says who wrote the flags last.
Recomputed(values, fields, f) ==
    [valid |-> \A d \in ToSet(Fields[f]) : Failing(values, d) = {},
     errors |-> ErrorsShown(fields, f),
     dirty |-> \E d \in ToSet(Fields[f]) : fields[d].dirty,
     byReset |-> FALSE]

Recompute(s, told) == [s EXCEPT !.forms = [f \in Forms |-> IF f \in told THEN Recomputed(s.values, s.fields, f) ELSE @[f]]]

\* A field's rules are checked again when its path or one of its rules' paths is written.
ToldOf(d, paths) == PathOf[d] \in paths \/ RefsOf(d) \cap paths # {}

\* The listeners one engine has on these paths: onFieldChange, and those of the paths
\* rules refer to.
Told(s, initial, paths) ==
    LET fields == [d \in Field |->
                     [s.fields[d] EXCEPT
                        !.dirty = IF PathOf[d] \in paths THEN s.values[PathOf[d]] # initial[d] ELSE @,
                        !.errors = IF s.fields[d].touched /\ ToldOf(d, paths) THEN Failing(s.values, d) ELSE @]]
    IN  Recompute([s EXCEPT !.fields = fields],
                  {f \in Forms : \E d \in ToSet(Fields[f]) : PathOf[d] \in paths \/ RefsOf(d) \cap paths # {}})

Notify(s, alive, paths) == FoldLeft(LAMBDA t, initial : Told(t, initial, paths), s, alive)

\* store.set of a field's path, and of the path above them all.
SetPath(s, alive, path, v) ==
    IF s.values[path] = v THEN s ELSE Notify([s EXCEPT !.values[path] = v], alive, {path})
SetDocument(s, alive, document) == Notify([s EXCEPT !.values = document], alive, DOMAIN document)

\* Touching a field, and validateField.
TouchedField(s, d) == [s EXCEPT !.fields[d].touched = TRUE, !.fields[d].errors = Failing(s.values, d)]

\* touchField and validateForm.
TouchOne(s, f, d) == Recompute(TouchedField(s, d), {f})
ValidateAll(s, f) == Recompute(FoldLeft(TouchedField, s, Fields[f]), {f})

NewFlags == [touched |-> FALSE, dirty |-> FALSE, errors |-> {}]

\* resetForm: field by field, and the form is called valid.
ResetField(s, alive, d) ==
    [SetPath(s, alive, PathOf[d], Last(alive)[d]) EXCEPT !.fields[d] = NewFlags]
ResetAll(s, alive, f) ==
    [FoldLeft(LAMBDA t, d : ResetField(t, alive, d), s, Fields[f]) EXCEPT
        !.forms[f] = [valid |-> TRUE, errors |-> 0, dirty |-> FALSE, byReset |-> TRUE]]

\* createFormEngine: initForm for every form.
Fresh(values) == [d \in Field |-> values[PathOf[d]]]
Started(s) == Recompute([s EXCEPT !.fields = [d \in Field |-> NewFlags]], Forms)
-----------------------------------------------------------------------------
(* Users, answers and the renderer *)

FormInit ==
    \E values \in Documents :
        /\ form = Started([values |-> values, fields |-> [d \in Field |-> NewFlags],
                           forms |-> [f \in Forms |-> Recomputed(values, [d \in Field |-> NewFlags], f)]])
        /\ engines = <<Fresh(values)>>
        /\ requests = <<>> /\ submitting = FALSE /\ created = 1

\* A user enters a value ($bindState), or leaves a field.
Enter(path, v) ==
    /\ form' = SetPath(form, engines, path, v)
    /\ UNCHANGED <<engines, requests, submitting, created>>
Leave(f, d) ==
    /\ form' = TouchOne(form, f, d)
    /\ UNCHANGED <<engines, requests, submitting, created>>

\* The actions validateForm and resetForm, for the engine the dispatcher has.
Validate(f) ==
    /\ form' = ValidateAll(form, f)
    /\ UNCHANGED <<engines, requests, submitting, created>>
Reset(f) ==
    /\ form' = ResetAll(form, engines, f)
    /\ UNCHANGED <<engines, requests, submitting, created>>

\* The action submitForm up to its fetch: a form that is not valid is not sent.
Submit(f) ==
    /\ PatientForms => ~submitting
    /\ Len(requests) < MaxRequests
    /\ form' = ValidateAll(form, f)
    /\ IF form'.forms[f].valid
       THEN submitting' = TRUE /\ requests' = Append(requests, [form |-> f, open |-> TRUE])
       ELSE UNCHANGED <<requests, submitting>>
    /\ UNCHANGED <<engines, created>>

\* Its answer: an error, or a document for the target, or nothing for it.
Answered(k) ==
    /\ requests[k].open
    /\ requests' = [requests EXCEPT ![k].open = FALSE]
    /\ submitting' = FALSE
    /\ \/ UNCHANGED form
       \/ \E document \in Documents : form' = SetDocument(form, engines, document)
    /\ UNCHANGED <<engines, created>>

\* The spec is replaced: a new engine is made during the render, and its initial values
\* are those of now.
Replace ==
    /\ created < MaxEngines
    /\ created' = created + 1
    /\ form' = Started(form)
    /\ engines' = Append(engines, Fresh(form.values))
    /\ UNCHANGED <<requests, submitting>>

\* The effect of that render destroys the engine before.
Destroy ==
    /\ Len(engines) > 1
    /\ engines' = Tail(engines)
    /\ UNCHANGED <<form, requests, submitting, created>>

FormNext ==
    \/ \E path \in FieldPath, v \in Value : Enter(path, v)
    \/ \E f \in Forms : Validate(f) \/ Reset(f) \/ Submit(f) \/ \E d \in ToSet(Fields[f]) : Leave(f, d)
    \/ \E k \in DOMAIN requests : Answered(k)
    \/ Replace \/ Destroy
-----------------------------------------------------------------------------
FormTypeOK ==
    /\ form.fields \in [Field -> [touched : BOOLEAN, dirty : BOOLEAN, errors : SUBSET Nat]]
    /\ form.forms \in [Forms -> [valid : BOOLEAN, errors : Nat, dirty : BOOLEAN, byReset : BOOLEAN]]
    /\ Len(engines) \in 1 .. MaxEngines /\ submitting \in BOOLEAN

\* Whatever writes the values, in whatever order: a touched field shows the errors of its
\* value and of the values its rules refer to, an untouched one shows none, the dirty
\* flags compare with the values the form was made for, and the form's flags sum up its
\* fields' (docs/wiki/compiled/concept-form-state-paths.md).
FlagsTrue ==
    \A f \in Forms :
        /\ \A d \in ToSet(Fields[f]) :
             LET flags == form.fields[d]
             IN  /\ flags.errors = IF flags.touched THEN Failing(form.values, d) ELSE {}
                 /\ flags.dirty = (form.values[PathOf[d]] # Last(engines)[d])
        /\ form.forms[f] = [Recomputed(form.values, form.fields, f) EXCEPT
                              !.valid = IF form.forms[f].byReset THEN TRUE ELSE @,
                              !.byReset = form.forms[f].byReset]

\* /ui/submitting says whether a submission is under way.
SubmittingTrue == submitting <=> \E k \in DOMAIN requests : requests[k].open

\* isValid reflects actual validity, even for untouched fields
\* (docs/wiki/compiled/concept-form-state-paths.md:27).  A reset calls the form valid
\* whatever its initial values are.
ValidMeansValid ==
    \A f \in Forms : form.forms[f].valid <=> \A d \in ToSet(Fields[f]) : Failing(form.values, d) = {}
=============================================================================
