------------------------------ MODULE OsgBinding ------------------------------
(***************************************************************************)
(* Calls from Lua of C++ functions that take OSG objects and values        *)
(* (osgLuaBind.h).  For every parameter luabind's default_converter is     *)
(* chosen by the parameter's type; it scores the Lua value at its place,   *)
(* and luabind (third-party/luabind) goes through the overloads registered *)
(* under one name and calls the one with the least sum, if there is one    *)
(* and only one, with the values converted.                                *)
(***************************************************************************)
EXTENDS Integers, Sequences, SequencesExt, FiniteSetsExt

CONSTANTS
    Derived,     \* the bound classes that derive from osg::Object
    Conversions, \* pairs of value types with a converter from one to the other
    IsA,         \* pairs of classes: the first is the second or derives from it
    Direct,      \* those between which introspection converts nothing
    Signatures,  \* the parameter lists functions are registered with
    Arguments,   \* the lists of Lua values they are called with
    MaxOverloads \* bound: overloads under the name

Base == "Object"

\* The types tagged by CREATE_OSGLUA_VALUE_CONVERTER that are looked at here.
IsOSGValue == {"Vec3f", "Vec3d", "Matrixd"}

Classes == Derived \union {Base}

\* A Lua value: an osgLua value of a value type; or one that holds a pointer
\* declared as "type" to an object of the class "object", or "NULL"; or a number.
LuaValues ==
    {[kind |-> "osg", type |-> t, object |-> t] : t \in IsOSGValue}
    \union {[kind |-> "osg", type |-> pair[2], object |-> pair[1]] : pair \in IsA}
    \union {[kind |-> "osg", type |-> t, object |-> "NULL"] : t \in Classes}
    \union {[kind |-> "number", type |-> "number", object |-> "number"]}

Parameters ==
    [form : {"pointer", "ref_ptr"}, type : Classes]
    \union [form : {"value"}, type : IsOSGValue]
    \union {[form |-> "number", type |-> "number"]}

MaxArity == 10      \* LUABIND_MAX_ARITY: functions with more parameters do not compile

\* The candidates of one call fit in the ten places that invoke_context has.
ASSUME OsgBindingAssumption ==
    /\ Derived \intersect (IsOSGValue \union {"NULL", "number"}) = {}
    /\ Direct \subseteq IsA /\ IsA \subseteq Classes \X Classes
    /\ Conversions \subseteq IsOSGValue \X IsOSGValue
    /\ Signatures \subseteq Seq(Parameters) /\ Arguments \subseteq Seq(LuaValues)
    /\ \A signature \in Signatures : Len(signature) <= MaxArity
    /\ MaxOverloads \in 0..10

VARIABLES
    overloads,  \* the chain of overloads, the newest first
    call,       \* "none", "scoring", "called", "nomatch", "ambiguous"
    args,       \* the Lua stack of the call
    at,         \* scoring: the overload whose turn it is
    best,       \* invoke_context::best_score
    candidates, \* invoke_context::candidates
    received,   \* called: the arguments as C++ sees them
    result,     \* what the last call returned to the script, in a sequence
    report      \* no match, ambiguous: the signatures the error names

bindingVars == <<overloads, call, args, at, best, candidates, received, result, report>>

Infinity == 1000    \* std::numeric_limits<int>::max()

BindingInit ==
    /\ overloads = <<>>
    /\ call = "none"
    /\ args = <<>>
    /\ at = 0
    /\ best = Infinity
    /\ candidates = <<>>
    /\ received = <<>>
    /\ result = <<>>
    /\ report = <<>>

-----------------------------------------------------------------------------
\* Mutant of IsReference: a ref_ptr must be to a derived class, as a pointer must.
MutIsReference(p) == p.form \in {"ref_ptr", "pointer"} /\ p.type \in Derived

\* The converter for references serves every ref_ptr, and pointers to what derives
\* from osg::Object: is_base_and_derived leaves out osg::Object itself.
IsReference(p) == p.form = "ref_ptr" \/ (p.form = "pointer" /\ p.type \in Derived)

\* The converter for values serves the tagged types.
IsValue(p) == p.form = "value" /\ p.type \in IsOSGValue

\* introspection::variant_cast, external: an object is a T if its class is one.
Castable(v, p) ==
    IF p.type \in IsOSGValue
    THEN v.type = p.type \/ <<v.type, p.type>> \in Conversions
    ELSE v.object # "NULL" /\ <<v.object, p.type>> \in IsA

\* introspection::requires_conversion, external.
RequiresConversion(v, p) == <<v.type, p.type>> \notin Direct

\* osglua_casting_score_for_type for values, and for pointers.
CastingScore(v, p) ==
    IF ~Castable(v, p) THEN -1
    ELSE IF p.type \in IsOSGValue \/ RequiresConversion(v, p) THEN 0
    ELSE 1

\* Mutant of ComputeScore: the type of the Lua value is taken for granted.
MutComputeScore(v, p) == IF v.type = p.type THEN 2 ELSE 0

\* compute_osglua_score_for_type
ComputeScore(v, p) ==
    IF v.kind # "osg" THEN -1
    ELSE IF v.type = p.type THEN 2
    ELSE CastingScore(v, p)

\* osglua_ref_converter_base::compute_score, osglua_val_converter_base's.
ReferenceScore(v, p) == ComputeScore(v, p)
ValueScore(v, p) == ComputeScore(v, p)

\* converter::match; no value here is one of luabind's own classes.
Match(v, p) ==
    IF IsReference(p) THEN ReferenceScore(v, p)
    ELSE IF IsValue(p) THEN ValueScore(v, p)
    ELSE IF p.form = "number" /\ v.kind = "number" THEN 0 ELSE -1

\* osglua_ref_converter_base::from: NULL for what is no osgLua value.
FromReference(v, p) == IF v.kind = "osg" /\ Castable(v, p) THEN v.object ELSE "NULL"

\* osglua_val_converter_base::from: value_t() for what is no osgLua value.
FromValue(v, p) == IF v.kind = "osg" /\ Castable(v, p) THEN p.type ELSE "value_t()"

\* converter::apply
From(v, p) ==
    IF IsReference(p) THEN FromReference(v, p)
    ELSE IF IsValue(p) THEN FromValue(v, p)
    ELSE v.object

\* Mutant of To: an object is pushed as what it is, and NULL as nothing.
MutTo(x, p) ==
    IF p.form = "number" THEN [kind |-> "number", type |-> "number", object |-> "number"]
    ELSE [kind |-> "osg", type |-> x, object |-> x]

\* osglua_ref_converter_base::to: pushed with the type that C++ declares.
ToReference(x, p) == [kind |-> "osg", type |-> p.type, object |-> x]

\* osglua_val_converter_base::to
ToValue(x, p) == [kind |-> "osg", type |-> p.type, object |-> x]

\* What a function returns, as its declared type.
To(x, p) ==
    IF IsReference(p) THEN ToReference(x, p)
    ELSE IF IsValue(p) THEN ToValue(x, p)
    ELSE [kind |-> p.form, type |-> p.type, object |-> x]

\* type_to_string for references: is_base_of does not leave out the base.
ReferenceToString(p) == <<"[osgLuaBind object]", p>>

\* type_to_string for values.
ValueToString(p) == <<"[osgLuaBind value]", p>>

TypeToString(p) ==
    CASE p.form = "ref_ptr" \/ p.type \in Classes -> ReferenceToString(p)
      [] p.type \in IsOSGValue -> ValueToString(p)
      [] OTHER -> <<"", p>>

FormatSignature(signature) == [i \in DOMAIN signature |-> TypeToString(signature[i])]

SumScores(scores) ==
    LET sum[i \in 0..Len(scores)] == IF i = 0 THEN 0 ELSE sum[i - 1] + scores[i]
    IN  IF \E i \in DOMAIN scores : scores[i] < 0 THEN -1 ELSE sum[Len(scores)]

\* What one overload scores for a list of arguments, in function_object::call.
Score(signature, values) ==
    IF Len(signature) # Len(values) THEN -1
    ELSE SumScores([i \in DOMAIN values |-> Match(values[i], signature[i])])

-----------------------------------------------------------------------------
\* module(L)[def(...)]: add_overload puts it in front of the others.
Register ==
    /\ call = "none" /\ Len(overloads) < MaxOverloads
    /\ \E signature \in Signatures :
           /\ ~Contains(overloads, signature)
           /\ overloads' = <<signature>> \o overloads
    /\ UNCHANGED <<call, args, at, best, candidates, received, result, report>>

\* A script calls the function, perhaps with what it returned the last time.
Call ==
    /\ call = "none" /\ overloads # <<>>
    /\ call' = "scoring"
    /\ args' \in Arguments \union {result}
    /\ args' # <<>>
    /\ at' = 1
    /\ best' = Infinity
    /\ candidates' = <<>>
    /\ UNCHANGED <<overloads, received, result, report>>

\* Mutant of Consider: a tie keeps the overload found first.
MutConsider(score) ==
    IF score >= 0 /\ score < best
    THEN best' = score /\ candidates' = <<at>>
    ELSE UNCHANGED <<best, candidates>>

\* Mutant of Consider: what does not match is not left out.
MutConsiderAll(score) ==
    IF score < best
    THEN best' = score /\ candidates' = <<at>>
    ELSE /\ candidates' = IF score = best THEN Append(candidates, at) ELSE candidates
         /\ UNCHANGED best

Consider(score) ==
    IF score >= 0 /\ score < best
    THEN best' = score /\ candidates' = <<at>>
    ELSE /\ candidates' = IF score = best THEN Append(candidates, at) ELSE candidates
         /\ UNCHANGED best

\* function_object::call, up to the call of the next overload's.
ScoreOne ==
    /\ call = "scoring" /\ at <= Len(overloads)
    /\ Consider(Score(overloads[at], args))
    /\ at' = at + 1
    /\ UNCHANGED <<overloads, call, args, received, result, report>>

\* The rest of it, on the way back: the only candidate is called.  The functions
\* return their first argument.
Invoke ==
    /\ call = "scoring" /\ at > Len(overloads)
    /\ Len(candidates) = 1
    /\ call' = "called"
    /\ received' = [i \in DOMAIN args |-> From(args[i], overloads[candidates[1]][i])]
    /\ result' = <<To(Head(received'), Head(overloads[candidates[1]]))>>
    /\ UNCHANGED <<overloads, args, at, best, candidates, report>>

\* invoke_context::format_error: all overloads, or those that are tied.
Fail ==
    /\ call = "scoring" /\ at > Len(overloads)
    /\ Len(candidates) # 1
    /\ call' = IF candidates = <<>> THEN "nomatch" ELSE "ambiguous"
    /\ report' = IF candidates = <<>>
                 THEN [i \in DOMAIN overloads |-> FormatSignature(overloads[i])]
                 ELSE [i \in DOMAIN candidates |-> FormatSignature(overloads[candidates[i]])]
    /\ UNCHANGED <<overloads, args, at, best, candidates, received, result>>

Return ==
    /\ call \in {"called", "nomatch", "ambiguous"}
    /\ call' = "none"
    /\ args' = <<>> /\ at' = 0 /\ best' = Infinity
    /\ candidates' = <<>> /\ received' = <<>> /\ report' = <<>>
    /\ UNCHANGED <<overloads, result>>

BindingNext == Register \/ Call \/ ScoreOne \/ Invoke \/ Fail \/ Return

BindingSpec == BindingInit /\ [][BindingNext]_bindingVars

-----------------------------------------------------------------------------
BindingTypeOK ==
    /\ overloads \in Seq(Signatures) /\ Len(overloads) <= MaxOverloads
    /\ call \in {"none", "scoring", "called", "nomatch", "ambiguous"}
    /\ args \in Seq(LuaValues) /\ result \in Seq(LuaValues)
    /\ at \in 0..Len(overloads) + 1
    /\ best \in 0..2 * Len(args) \union {Infinity}
    /\ candidates \in Seq(DOMAIN overloads)
    /\ (best = Infinity) <=> (candidates = <<>>)
    /\ Len(received) \in {0, Len(args)} /\ Len(report) <= Len(overloads)

Called == overloads[candidates[1]]
Matching == {i \in DOMAIN overloads : Score(overloads[i], args) >= 0}
Least ==
    {i \in Matching : \A j \in Matching : Score(overloads[i], args) <= Score(overloads[j], args)}

\* The outcome of a call depends on which overloads there are and not on the order
\* in which modules registered them: the one overload with the least score is
\* called, and an error is raised exactly when there is none, or more than one.
OrderIrrelevant ==
    /\ call = "called" => Least = {candidates[1]}
    /\ call = "nomatch" => Matching = {}
    /\ call = "ambiguous" => Cardinality(Least) > 1 /\ Range(candidates) = Least

\* A C++ function gets values of its parameters' types and objects of their
\* classes.  A NULL is only received for a null pointer of exactly its type: the
\* NULL that "from" returns for other values (osgLuaBind.h:161) never arrives.
ReceivedFits ==
    call = "called" =>
        \A i \in DOMAIN received :
            LET p == Called[i] IN
            IF received[i] = "NULL" THEN args[i].object = "NULL" /\ args[i].type = p.type
            ELSE IF p.form \in {"pointer", "ref_ptr"} THEN <<received[i], p.type>> \in IsA
            ELSE received[i] = p.type

\* What a function returned can be passed on where its type is declared, a null
\* pointer too, although a null pointer of any other type is refused.
ReturnedIsAccepted ==
    [][Invoke => Match(Head(result'), Head(overloads[candidates[1]])) >= 0]_bindingVars

\* A parameter that an error presents as an osgLuaBind one does take osgLua values,
\* but for a pointer to osg::Object itself: that is one by is_base_of
\* (osgLuaBind.h:261) and none by is_base_and_derived (osgLuaBind.h:228).
PresentedAsConverted ==
    \A i \in DOMAIN report : \A k \in DOMAIN report[i] :
        LET p == report[i][k][2] IN
        report[i][k][1] # "" /\ p # [form |-> "pointer", type |-> Base] =>
            \E v \in LuaValues : v.kind = "osg" /\ Match(v, p) >= 0

\* A call goes to the one overload with the least score, with what its parameters
\* declare, whatever the order of registration; or the error names all that tie, or
\* all, as what a script can pass.  Whether the least score is the best match is
\* another question (FewestCasts).
OverloadsResolve == OrderIrrelevant /\ ReceivedFits /\ PresentedAsConverted

\* The arguments that are no exact match for their parameters.
Casts(i) == Cardinality({k \in DOMAIN args : args[k].type # overloads[i][k].type})

\* luabind "will prefer matches with the least number of implicit casts"
\* (luabind/doc/docs.rst:304).  With osgLua values it does not: an exact match scores
\* 2 and a cast 1 or 0 (osgLuaBind.h:118), where luabind calls the least score.
FewestCasts == call = "called" => \A j \in Matching : Casts(candidates[1]) <= Casts(j)
=============================================================================
