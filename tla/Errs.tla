-------------------------------- MODULE Errs --------------------------------
(***************************************************************************)
(* The error model of errs/errors.go and the UnitError of spi/core, along  *)
(* the way of one error value up a stack of functions.  Each layer may     *)
(* pass it on, add context with fmt.Errorf("...: %w", err), put it under a *)
(* UnitError, `return errs.Wrap(err, class, ...)`, or attach details when  *)
(* it holds an *Error.                                                     *)
(*                                                                         *)
(* An error value is its Unwrap chain, outermost first; the nil error is   *)
(* the empty chain.  A nil *Error stored in an error interface is not the  *)
(* nil error: it is a chain of one node of kind "nilError".                *)
(***************************************************************************)
EXTENDS Naturals, Sequences, FiniteSets

CONSTANTS
    Classes,     \* the classes the layers use, "internal" among them
    RetryClasses,\* the classes of a UnitError, "permanent" among them
    DetailKeys,  \* keys of Details
    DetailValues,\* the values the layers store under them
    NoValue,     \* a key that is absent from a map
    NilMap,      \* Details before anything is stored in it
    NoClass,     \* what an error that was given no class has
    MaxDepth     \* bound on the length of a chain

ASSUME ErrsAssumption ==
    /\ MaxDepth \in Nat \ {0}
    /\ Classes \union RetryClasses \subseteq STRING
    /\ "permanent" \in RetryClasses
    /\ NoClass \notin Classes \union RetryClasses
    /\ NoValue \notin DetailValues
    /\ NilMap \notin [DetailKeys -> DetailValues \union {NoValue}]

VARIABLES
    err,         \* the error value, a chain of nodes
    (* History, read by the properties only. *)
    origin,      \* what the bottom layer returned
    firstClass,  \* the first class given to the error
    attached,    \* the value last given for each detail
    unitClass,   \* the retry class last given to the error
    belowClass,  \* the one last given before the error held an *Error
    dropped      \* errs.Wrap returned the *Error since unitClass was given

retryVars == <<unitClass, belowClass, dropped>>
vars == <<err, origin, firstClass, attached, retryVars>>

(* A map that is not nil: an absent key has NoValue. *)
Map == [DetailKeys -> DetailValues \union {NoValue}]
EmptyMap == [k \in DetailKeys |-> NoValue]

Plain(kind) == [kind |-> kind, class |-> NoClass, details |-> NilMap]
UnitError(class) == [kind |-> "Unit", class |-> class, details |-> NilMap]
ErrorNode(class, details) == [kind |-> "Error", class |-> class, details |-> details]

(***************************************************************************)
(* errors.As(err, &e) with e an *Error: the outermost node of that type. A *)
(* nil *Error has it too.                                                  *)
(***************************************************************************)
Matches(chain) == {n \in 1 .. Len(chain) : chain[n].kind \in {"Error", "nilError"}}
As(chain) == CHOOSE n \in Matches(chain) : \A m \in Matches(chain) : n <= m

(* Class.HTTPStatus: a class it does not know is an internal error. *)
HTTPStatus(class) ==
    LET table == [validation |-> 400, unauthorized |-> 401, forbidden |-> 403,
                  not_found |-> 404, conflict |-> 409, rate_limit |-> 429,
                  upstream |-> 502, timeout |-> 504]
    IN  IF class \in DOMAIN table THEN table[class] ELSE 500

(* Error.HTTPStatus: a nil *Error is an internal error too. *)
ErrorHTTPStatus(node) ==
    IF node.kind = "nilError" THEN 500 ELSE HTTPStatus(node.class)

MutClassifyOutermostOnly(chain) ==
    IF chain # <<>> /\ chain[1].kind = "Error" THEN chain[1].class ELSE "internal"
Classify(chain) ==
    IF Matches(chain) # {} /\ chain[As(chain)].kind = "Error"
    THEN chain[As(chain)].class ELSE "internal"

(***************************************************************************)
(* Wrap, and the conversion of its *Error result to the error interface    *)
(* that `return errs.Wrap(...)` implies.  An *Error in the chain is        *)
(* returned itself: what was wrapped around it is dropped.                 *)
(***************************************************************************)
MutWrapAlwaysNew(chain, class) ==
    IF chain = <<>> THEN <<Plain("nilError")>>
    ELSE <<ErrorNode(class, NilMap)>> \o chain
MutWrapDropsCause(chain, class) ==
    IF chain = <<>> THEN <<Plain("nilError")>>
    ELSE IF Matches(chain) # {} THEN SubSeq(chain, As(chain), Len(chain))
    ELSE <<ErrorNode(class, NilMap)>>
Wrap(chain, class) ==
    IF chain = <<>> THEN <<Plain("nilError")>>
    ELSE IF Matches(chain) # {} THEN SubSeq(chain, As(chain), Len(chain))
    ELSE <<ErrorNode(class, NilMap)>> \o chain

(* UnitError.ErrorClass. *)
ErrorClass(node) == node.class

(* What the engine, which is not in this repository, reads: the class of   *)
(* the outermost error in the chain that has an ErrorClass method.         *)
Units(chain) == {n \in 1 .. Len(chain) : chain[n].kind = "Unit"}
RetryClassOf(chain) ==
    IF Units(chain) = {} THEN NoClass
    ELSE ErrorClass(chain[CHOOSE n \in Units(chain) : \A m \in Units(chain) : n <= m])

(***************************************************************************)
(* Details is a Go map.  A map is made when there is none yet; assigning   *)
(* to a key adds or overwrites it.  An assignment to a nil map would panic *)
(* and store nothing.                                                      *)
(***************************************************************************)
MutMadeAnew(details) == EmptyMap
Made(details) == IF details = NilMap THEN EmptyMap ELSE details
Assigned(details, given) ==
    IF details = NilMap THEN NilMap
    ELSE [k \in DetailKeys |-> IF given[k] = NoValue THEN details[k] ELSE given[k]]

Init ==
    /\ err = <<>> /\ origin = "none"
    /\ firstClass = NoClass /\ attached = EmptyMap
    /\ unitClass = NoClass /\ belowClass = NoClass /\ dropped = FALSE
-----------------------------------------------------------------------------
(* The bottom layer: success, a foreign error, or errs.New. *)
ReturnNil ==
    /\ origin = "none" /\ origin' = "nil"
    /\ UNCHANGED <<err, firstClass, attached, retryVars>>

ReturnCause ==
    /\ origin = "none" /\ origin' = "cause"
    /\ err' = <<Plain("cause")>>
    /\ UNCHANGED <<firstClass, attached, retryVars>>

New(class) ==
    /\ origin = "none" /\ origin' = "New"
    /\ err' = <<ErrorNode(class, NilMap)>>
    /\ firstClass' = class
    /\ UNCHANGED <<attached, retryVars>>

(* DefaultUnit.Invoke of a method that has no handler. *)
ErrMethodNotFound ==
    /\ origin = "none" /\ origin' = "not_found"
    /\ err' = <<UnitError("permanent")>>
    /\ unitClass' = "permanent" /\ belowClass' = "permanent"
    /\ UNCHANGED <<firstClass, attached, dropped>>

(* if err != nil { return fmt.Errorf("...: %w", err) } *)
FmtWrap ==
    /\ err # <<>> /\ Len(err) < MaxDepth
    /\ err' = <<Plain("fmt")>> \o err
    /\ UNCHANGED <<origin, firstClass, attached, retryVars>>

(* if err != nil { return &UnitError{Class: class, Cause: err} } *)
UnitLayer(class) ==
    /\ err # <<>> /\ Len(err) < MaxDepth
    /\ err' = <<UnitError(class)>> \o err
    /\ unitClass' = class /\ dropped' = FALSE
    /\ belowClass' = IF Matches(err) = {} THEN class ELSE belowClass
    /\ UNCHANGED <<origin, firstClass, attached>>

(* return errs.Wrap(err, class, ...) *)
WrapLayer(class) ==
    /\ origin # "none" /\ Len(err) < MaxDepth
    /\ err' = Wrap(err, class)
    /\ firstClass' = IF firstClass = NoClass /\ err # <<>> /\ err'[1].kind = "Error"
                     THEN class ELSE firstClass
    /\ dropped' = (dropped \/ Matches(err) # {})
    /\ UNCHANGED <<origin, attached, unitClass, belowClass>>

(***************************************************************************)
(* A layer that finds an *Error with errors.As attaches details to it, in  *)
(* place.  A nil *Error and an empty map change nothing.                   *)
(***************************************************************************)
Attach(given) ==
    /\ Matches(err) # {} /\ err[As(err)].kind = "Error"
    /\ err' = [err EXCEPT ![As(err)] =
                  ErrorNode(@.class, Assigned(Made(@.details), given))]
    /\ attached' = [k \in DetailKeys |-> IF given[k] = NoValue THEN attached[k] ELSE given[k]]
    /\ UNCHANGED <<origin, firstClass, retryVars>>
WithDetail(k, v) == Attach([EmptyMap EXCEPT ![k] = v])
WithDetails(details) == details # EmptyMap /\ Attach(details)

Next ==
    \/ ReturnNil \/ ReturnCause \/ (\E class \in Classes : New(class))
    \/ ErrMethodNotFound \/ (\E class \in RetryClasses : UnitLayer(class))
    \/ FmtWrap \/ (\E class \in Classes : WrapLayer(class))
    \/ (\E k \in DetailKeys, v \in DetailValues : WithDetail(k, v))
    \/ (\E details \in Map : WithDetails(details))

Spec == Init /\ [][Next]_vars
-----------------------------------------------------------------------------
(* "no double-classification": an error value never holds two *Errors, so  *)
(* the class that errors.As finds is the only one.                         *)
OneClassification == Cardinality({n \in 1 .. Len(err) : err[n].kind = "Error"}) <= 1

(* "promotes an arbitrary error into a classified *Error while preserving  *)
(* the original cause": however many layers wrapped it, the cause is still *)
(* at the end of the Unwrap chain.                                         *)
CausePreserved == origin = "cause" => err # <<>> /\ err[Len(err)].kind = "cause"

(* The first class given to an error is the one the gateway reports, what- *)
(* ever the layers above wrap it with; an error nobody classified is       *)
(* reported as internal.  The status asked of the *Error itself agrees     *)
(* with that of its class, a nil *Error included.                          *)
ClassKept ==
    /\ firstClass # NoClass => Classify(err) = firstClass
    /\ firstClass = NoClass => HTTPStatus(Classify(err)) = 500
    /\ Matches(err) # {} => ErrorHTTPStatus(err[As(err)]) = HTTPStatus(Classify(err))

(* "adds or overwrites", "nil-map-safe": once a layer has attached a       *)
(* detail, the *Error that errors.As finds holds for every key the value   *)
(* given last, whichever layers attached, wrapped and overwrote on the way *)
(* up: none is lost with the context that Wrap drops or with a map made    *)
(* again, and none is there that was not given.                            *)
DetailsKept ==
    attached # EmptyMap =>
        Matches(err) # {} /\ err[As(err)].kind = "Error" /\ err[As(err)].details = attached

(* "UnitError is the classifiable error so DECLARED Retryable + the        *)
(* onError/onTimeout/onCancel typed edges work UNIFORMLY on the in-proc    *)
(* and the spawned path.": the class the engine reads from the error is    *)
(* the one the last UnitError gave it, however deep the layers above       *)
(* buried it, with one exception: errs.Wrap of an error that holds an      *)
(* *Error returns that *Error, and takes the retry class back to what it   *)
(* was below it, to none if it had none.                                   *)
RetryClassExact == RetryClassOf(err) = IF dropped THEN belowClass ELSE unitClass

(***************************************************************************)
(* The inductive invariant of the proofs.  An error value holds at most    *)
(* one *Error, nil or not; a class was given exactly when it holds one,    *)
(* which carries that class and the details; nothing precedes the bottom   *)
(* layer; the chain from its *Error down, the part a Wrap returns, has the *)
(* retry class given below the *Error.                                     *)
(***************************************************************************)
Node == [kind : {"cause", "fmt", "nilError", "Unit", "Error"},
         class : Classes \union RetryClasses \union {NoClass},
         details : Map \union {NilMap}]
OneMatch == \A m, n \in Matches(err) : m = n
Carried ==
    /\ \A n \in 1 .. Len(err) : err[n].kind = "Error" =>
          /\ err[n].class = firstClass /\ firstClass # NoClass
          /\ Made(err[n].details) = attached
    /\ firstClass # NoClass => \E n \in 1 .. Len(err) : err[n].kind = "Error"
    /\ firstClass = NoClass => attached = EmptyMap
Bottom == origin = "none" => err = <<>>
Base(chain) == IF Matches(chain) = {} THEN chain ELSE SubSeq(chain, As(chain), Len(chain))
RetryHeld ==
    /\ RetryClassOf(Base(err)) = belowClass
    /\ Matches(err) = {} => belowClass = unitClass /\ dropped = FALSE
Inv ==
    /\ err \in Seq(Node) /\ attached \in Map
    /\ OneMatch /\ Carried /\ Bottom /\ CausePreserved /\ RetryHeld /\ RetryClassExact

(* "Passing nil returns nil - safe for use as `return errs.Wrap(...)`": a  *)
(* success is still the nil error after any layers.  In a function that    *)
(* returns error, Wrap's nil *Error is not.                                *)
SuccessStaysNil == origin = "nil" => err = <<>>
=============================================================================
