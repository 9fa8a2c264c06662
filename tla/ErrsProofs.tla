----------------------------- MODULE ErrsProofs -----------------------------
(***************************************************************************)
(* Proofs about Errs for any classes and details and for chains of any *)
(* length: MaxDepth is any bound.                                          *)
(***************************************************************************)
EXTENDS Errs, SequenceTheorems, FiniteSetTheorems, WellFoundedInduction, TLAPS

(* A set of positions that is not empty has a first one. *)
LEMMA Minimal ==
    ASSUME NEW R, NEW S, S \subseteq Nat, S # {}, IsWellFoundedOn(R, Nat)
    PROVE  \E x \in S : \A y \in S : ~(<<y, x>> \in R)
BY WFMin

LEMMA LeastIn ==
    ASSUME NEW R, NEW S, S \subseteq Nat, S # {}, IsWellFoundedOn(R, Nat),
           \A x, y \in Nat : x < y => <<x, y>> \in R
    PROVE  \E x \in S : \A y \in S : x <= y
<1>1. PICK x \in S : \A y \in S : ~(<<y, x>> \in R)
  BY Minimal
<1>2. ASSUME NEW y \in S PROVE x <= y
  <2>1. x \in Nat /\ y \in Nat
    OBVIOUS
  <2>2. ~(y < x)
    BY <1>1, <2>1, Zenon
  <2> QED
    BY <2>1, <2>2
<1> QED
  BY <1>2

LEMMA Least == ASSUME NEW S, S \subseteq Nat, S # {} PROVE \E x \in S : \A y \in S : x <= y
<1>1. \A x, y \in Nat : x < y => <<x, y>> \in OpToRel(<, Nat)
  BY Zenon DEF OpToRel
<1> QED
  BY <1>1, LeastIn, NatLessThanWellFounded, Zenon

(* The node on which the engine decides. *)
LEMMA FirstUnit ==
    ASSUME NEW s, Units(s) # {}, NEW k \in Units(s), \A m \in Units(s) : k <= m
    PROVE  RetryClassOf(s) = s[k].class
<1> DEFINE f == CHOOSE n \in Units(s) : \A m \in Units(s) : n <= m
<1>1. f \in Units(s) /\ \A m \in Units(s) : f <= m
  OBVIOUS
<1>2. f \in Int /\ k \in Int
  BY <1>1 DEF Units
<1>3. f = k
  BY <1>1, <1>2
<1> QED
  BY <1>3 DEF RetryClassOf, ErrorClass

(* Two chains that agree on kinds and classes have the same retry class. *)
LEMMA SameRetryClass ==
    ASSUME NEW s, NEW t, Units(s) = Units(t), Units(s) \subseteq Nat,
           \A n \in Units(s) : s[n].class = t[n].class
    PROVE  RetryClassOf(s) = RetryClassOf(t)
<1>1. CASE Units(s) = {}
  BY <1>1 DEF RetryClassOf
<1>2. CASE Units(s) # {}
  <2>1. PICK k \in Units(s) : \A m \in Units(s) : k <= m
    BY <1>2, Least
  <2> QED
    BY <1>2, <2>1, FirstUnit
<1> QED
  BY <1>1, <1>2
-----------------------------------------------------------------------------
(* A layer put around a chain shifts every node by one. *)
LEMMA Around ==
    ASSUME NEW x \in Node, NEW s \in Seq(Node)
    PROVE  /\ <<x>> \o s \in Seq(Node) /\ Len(<<x>> \o s) = Len(s) + 1
           /\ (<<x>> \o s)[1] = x
           /\ \A n \in 1 .. Len(s) : (<<x>> \o s)[n + 1] = s[n]
           /\ \A n \in 1 .. Len(s) + 1 : n # 1 => n - 1 \in 1 .. Len(s) /\ (<<x>> \o s)[n] = s[n - 1]
           /\ Len(s) \in Nat
<1>1. <<x>> \in Seq(Node) /\ Len(<<x>>) = 1 /\ <<x>>[1] = x
  OBVIOUS
<1>2. Len(s) \in Nat
  BY LenProperties
<1>3. /\ <<x>> \o s \in Seq(Node) /\ Len(<<x>> \o s) = 1 + Len(s)
      /\ \A n \in 1 .. 1 + Len(s) : (<<x>> \o s)[n] = IF n <= 1 THEN <<x>>[n] ELSE s[n - 1]
  BY <1>1, ConcatProperties
<1> QED
  BY <1>1, <1>2, <1>3

LEMMA UnitsAround ==
    ASSUME NEW x \in Node, NEW s \in Seq(Node), x.kind # "Unit"
    PROVE  RetryClassOf(<<x>> \o s) = RetryClassOf(s)
<1> DEFINE t == <<x>> \o s
<1>0. /\ Len(t) = Len(s) + 1 /\ t[1] = x /\ Len(s) \in Nat
      /\ \A n \in 1 .. Len(s) : t[n + 1] = s[n]
      /\ \A n \in 1 .. Len(s) + 1 : n # 1 => n - 1 \in 1 .. Len(s) /\ t[n] = s[n - 1]
  BY Around
<1> HIDE DEF t
<1>1. /\ \A n \in Units(s) : n + 1 \in Units(t)
      /\ \A n \in Units(t) : n - 1 \in Units(s)
      /\ Units(s) \subseteq Nat /\ Units(t) \subseteq Nat
  BY <1>0 DEF Units
<1>2. CASE Units(s) = {}
  BY <1>1, <1>2 DEF RetryClassOf, t
<1>3. CASE Units(s) # {}
  <2>1. PICK k \in Units(s) : \A m \in Units(s) : k <= m
    BY <1>1, <1>3, Least
  <2>2. k + 1 \in Units(t) /\ \A m \in Units(t) : k + 1 <= m
    BY <1>1, <2>1
  <2>3. RetryClassOf(t) = t[k + 1].class /\ RetryClassOf(s) = s[k].class
    BY <2>1, <2>2, FirstUnit
  <2> QED
    BY <1>0, <2>1, <2>3 DEF Units, t
<1> QED
  BY <1>2, <1>3

LEMMA UnitAround ==
    ASSUME NEW x \in Node, NEW s \in Seq(Node), x.kind = "Unit"
    PROVE  RetryClassOf(<<x>> \o s) = x.class
<1> DEFINE t == <<x>> \o s
<1>0. t[1] = x /\ Len(t) = Len(s) + 1 /\ Len(s) \in Nat
  BY Around
<1> HIDE DEF t
<1>1. 1 \in Units(t) /\ \A m \in Units(t) : 1 <= m
  BY <1>0 DEF Units
<1>2. RetryClassOf(t) = x.class
  BY <1>0, <1>1, FirstUnit
<1> QED
  BY <1>2 DEF t

(* errors.As in a chain that holds one *Error. *)
LEMMA AsFinds ==
    ASSUME NEW s, Matches(s) # {}, \A m, n \in Matches(s) : m = n
    PROVE  As(s) \in Matches(s) /\ \A m \in Matches(s) : m = As(s)
<1>1. PICK k \in Matches(s) : TRUE
  OBVIOUS
<1>2. \A m \in Matches(s) : k <= m
  BY DEF Matches
<1> QED
  BY <1>1, <1>2 DEF As

LEMMA FromAs ==
    ASSUME NEW s \in Seq(Node), NEW k \in 1 .. Len(s)
    PROVE  /\ SubSeq(s, k, Len(s)) \in Seq(Node)
           /\ Len(SubSeq(s, k, Len(s))) = Len(s) - k + 1
           /\ \A n \in 1 .. Len(s) - k + 1 : SubSeq(s, k, Len(s))[n] = s[k + n - 1]
<1>1. Len(s) \in Nat /\ \A i \in k .. Len(s) : s[i] \in Node
  BY LenProperties
<1> QED
  BY <1>1, SubSeqProperties

Unique(s) == \A m, n \in Matches(s) : m = n

(* A layer that is no *Error moves the *Error down and leaves what is from *)
(* there on.                                                               *)
LEMMA MatchAround ==
    ASSUME NEW x \in Node, NEW s \in Seq(Node), x.kind \notin {"Error", "nilError"}, Unique(s)
    PROVE  /\ Unique(<<x>> \o s)
           /\ Matches(<<x>> \o s) = {} <=> Matches(s) = {}
           /\ Matches(s) # {} => Base(<<x>> \o s) = Base(s)
<1> DEFINE t == <<x>> \o s
<1>0. /\ t \in Seq(Node)
      /\ Len(t) = Len(s) + 1 /\ t[1] = x /\ Len(s) \in Nat
      /\ \A n \in 1 .. Len(s) : t[n + 1] = s[n]
      /\ \A n \in 1 .. Len(s) + 1 : n # 1 => n - 1 \in 1 .. Len(s) /\ t[n] = s[n - 1]
  BY Around
<1> HIDE DEF t
<1>1. /\ \A n \in Matches(s) : n + 1 \in Matches(t)
      /\ \A n \in Matches(t) : n - 1 \in Matches(s) /\ n \in Nat
      /\ Matches(s) \subseteq 1 .. Len(s)
  BY <1>0 DEF Matches
<1>2. Unique(t)
  BY <1>1 DEF Unique
<1>3. Matches(t) = {} <=> Matches(s) = {}
  BY <1>1
<1>4. ASSUME Matches(s) # {} PROVE Base(t) = Base(s)
  <2> DEFINE k == As(s)
  <2>1. k \in Matches(s) /\ k \in 1 .. Len(s)
    BY <1>1, <1>4, AsFinds DEF Unique
  <2>2. As(t) = k + 1
    BY <1>1, <1>2, <1>3, <1>4, <2>1, AsFinds DEF Unique
  <2> HIDE DEF k
  <2>3. k + 1 \in 1 .. Len(t) /\ k \in Int /\ Len(t) - (k + 1) + 1 = Len(s) - k + 1
    BY <1>0, <2>1
  <2> DEFINE a == SubSeq(s, k, Len(s))
             b == SubSeq(t, k + 1, Len(t))
  <2>4. /\ a \in Seq(Node) /\ Len(a) = Len(s) - k + 1
        /\ \A n \in 1 .. Len(s) - k + 1 : a[n] = s[k + n - 1]
    BY <2>1, FromAs
  <2>5. /\ b \in Seq(Node) /\ Len(b) = Len(s) - k + 1
        /\ \A n \in 1 .. Len(s) - k + 1 : b[n] = t[k + 1 + n - 1]
    BY <1>0, <2>3, FromAs
  <2> HIDE DEF a, b
  <2>6. ASSUME NEW n \in 1 .. Len(a) PROVE a[n] = b[n]
    <3>1. k + n - 1 \in 1 .. Len(s) /\ k + 1 + n - 1 = (k + n - 1) + 1
      BY <1>0, <2>1, <2>4
    <3>2. b[n] = t[(k + n - 1) + 1] /\ a[n] = s[k + n - 1]
      BY <2>4, <2>5, <3>1
    <3> QED
      BY <1>0, <3>1, <3>2
  <2>7. a = b
    BY <2>4, <2>5, <2>6, SeqEqual
  <2> QED
    BY <1>3, <1>4, <2>2, <2>7 DEF Base, a, b, k
<1> QED
  BY <1>2, <1>3, <1>4 DEF t

(* Wrap of a chain with an *Error is the chain from there on, and nothing  *)
(* more can be dropped from it.                                            *)
From(s) == SubSeq(s, As(s), Len(s))

LEMMA WrapFound ==
    ASSUME NEW s \in Seq(Node), Unique(s), Matches(s) # {}
    PROVE  /\ From(s) \in Seq(Node) /\ Len(From(s)) \in Nat \ {0}
           /\ From(s)[1] = s[As(s)] /\ From(s)[Len(From(s))] = s[Len(s)]
           /\ Unique(From(s)) /\ Matches(From(s)) # {} /\ Base(From(s)) = From(s)
           /\ \A n \in 1 .. Len(From(s)) : \E m \in 1 .. Len(s) : From(s)[n] = s[m]
<1> DEFINE k == As(s)
           t == From(s)
<1>1. k \in Matches(s) /\ (\A m \in Matches(s) : m = k) /\ k \in 1 .. Len(s) /\ Len(s) \in Nat
  BY AsFinds, LenProperties DEF Unique, Matches
<1>0. t = SubSeq(s, k, Len(s))
  BY DEF From
<1> HIDE DEF k, t
<1>2. /\ t \in Seq(Node) /\ Len(t) = Len(s) - k + 1
      /\ \A n \in 1 .. Len(s) - k + 1 : t[n] = s[k + n - 1]
  BY <1>0, <1>1, FromAs
<1>3. Len(t) \in Nat \ {0}
  BY <1>1, <1>2
<1>4. t[1] = s[k] /\ t[Len(t)] = s[Len(s)]
  BY <1>1, <1>2
<1>5. \A n \in 1 .. Len(t) : k + n - 1 \in 1 .. Len(s) /\ t[n] = s[k + n - 1]
  BY <1>1, <1>2
<1>6. 1 \in Matches(t) /\ \A n \in Matches(t) : n = 1
  <2>1. 1 \in Matches(t)
    BY <1>1, <1>3, <1>4 DEF Matches
  <2>2. ASSUME NEW n \in Matches(t) PROVE n = 1
    <3>1. n \in 1 .. Len(t) /\ t[n].kind \in {"Error", "nilError"}
      BY DEF Matches
    <3>2. k + n - 1 \in Matches(s)
      BY <1>5, <3>1 DEF Matches
    <3>3. k + n - 1 = k
      BY <1>1, <3>2
    <3> QED
      BY <1>1, <1>3, <3>1, <3>3
  <2> QED
    BY <2>1, <2>2
<1>7. Unique(t) /\ As(t) = 1
  BY <1>6, AsFinds DEF Unique
<1>8. Base(t) = t
  BY <1>2, <1>6, <1>7, SubSeqFull DEF Base
<1> QED
  BY <1>2, <1>3, <1>4, <1>5, <1>6, <1>7, <1>8 DEF t, k

(* The value of a bottom layer: one node. *)
LEMMA Single ==
    ASSUME NEW x \in Node
    PROVE  /\ <<x>> \in Seq(Node) /\ Len(<<x>>) = 1 /\ <<x>>[1] = x /\ Unique(<<x>>)
           /\ Base(<<x>>) = <<x>>
           /\ Matches(<<x>>) = {} <=> x.kind \notin {"Error", "nilError"}
           /\ RetryClassOf(<<x>>) = IF x.kind = "Unit" THEN x.class ELSE NoClass
<1> DEFINE s == <<x>>
<1>1. s \in Seq(Node) /\ Len(s) = 1 /\ s[1] = x
  OBVIOUS
<1> HIDE DEF s
<1>2. /\ Unique(s) /\ (Matches(s) # {} => 1 \in Matches(s))
      /\ Matches(s) = {} <=> x.kind \notin {"Error", "nilError"}
  BY <1>1 DEF Unique, Matches
<1>3. Matches(s) # {} => As(s) = 1
  BY <1>2, AsFinds DEF Unique
<1>4. Base(s) = s
  BY <1>1, <1>3, SubSeqFull DEF Base
<1>5. CASE x.kind = "Unit"
  <2>1. 1 \in Units(s) /\ \A m \in Units(s) : 1 <= m
    BY <1>1, <1>5 DEF Units
  <2>2. RetryClassOf(s) = x.class
    BY <1>1, <2>1, FirstUnit
  <2> QED
    BY <1>1, <1>2, <1>4, <1>5, <2>2 DEF s
<1>6. CASE x.kind # "Unit"
  <2>1. Units(s) = {}
    BY <1>1, <1>6 DEF Units
  <2> QED
    BY <1>1, <1>2, <1>4, <1>6, <2>1 DEF RetryClassOf, s
<1> QED
  BY <1>5, <1>6

LEMMA NilChain ==
    /\ Len(<<>>) = 0 /\ Matches(<<>>) = {}
    /\ RetryClassOf(<<>>) = NoClass /\ RetryClassOf(Base(<<>>)) = NoClass
<1>1. Matches(<<>>) = {} /\ Units(<<>>) = {}
  BY DEF Matches, Units
<1> QED
  BY <1>1 DEF Base, RetryClassOf

LEMMA Nodes ==
    /\ Plain("cause") \in Node /\ Plain("fmt") \in Node /\ Plain("nilError") \in Node
    /\ Plain("cause").kind = "cause" /\ Plain("fmt").kind = "fmt"
    /\ Plain("nilError").kind = "nilError"
    /\ \A class \in RetryClasses :
          /\ UnitError(class) \in Node
          /\ UnitError(class).kind = "Unit" /\ UnitError(class).class = class
    /\ \A class \in Classes, ds \in Map \union {NilMap} :
          /\ ErrorNode(class, ds) \in Node
          /\ ErrorNode(class, ds).kind = "Error" /\ ErrorNode(class, ds).class = class
          /\ ErrorNode(class, ds).details = ds
BY DEF Plain, UnitError, ErrorNode, Node

(* Maps: what is made and assigned is a map, with the value given last. *)
LEMMA Maps ==
    /\ EmptyMap \in Map /\ NilMap # EmptyMap /\ Made(NilMap) = EmptyMap
    /\ \A m \in Map : m # NilMap /\ Made(m) = m
    /\ \A k \in DetailKeys, v \in DetailValues : [EmptyMap EXCEPT ![k] = v] \in Map
    /\ \A m, given \in Map :
          /\ Assigned(m, given) \in Map
          /\ Assigned(m, given) =
                [k \in DetailKeys |-> IF given[k] = NoValue THEN m[k] ELSE given[k]]
<1>1. EmptyMap \in Map
  BY DEF EmptyMap, Map
<1>2. \A m \in Map : m # NilMap
  BY ErrsAssumption DEF Map
<1>3. \A k \in DetailKeys, v \in DetailValues : [EmptyMap EXCEPT ![k] = v] \in Map
  BY DEF EmptyMap, Map
<1>4. ASSUME NEW m \in Map, NEW given \in Map
      PROVE  /\ Assigned(m, given) \in Map
             /\ Assigned(m, given) =
                   [k \in DetailKeys |-> IF given[k] = NoValue THEN m[k] ELSE given[k]]
  BY <1>2 DEF Assigned, Map
<1> QED
  BY <1>1, <1>2, <1>3, <1>4 DEF Made

LEMMA InitInv == Init => Inv
<1> SUFFICES ASSUME Init PROVE Inv
  OBVIOUS
<1>1. err = <<>> /\ err \in Seq(Node) /\ attached \in Map
  BY Maps DEF Init
<1>2. OneMatch /\ Carried /\ Bottom /\ CausePreserved
  BY <1>1, NilChain DEF Init, OneMatch, Carried, Bottom, CausePreserved
<1>3. RetryHeld /\ RetryClassExact
  BY <1>1, NilChain DEF Init, RetryHeld, RetryClassExact
<1> QED
  BY <1>1, <1>2, <1>3 DEF Inv

(* What the history says before the bottom layer returns. *)
LEMMA BottomFacts ==
    ASSUME Inv, err = <<>>
    PROVE  /\ firstClass = NoClass /\ attached = EmptyMap
           /\ unitClass = NoClass /\ belowClass = NoClass /\ dropped = FALSE
<1>1. firstClass = NoClass /\ attached = EmptyMap
  BY NilChain DEF Inv, Carried
<1>2. belowClass = NoClass /\ unitClass = NoClass /\ dropped = FALSE
  BY NilChain DEF Inv, RetryHeld
<1> QED
  BY <1>1, <1>2

LEMMA BottomStep ==
    ASSUME Inv,
           ReturnNil \/ ReturnCause \/ (\E class \in Classes : New(class)) \/ ErrMethodNotFound
    PROVE  Inv'
<1>0. /\ err = <<>> /\ firstClass = NoClass /\ attached = EmptyMap
      /\ unitClass = NoClass /\ belowClass = NoClass /\ dropped = FALSE
      /\ origin = "none" /\ EmptyMap \in Map /\ Made(NilMap) = EmptyMap
  BY BottomFacts, Maps DEF Inv, Bottom, ReturnNil, ReturnCause, New, ErrMethodNotFound
<1>1. CASE ReturnNil
  <2>1. UNCHANGED <<err, firstClass, attached, unitClass, belowClass, dropped>> /\ origin' = "nil"
    BY <1>1 DEF ReturnNil, retryVars
  <2>2. RetryHeld' /\ RetryClassExact'
    BY <2>1 DEF Inv, RetryHeld, RetryClassExact
  <2> QED
    BY <2>1, <2>2 DEF Inv, OneMatch, Carried, Bottom, CausePreserved
<1>2. ASSUME NEW x \in Node, err' = <<x>>, attached' = EmptyMap, origin' # "none",
             x.kind = "Error" => /\ x.class = firstClass' /\ firstClass' # NoClass
                                 /\ x.details = NilMap,
             firstClass' # NoClass => x.kind = "Error",
             origin' = "cause" => x.kind = "cause",
             unitClass' = IF x.kind = "Unit" THEN x.class ELSE NoClass,
             belowClass' = unitClass', dropped' = FALSE
      PROVE  Inv'
  <2>1. err' \in Seq(Node) /\ Len(err') = 1 /\ err'[1] = x /\ Unique(err')
        /\ Base(err') = err' /\ RetryClassOf(err') = unitClass'
    BY <1>2, Single
  <2>2. RetryHeld' /\ RetryClassExact'
    BY <1>2, <2>1 DEF RetryHeld, RetryClassExact
  <2>3. Carried' /\ Bottom' /\ CausePreserved' /\ OneMatch'
    BY <1>0, <1>2, <2>1 DEF Carried, Bottom, CausePreserved, OneMatch, Unique
  <2> QED
    BY <1>0, <1>2, <2>1, <2>2, <2>3 DEF Inv
<1>3. CASE ReturnCause
  BY <1>0, <1>2, <1>3, Nodes DEF ReturnCause, retryVars
<1>4. ASSUME NEW class \in Classes, New(class) PROVE Inv'
  BY <1>0, <1>2, <1>4, Nodes, ErrsAssumption DEF New, retryVars
<1>5. CASE ErrMethodNotFound
  BY <1>0, <1>2, <1>5, Nodes, ErrsAssumption DEF ErrMethodNotFound
<1> QED
  BY <1>1, <1>3, <1>4, <1>5

(* fmt.Errorf and UnitError put a node around the error. *)
LEMMA ContextStep ==
    ASSUME Inv, FmtWrap \/ \E class \in RetryClasses : UnitLayer(class)
    PROVE  Inv'
<1>0. /\ err \in Seq(Node) /\ Unique(err) /\ err # <<>>
      /\ UNCHANGED <<origin, firstClass, attached>> /\ attached \in Map
  BY DEF Inv, OneMatch, Unique, FmtWrap, UnitLayer
<1> DEFINE Layer(x) ==
             /\ err' = <<x>> \o err /\ x.kind \in {"fmt", "Unit"}
             /\ unitClass' = IF x.kind = "Unit" THEN x.class ELSE unitClass
             /\ dropped' = IF x.kind = "Unit" THEN FALSE ELSE dropped
             /\ belowClass' = IF x.kind = "Unit" /\ Matches(err) = {} THEN x.class
                              ELSE belowClass
<1>1. PICK x \in Node : Layer(x)
  <2>1. CASE FmtWrap
    <3>1. Plain("fmt") \in Node /\ Plain("fmt").kind = "fmt"
      BY Nodes
    <3> QED
      BY <2>1, <3>1 DEF FmtWrap, retryVars
  <2>2. ASSUME NEW class \in RetryClasses, UnitLayer(class)
        PROVE  \E x \in Node : Layer(x)
    <3>1. UnitError(class) \in Node /\ UnitError(class).kind = "Unit" /\ UnitError(class).class = class
      BY Nodes
    <3> QED
      BY <2>2, <3>1 DEF UnitLayer
  <2> QED
    BY <2>1, <2>2
<1>2. /\ err' \in Seq(Node) /\ Len(err') = Len(err) + 1 /\ Len(err) \in Nat /\ err'[1] = x
      /\ \A n \in 1 .. Len(err) : err'[n + 1] = err[n]
      /\ \A n \in 1 .. Len(err) + 1 : n # 1 => n - 1 \in 1 .. Len(err) /\ err'[n] = err[n - 1]
  BY <1>0, <1>1, Around
<1>3. /\ Unique(err')
      /\ Matches(err') = {} <=> Matches(err) = {}
      /\ Matches(err) # {} => Base(err') = Base(err)
  BY <1>0, <1>1, MatchAround
<1>4. Carried'
  <2>1. \A n \in 1 .. Len(err') : err'[n].kind = "Error" =>
           n - 1 \in 1 .. Len(err) /\ err'[n] = err[n - 1]
    BY <1>1, <1>2
  <2>2. ASSUME NEW n \in 1 .. Len(err), err[n].kind = "Error"
        PROVE  n + 1 \in 1 .. Len(err') /\ err'[n + 1].kind = "Error"
    BY <1>2, <2>2
  <2> QED
    BY <1>0, <2>1, <2>2 DEF Inv, Carried
<1>5. Bottom' /\ CausePreserved'
  <2>1. Len(err) # 0 /\ err'[Len(err')] = err[Len(err)] /\ err' # <<>>
    BY <1>0, <1>2, EmptySeq
  <2> QED
    BY <1>0, <2>1 DEF Inv, Bottom, CausePreserved
<1>6. RetryHeld'
  <2>1. /\ RetryClassOf(Base(err)) = belowClass
        /\ Matches(err) = {} => belowClass = unitClass /\ dropped = FALSE
    BY DEF Inv, RetryHeld
  <2>2. CASE Matches(err) # {}
    BY <1>1, <1>3, <2>1, <2>2 DEF RetryHeld
  <2>3. CASE Matches(err) = {}
    <3>1. Base(err') = <<x>> \o err /\ Base(err) = err
      BY <1>1, <1>3, <2>3 DEF Base
    <3>2. RetryClassOf(Base(err')) = belowClass'
      BY <1>0, <1>1, <2>1, <2>3, <3>1, UnitsAround, UnitAround
    <3> QED
      BY <1>1, <2>1, <2>3, <3>2 DEF RetryHeld
  <2> QED
    BY <2>2, <2>3
<1>7. RetryClassExact'
  <2>1. RetryClassOf(err) = IF dropped THEN belowClass ELSE unitClass
    BY DEF Inv, RetryClassExact
  <2>2. CASE x.kind = "Unit"
    BY <1>0, <1>1, <2>2, UnitAround DEF RetryClassExact
  <2>3. CASE x.kind # "Unit"
    BY <1>0, <1>1, <2>1, <2>3, UnitsAround DEF RetryClassExact
  <2> QED
    BY <2>2, <2>3
<1>8. OneMatch'
  BY <1>3 DEF OneMatch, Unique
<1> QED
  BY <1>0, <1>2, <1>4, <1>5, <1>6, <1>7, <1>8 DEF Inv

(* errs.Wrap: the nil *Error, the *Error that is there, or a new one. *)
LEMMA WrapStep ==
    ASSUME Inv, NEW class \in Classes, WrapLayer(class)
    PROVE  Inv'
<1>0. /\ err \in Seq(Node) /\ Unique(err) /\ UNCHANGED <<origin, attached, unitClass, belowClass>>
      /\ origin # "none" /\ attached \in Map
      /\ err' = Wrap(err, class) /\ dropped' = (dropped \/ Matches(err) # {})
      /\ firstClass' = IF firstClass = NoClass /\ err # <<>> /\ err'[1].kind = "Error"
                       THEN class ELSE firstClass
  BY DEF Inv, OneMatch, Unique, WrapLayer
<1>r. /\ RetryClassOf(Base(err)) = belowClass
      /\ Matches(err) = {} => belowClass = unitClass /\ dropped = FALSE
      /\ RetryClassOf(err) = IF dropped THEN belowClass ELSE unitClass
  BY DEF Inv, RetryHeld, RetryClassExact
<1>1. CASE err = <<>>
  <2>1. /\ err' = <<Plain("nilError")>> /\ firstClass' = firstClass
        /\ Plain("nilError") \in Node /\ Plain("nilError").kind = "nilError"
    BY <1>0, <1>1, Nodes DEF Wrap
  <2>2. /\ err' \in Seq(Node) /\ Len(err') = 1 /\ err'[1].kind = "nilError" /\ Unique(err')
        /\ Matches(err') # {} /\ RetryClassOf(Base(err')) = NoClass /\ RetryClassOf(err') = NoClass
    BY <2>1, Single
  <2>3. /\ firstClass = NoClass /\ attached = EmptyMap /\ origin # "cause"
        /\ unitClass = NoClass /\ belowClass = NoClass
    BY <1>1, BottomFacts DEF Inv, CausePreserved
  <2>4. Carried' /\ Bottom' /\ CausePreserved' /\ OneMatch'
    BY <1>0, <2>1, <2>2, <2>3 DEF Carried, Bottom, CausePreserved, OneMatch, Unique
  <2>5. RetryHeld' /\ RetryClassExact'
    BY <1>0, <2>2, <2>3 DEF RetryHeld, RetryClassExact
  <2> QED
    BY <1>0, <2>2, <2>4, <2>5 DEF Inv
<1>2. CASE Matches(err) # {}
  <2>0. err # <<>> /\ err' = From(err)
    BY <1>0, <1>2, NilChain DEF Wrap, From
  <2>1. /\ err' \in Seq(Node) /\ Len(err') \in Nat \ {0}
        /\ err'[1] = err[As(err)] /\ err'[Len(err')] = err[Len(err)]
        /\ Unique(err') /\ Matches(err') # {} /\ Base(err') = err'
        /\ \A n \in 1 .. Len(err') : \E m \in 1 .. Len(err) : err'[n] = err[m]
    BY <1>0, <1>2, <2>0, WrapFound
  <2>2. /\ As(err) \in 1 .. Len(err) /\ \A m \in Matches(err) : m = As(err)
        /\ 1 \in 1 .. Len(err') /\ err' # <<>>
    <3>1. As(err) \in Matches(err) /\ \A m \in Matches(err) : m = As(err)
      BY <1>0, <1>2, AsFinds DEF Unique
    <3>2. As(err) \in 1 .. Len(err)
      BY <3>1 DEF Matches
    <3>3. 1 \in 1 .. Len(err') /\ err' # <<>>
      BY <2>1, NilChain
    <3> QED
      BY <3>1, <3>2, <3>3
  <2>3. firstClass' = firstClass
    BY <1>0, <2>1, <2>2 DEF Inv, Carried
  <2>4. Carried'
    <3>1. ASSUME NEW n \in 1 .. Len(err), err[n].kind = "Error" PROVE err'[1].kind = "Error"
      BY <2>1, <2>2, <3>1 DEF Matches
    <3> QED
      BY <1>0, <2>1, <2>2, <2>3, <3>1 DEF Inv, Carried
  <2>5. Bottom' /\ CausePreserved' /\ OneMatch'
    BY <1>0, <2>1, <2>2 DEF Inv, Bottom, CausePreserved, OneMatch, Unique
  <2>6. RetryHeld' /\ RetryClassExact'
    <3>1. Base(err) = err'
      BY <1>2, <2>0 DEF Base, From
    <3>2. RetryClassOf(err') = belowClass' /\ dropped' = TRUE
      BY <1>0, <1>r, <1>2, <3>1
    <3> QED
      BY <2>1, <3>2 DEF RetryHeld, RetryClassExact
  <2> QED
    BY <1>0, <2>1, <2>4, <2>5, <2>6 DEF Inv
<1>3. CASE err # <<>> /\ Matches(err) = {}
  <2> DEFINE x == ErrorNode(class, NilMap)
  <2>0. /\ err' = <<x>> \o err /\ x \in Node /\ x.kind = "Error" /\ x.class = class
        /\ x.details = NilMap
    BY <1>0, <1>3, Nodes DEF Wrap
  <2> HIDE DEF x
  <2>1. /\ err' \in Seq(Node) /\ Len(err') = Len(err) + 1 /\ Len(err) \in Nat /\ err'[1] = x
        /\ \A n \in 1 .. Len(err) : err'[n + 1] = err[n]
        /\ \A n \in 1 .. Len(err) + 1 : n # 1 => n - 1 \in 1 .. Len(err) /\ err'[n] = err[n - 1]
    BY <1>0, <2>0, Around
  <2>2. \A n \in 1 .. Len(err) : err[n].kind \notin {"Error", "nilError"}
    BY <1>3 DEF Matches
  <2>3. 1 \in Matches(err') /\ \A n \in Matches(err') : n = 1
    BY <2>0, <2>1, <2>2 DEF Matches
  <2>4. /\ firstClass = NoClass /\ attached = Made(NilMap)
        /\ firstClass' = class /\ class # NoClass
    BY <1>0, <1>3, <2>0, <2>1, <2>2, Maps, ErrsAssumption DEF Inv, Carried
  <2>5. Carried'
    <3>1. \A n \in 1 .. Len(err') : err'[n].kind = "Error" => n = 1
      BY <2>1, <2>2
    <3>2. 1 \in 1 .. Len(err')
      BY <2>1
    <3> QED
      BY <1>0, <2>0, <2>1, <2>4, <3>1, <3>2 DEF Carried
  <2>6. Bottom' /\ CausePreserved' /\ OneMatch'
    <3>1. Len(err) # 0 /\ err'[Len(err')] = err[Len(err)] /\ err' # <<>>
      BY <1>0, <1>3, <2>1, EmptySeq
    <3> QED
      BY <1>0, <2>3, <3>1 DEF Inv, Bottom, CausePreserved, OneMatch
  <2>7. RetryHeld' /\ RetryClassExact'
    <3>1. Unique(err') /\ As(err') = 1
      BY <2>3, AsFinds DEF Unique
    <3>2. Base(err') = err' /\ Base(err) = err
      BY <1>3, <2>1, <2>3, <3>1, SubSeqFull DEF Base
    <3>3. RetryClassOf(err') = belowClass' /\ belowClass' = unitClass'
      BY <1>0, <1>r, <1>3, <2>0, <3>2, UnitsAround
    <3> QED
      BY <2>3, <3>2, <3>3 DEF RetryHeld, RetryClassExact
  <2> QED
    BY <1>0, <2>1, <2>5, <2>6, <2>7 DEF Inv
<1> QED
  BY <1>1, <1>2, <1>3

(* WithDetail and WithDetails change the details of the *Error alone. *)
LEMMA DetailsStep ==
    ASSUME Inv, NEW given \in Map, Attach(given)
    PROVE  Inv'
<1> DEFINE k == As(err)
           x == ErrorNode(err[k].class, Assigned(Made(err[k].details), given))
<1>0. /\ err \in Seq(Node) /\ Unique(err) /\ attached \in Map
      /\ UNCHANGED <<origin, firstClass, unitClass, belowClass, dropped>>
      /\ Matches(err) # {} /\ err[k].kind = "Error" /\ err' = [err EXCEPT ![k] = x]
      /\ attached' = [j \in DetailKeys |-> IF given[j] = NoValue THEN attached[j] ELSE given[j]]
  BY DEF Inv, OneMatch, Unique, Attach, retryVars
<1>1. k \in Matches(err) /\ (\A m \in Matches(err) : m = k) /\ k \in 1 .. Len(err) /\ Len(err) \in Nat
  BY <1>0, AsFinds, LenProperties DEF Unique, Matches
<1>2. err[k] \in Node
  BY <1>0, <1>1, ElementOfSeq
<1>3. err[k].class = firstClass /\ firstClass # NoClass /\ Made(err[k].details) = attached
  BY <1>0, <1>1 DEF Inv, Carried
<1>4. Assigned(attached, given) = attached' /\ attached' \in Map /\ Made(attached') = attached'
  BY <1>0, Maps
<1>5. x = [kind |-> "Error", class |-> err[k].class, details |-> attached']
  BY <1>3, <1>4 DEF ErrorNode
<1>6. x \in Node /\ x.kind = "Error" /\ x.class = firstClass /\ x.details = attached'
  BY <1>2, <1>3, <1>4, <1>5 DEF Node
<1> HIDE DEF k, x
<1>7. /\ err' \in Seq(Node) /\ Len(err') = Len(err) /\ err'[k] = x
      /\ \A n \in 1 .. Len(err) : n # k => err'[n] = err[n]
  <2>1. err \in Seq(Node) /\ x \in Node
    BY <1>0, <1>6
  <2> QED
    BY <1>0, <1>1, <2>1, ExceptSeq
<1>8. Matches(err') = Matches(err) /\ Units(err') = Units(err)
  BY <1>0, <1>6, <1>7 DEF Matches, Units
<1>9. Carried'
  <2>1. \A n \in 1 .. Len(err') : err'[n].kind = "Error" => n = k
    BY <1>1, <1>8 DEF Matches
  <2>2. \A n \in 1 .. Len(err') : err'[n].kind = "Error" =>
           err'[n].class = firstClass' /\ firstClass' # NoClass /\ Made(err'[n].details) = attached'
    BY <1>0, <1>3, <1>4, <1>6, <1>7, <2>1
  <2>3. k \in 1 .. Len(err') /\ err'[k].kind = "Error"
    BY <1>1, <1>6, <1>7
  <2> QED
    BY <1>0, <1>3, <2>2, <2>3 DEF Carried
<1>10. Bottom' /\ CausePreserved' /\ OneMatch'
  <2>1. err' # <<>> /\ err # <<>> /\ Len(err) \in 1 .. Len(err)
    BY <1>0, <1>1, <1>7, NilChain
  <2>2. err'[Len(err')].kind = err[Len(err)].kind
    BY <1>0, <1>6, <1>7, <2>1
  <2> QED
    BY <1>0, <1>8, <2>1, <2>2 DEF Inv, Bottom, CausePreserved, OneMatch
<1>11. RetryClassOf(err') = RetryClassOf(err) /\ RetryClassOf(Base(err')) = RetryClassOf(Base(err))
  <2>1. Units(err) \subseteq Nat /\ \A n \in Units(err) : err'[n].class = err[n].class
    BY <1>0, <1>1, <1>7 DEF Units
  <2>2. RetryClassOf(err') = RetryClassOf(err)
    BY <1>8, <2>1, SameRetryClass
  <2>3. As(err') = k /\ Matches(err') # {}
    BY <1>0, <1>1, <1>8, AsFinds
  <2> DEFINE a == SubSeq(err, k, Len(err))
             b == SubSeq(err', k, Len(err'))
  <2>4. Base(err) = a /\ Base(err') = b
    BY <1>0, <2>3 DEF Base, k
  <2>5. /\ a \in Seq(Node) /\ Len(a) = Len(err) - k + 1
        /\ \A n \in 1 .. Len(err) - k + 1 : a[n] = err[k + n - 1]
    BY <1>0, <1>1, FromAs
  <2>6. /\ b \in Seq(Node) /\ Len(b) = Len(err) - k + 1
        /\ \A n \in 1 .. Len(err) - k + 1 : b[n] = err'[k + n - 1]
    BY <1>1, <1>7, FromAs
  <2> HIDE DEF a, b
  <2>7. \A n \in 1 .. Len(a) : k + n - 1 \in 1 .. Len(err) /\ (k + n - 1 = k <=> n = 1)
    BY <1>1, <2>5
  <2>8. \A n \in 1 .. Len(a) : n # 1 => a[n] = b[n]
    BY <1>7, <2>5, <2>6, <2>7
  <2>9. 1 \in 1 .. Len(a) /\ a[1].kind = "Error" /\ b[1].kind = "Error"
    <3>1. 1 \in 1 .. Len(a) /\ k + 1 - 1 = k
      BY <1>1, <2>5
    <3>2. a[1] = err[k] /\ b[1] = err'[k]
      BY <2>5, <2>6, <3>1
    <3> QED
      BY <1>0, <1>6, <1>7, <3>1, <3>2
  <2>10. /\ Units(a) = Units(b) /\ Units(a) \subseteq Nat
         /\ \A n \in Units(a) : a[n].class = b[n].class
    BY <2>5, <2>6, <2>8, <2>9 DEF Units
  <2> QED
    BY <2>2, <2>4, <2>10, SameRetryClass
<1>12. RetryHeld' /\ RetryClassExact'
  BY <1>0, <1>8, <1>11 DEF Inv, RetryHeld, RetryClassExact
<1> QED
  BY <1>4, <1>7, <1>9, <1>10, <1>12 DEF Inv

LEMMA InvStep == Inv /\ [Next]_vars => Inv'
<1> SUFFICES ASSUME Inv, [Next]_vars PROVE Inv'
  OBVIOUS
<1>1. ASSUME NEW k \in DetailKeys, NEW v \in DetailValues, WithDetail(k, v) PROVE Inv'
  BY <1>1, DetailsStep, Maps DEF WithDetail
<1>2. ASSUME NEW details \in Map, WithDetails(details) PROVE Inv'
  BY <1>2, DetailsStep DEF WithDetails
<1>3. CASE UNCHANGED vars
  <2>1. UNCHANGED <<err, origin, firstClass, attached, unitClass, belowClass, dropped>>
    BY <1>3 DEF vars, retryVars
  <2>2. RetryHeld' /\ RetryClassExact'
    BY <2>1 DEF Inv, RetryHeld, RetryClassExact
  <2> QED
    BY <2>1, <2>2 DEF Inv, OneMatch, Carried, Bottom, CausePreserved
<1> QED
  BY <1>1, <1>2, <1>3, BottomStep, ContextStep, WrapStep DEF Next

LEMMA InvHolds == Spec => []Inv
BY InitInv, InvStep, PTL DEF Spec

(***************************************************************************)
(* "no double-classification": whatever layers wrap it, however deep, an   *)
(* error value never holds two *Errors.                                    *)
(***************************************************************************)
THEOREM ClassifiedOnce == Spec => []OneClassification
<1>1. Inv => OneClassification
  <2> SUFFICES ASSUME Inv PROVE OneClassification
    OBVIOUS
  <2> DEFINE E == {n \in 1 .. Len(err) : err[n].kind = "Error"}
  <2>1. \A m, n \in E : m = n
    BY DEF Inv, OneMatch, Matches
  <2>2. CASE E = {}
    BY <2>2, FS_EmptySet DEF OneClassification
  <2>3. CASE E # {}
    <3>1. PICK n \in E : TRUE
      BY <2>3
    <3>2. E = {n}
      BY <2>1, <3>1
    <3>3. Cardinality(E) = 1
      BY <3>2, FS_Singleton
    <3> QED
      BY <3>3 DEF OneClassification
  <2> QED
    BY <2>2, <2>3
<1> QED
  BY <1>1, InvHolds, PTL

(***************************************************************************)
(* "preserving the original cause": Wrap may drop context around an        *)
(* *Error, never what is below it.                                         *)
(***************************************************************************)
THEOREM CauseIsPreserved == Spec => []CausePreserved
<1>1. Inv => CausePreserved
  BY DEF Inv
<1> QED
  BY <1>1, InvHolds, PTL

(***************************************************************************)
(* Classify reports the first class an error was given, and internal for   *)
(* one that was given none; Error.HTTPStatus agrees, for nil too.          *)
(***************************************************************************)
THEOREM ClassIsKept == Spec => []ClassKept
<1>0. HTTPStatus("internal") = 500
  BY DEF HTTPStatus
<1>1. Inv => ClassKept
  <2> SUFFICES ASSUME Inv PROVE ClassKept
    OBVIOUS
  <2>1. CASE Matches(err) = {}
    <3>1. firstClass = NoClass
      BY <2>1 DEF Inv, Carried, Matches
    <3>2. Classify(err) = "internal"
      BY <2>1 DEF Classify
    <3> QED
      BY <1>0, <2>1, <3>1, <3>2 DEF ClassKept
  <2>2. CASE Matches(err) # {}
    <3> DEFINE k == As(err)
    <3>1. k \in Matches(err) /\ \A m \in Matches(err) : m = k
      BY <2>2, AsFinds DEF Inv, OneMatch
    <3>2. k \in 1 .. Len(err) /\ err[k].kind \in {"Error", "nilError"}
      BY <3>1 DEF Matches
    <3>3. CASE err[k].kind = "Error"
      <4>1. firstClass # NoClass /\ err[k].class = firstClass
        BY <3>2, <3>3 DEF Inv, Carried
      <4>2. Classify(err) = firstClass
        BY <2>2, <3>3, <4>1 DEF Classify
      <4>3. ErrorHTTPStatus(err[k]) = HTTPStatus(firstClass)
        BY <3>3, <4>1 DEF ErrorHTTPStatus
      <4> QED
        BY <4>1, <4>2, <4>3 DEF ClassKept
    <3>4. CASE err[k].kind = "nilError"
      <4>1. firstClass = NoClass
        BY <3>1, <3>4 DEF Inv, Carried, Matches
      <4>2. Classify(err) = "internal" /\ ErrorHTTPStatus(err[k]) = 500
        BY <3>4 DEF Classify, ErrorHTTPStatus
      <4> QED
        BY <1>0, <4>1, <4>2 DEF ClassKept
    <3> QED
      BY <3>2, <3>3, <3>4
  <2> QED
    BY <2>1, <2>2
<1> QED
  BY <1>1, InvHolds, PTL

(***************************************************************************)
(* Details are a map to which every layer may add and which any layer may  *)
(* overwrite: whatever Wrap drops, however often the map is written, each  *)
(* key of the *Error at the top holds the value it was given last.         *)
(***************************************************************************)
THEOREM DetailsAreKept == Spec => []DetailsKept
<1>1. Inv => DetailsKept
  <2> SUFFICES ASSUME Inv, attached # EmptyMap
               PROVE  /\ Matches(err) # {} /\ err[As(err)].kind = "Error"
                      /\ err[As(err)].details = attached
    BY DEF DetailsKept
  <2>1. PICK n \in 1 .. Len(err) : err[n].kind = "Error"
    BY DEF Inv, Carried
  <2>2. n \in Matches(err)
    BY <2>1 DEF Matches
  <2>3. As(err) = n
    BY <2>2, AsFinds DEF Inv, OneMatch
  <2>4. Made(err[n].details) = attached
    BY <2>1 DEF Inv, Carried
  <2> QED
    BY <2>1, <2>2, <2>3, <2>4 DEF Made
<1> QED
  BY <1>1, InvHolds, PTL

(***************************************************************************)
(* The retry class the engine reads from the error is the one its last     *)
(* UnitError gave it, or, after a Wrap of an error that already held an    *)
(* *Error, the one it had below that *Error.  The inductive part is that   *)
(* what Wrap returns, the chain from the *Error down, still has it.        *)
(***************************************************************************)
THEOREM RetryClassIsExact == Spec => []RetryClassExact
<1>1. Inv => RetryClassExact
  BY DEF Inv
<1> QED
  BY <1>1, InvHolds, PTL
=============================================================================
