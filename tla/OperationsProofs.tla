-------------------------- MODULE OperationsProofs --------------------------
(***************************************************************************)
(* For all values of the constants: what the components of MCOperations    *)
(* promise.  They share no state, so each has an inductive invariant of    *)
(* its own, and a behaviour is one of the component "part".  In the order  *)
(* of the file:                                                            *)
(*                                                                         *)
(* CatalogInv: the windows of the catalogs follow each other without a     *)
(* gap, unless two calls cut one window; the latest is then always among   *)
(* those an activation has found.                                          *)
(*                                                                         *)
(* TrialInv: a transaction that gives the trial has the account, or the    *)
(* row of the user before there is one, to itself.                         *)
(*                                                                         *)
(* AdjustmentInv: a decision under way has found its adjustment decidable, *)
(* holds it, and was not made before.                                      *)
(*                                                                         *)
(* CheckoutInv: a call with an answer of the provider holds its key, and   *)
(* its transaction has the offer it will store.                            *)
(*                                                                         *)
(* WorkInv: a request past its claim is the only one with its record, and  *)
(* the records name each analysis once; credits and work add up.           *)
(*                                                                         *)
(* RolloutInv: one active configuration, one canary and no canary alone,   *)
(* although the unique indexes are checked with each row that is written.  *)
(*                                                                         *)
(* JobInv: what is sent, waiting or executed is a job, in these numbers,   *)
(* and each retry has its dispatch and its command.                        *)
(*                                                                         *)
(* AccountInv: a command under way has locked both accounts, knows what    *)
(* their rows hold and was not carried out before.                         *)
(*                                                                         *)
(* ConsentInv: the row is what the last decision made of it, if whoever    *)
(* made it knew of those before.                                           *)
(*                                                                         *)
(* TokenInv: the history of a check contains the present keys.             *)
(*                                                                         *)
(* RateInv: nobody has passed more often than the key was counted.         *)
(***************************************************************************)
EXTENDS MCOperations, FiniteSetTheorems, FunctionTheorems, SequenceTheorems,
        WellFoundedInduction, NaturalsInduction, TLAPS
-----------------------------------------------------------------------------
(* Finite sets and maxima.                                                 *)

\* Every set of natural numbers that is not empty has a least element.
LEMMA LeastNat ==
  ASSUME NEW T, T \subseteq Nat, T # {}
  PROVE  \E x \in T : \A y \in T : x <= y
<1> DEFINE R == {ss \in Nat \X Nat : ss[1] < ss[2]}
<1>1. OpToRel(<, Nat) = R
  BY DEF OpToRel
<1>2. IsWellFoundedOn(R, Nat)
  BY <1>1, NatLessThanWellFounded
<1> HIDE DEF R
<1>3. PICK x \in T : \A y \in T : ~ (<<y, x>> \in R)
  BY <1>2, WFMin
<1>4. ASSUME NEW y \in T PROVE x <= y
  <2>1. ~ (<<y, x>> \in R)
    BY <1>3
  <2>2. x \in Nat /\ y \in Nat
    OBVIOUS
  <2>3. ~ (y < x)
    BY <2>1, <2>2 DEF R
  <2> QED
    BY <2>2, <2>3
<1> QED
  BY <1>3, <1>4

\* A set of bounded numbers that is not empty has a greatest element.
LEMMA GreatestNat ==
  ASSUME NEW T, NEW n \in Nat, T \subseteq 0 .. n, T # {}
  PROVE  \E x \in T : \A y \in T : y <= x
<1> DEFINE U == {k \in 0 .. n : n - k \in T}
<1>1. U \subseteq Nat
  OBVIOUS
<1>2. U # {}
  <2>1. PICK y \in T : TRUE
    OBVIOUS
  <2>2. n - y \in 0 .. n /\ n - (n - y) = y
    BY <2>1
  <2> QED
    BY <2>1, <2>2
<1> HIDE DEF U
<1>3. PICK k \in U : \A l \in U : k <= l
  BY <1>1, <1>2, LeastNat
<1>4. k \in 0 .. n /\ n - k \in T
  BY <1>3 DEF U
<1>5. ASSUME NEW y \in T PROVE y <= n - k
  <2>1. y \in 0 .. n /\ n - y \in 0 .. n /\ n - (n - y) = y
    OBVIOUS
  <2>2. n - y \in U
    BY <2>1 DEF U
  <2>3. k <= n - y
    BY <1>3, <2>2
  <2> QED
    BY <1>4, <2>1, <2>3
<1> QED
  BY <1>4, <1>5

\* A set with one more element has one more element.
LEMMA OneMore ==
  ASSUME NEW S, IsFiniteSet(S), NEW x, x \notin S
  PROVE  /\ IsFiniteSet(S \union {x}) /\ Cardinality(S) \in Nat
         /\ Cardinality(S \union {x}) = Cardinality(S) + 1
BY FS_AddElement, FS_CardinalityType

-----------------------------------------------------------------------------
(* The catalogs.                                                           *)

CatalogRows == [status : {"none", "draft", "active"}, from : 0 .. LastMoment, to : 0 .. Forever,
                price : Prices \union {0}]
EditorRows == [at : {"none", "activating", "pricing"}, id : Catalogs \union {0}, moment : 0 .. LastMoment,
               price : Prices \union {0}, found : SUBSET Catalogs]

CatalogsTyped ==
  /\ catalog \in [Catalogs -> CatalogRows]
  /\ editor \in [Editors -> EditorRows]
  /\ cutTwice \in BOOLEAN

CatalogWell(c) ==
  /\ catalog[c].status = "active" => catalog[c].from \in Moments /\ catalog[c].from < catalog[c].to
  /\ catalog[c].status # "none" => catalog[c].price \in Prices

\* An activation has its draft to itself, and what it has found is still active.
EditorWell(e) ==
  /\ editor[e].at = "activating" =>
       /\ editor[e].id \in Catalogs /\ catalog[editor[e].id].status = "draft"
       /\ editor[e].moment \in Moments /\ editor[e].found \subseteq Active
  /\ editor[e].at = "pricing" =>
       /\ editor[e].id \in Catalogs /\ catalog[editor[e].id].status # "none"
       /\ editor[e].price \in Prices

EditorsApart ==
  \A e, f \in Editors :
    e # f /\ editor[e].at = "activating" /\ editor[f].at = "activating" => editor[e].id # editor[f].id

\* The windows follow each other: none begins with another or in another, and where one
\* ends the next begins, or none ever will.
TimeLine ==
  /\ \A c, d \in Active : c # d => catalog[c].from # catalog[d].from
  /\ \A c, d \in Active : catalog[c].from < catalog[d].from => catalog[c].to <= catalog[d].from
  /\ \A c \in Active : catalog[c].to = Forever \/ \E d \in Active : catalog[d].from = catalog[c].to

CatalogInv ==
  /\ CatalogsTyped
  /\ \A c \in Catalogs : CatalogWell(c)
  /\ \A e \in Editors : EditorWell(e)
  /\ EditorsApart
  /\ cutTwice \/ TimeLine

LEMMA IdleCatalogCall ==
  /\ NoCall \in EditorRows /\ NoCall.at = "none"
BY CatalogAssumption DEF NoCall, EditorRows

LEMMA CatalogStarts ==
  ASSUME CatalogInit
  PROVE  CatalogInv
<1>1. CatalogsTyped
  <2>1. 0 \in 0 .. LastMoment /\ 0 \in 0 .. Forever
    BY CatalogAssumption DEF Forever
  <2>2. [status |-> "none", from |-> 0, to |-> 0, price |-> 0] \in CatalogRows
    BY <2>1 DEF CatalogRows
  <2> QED
    BY <2>2, IdleCatalogCall DEF CatalogInit, CatalogsTyped
<1>2. \A c \in Catalogs : CatalogWell(c)
  BY DEF CatalogInit, CatalogWell
<1>3. (\A e \in Editors : EditorWell(e)) /\ EditorsApart
  BY IdleCatalogCall DEF CatalogInit, EditorWell, EditorsApart
<1>4. Active = {}
  BY DEF CatalogInit, Active
<1>5. TimeLine
  BY <1>4 DEF TimeLine
<1> QED
  BY <1>1, <1>2, <1>3, <1>5 DEF CatalogInv

\* Among some catalogs one begins last, and one begins first.
LEMMA LastAndFirst ==
  ASSUME NEW S, S \subseteq Catalogs, S # {}, CatalogsTyped
  PROVE  /\ \E c \in S : \A d \in S : catalog[d].from <= catalog[c].from
         /\ \E c \in S : \A d \in S : catalog[c].from <= catalog[d].from
<1> DEFINE T == {catalog[c].from : c \in S}
<1>1. \A c \in S : catalog[c] \in CatalogRows
  BY DEF CatalogsTyped
<1>2. T \subseteq 0 .. LastMoment /\ T # {} /\ LastMoment \in Nat
  <2>1. \A c \in S : catalog[c].from \in 0 .. LastMoment
    BY <1>1 DEF CatalogRows
  <2>2. T \subseteq 0 .. LastMoment
    BY <2>1
  <2>3. T # {}
    OBVIOUS
  <2> QED
    BY <2>2, <2>3, CatalogAssumption
<1>3. T \subseteq Nat
  BY <1>2
<1>4. \A x : x \in T => \E c \in S : x = catalog[c].from
  OBVIOUS
<1>5. \A c \in S : catalog[c].from \in T
  OBVIOUS
<1> HIDE DEF T
<1>6. PICK x \in T : \A y \in T : y <= x
  BY <1>2, GreatestNat
<1>7. PICK z \in T : \A y \in T : z <= y
  BY <1>2, <1>3, LeastNat
<1> QED
  BY <1>4, <1>5, <1>6, <1>7

-----------------------------------------------------------------------------
\* What has no effect on the windows has none on the time line.
LEMMA SameWindows ==
  ASSUME NEW c \in Catalogs, NEW row \in CatalogRows, CatalogInv, UNCHANGED cutTwice,
         catalog' = [catalog EXCEPT ![c] = row],
         row.from = catalog[c].from, row.to = catalog[c].to,
         row.status # catalog[c].status => catalog[c].status = "none" /\ row.status = "draft",
         row.status # "none" => row.price \in Prices
  PROVE  /\ catalog' \in [Catalogs -> CatalogRows]
         /\ \A d \in Catalogs : CatalogWell(d)'
         /\ cutTwice' \/ TimeLine'
         /\ Active' = Active
         /\ \A d \in Catalogs : /\ catalog[d].status = "draft" => catalog'[d].status = "draft"
                                /\ catalog[d].status # "none" => catalog'[d].status # "none"
<1>1. catalog \in [Catalogs -> CatalogRows] /\ \A d \in Catalogs : CatalogWell(d)
  BY DEF CatalogInv, CatalogsTyped
<1>2. catalog' \in [Catalogs -> CatalogRows] /\ catalog'[c] = row
      /\ \A d \in Catalogs : d # c => catalog'[d] = catalog[d]
  BY <1>1
<1>3. \A d \in Catalogs : catalog'[d].from = catalog[d].from /\ catalog'[d].to = catalog[d].to
  BY <1>2
<1>4. Active' = Active
  BY <1>2 DEF Active
<1>5. ASSUME NEW d \in Catalogs PROVE CatalogWell(d)'
  <2>1. CASE d = c
    <3>1. CatalogWell(c)
      BY <1>1
    <3> QED
      BY <1>2, <2>1, <3>1 DEF CatalogWell, Moments
  <2>2. CASE d # c
    BY <1>1, <1>2, <2>2 DEF CatalogWell, Moments
  <2> QED
    BY <2>1, <2>2
<1>6. Active \subseteq Catalogs
  BY DEF Active
<1>7. TimeLine => TimeLine'
  BY <1>3, <1>4, <1>6 DEF TimeLine, Forever
<1>8. cutTwice' \/ TimeLine'
  BY <1>7 DEF CatalogInv
<1> QED
  BY <1>2, <1>4, <1>5, <1>8

LEMMA CreateKeeps ==
  ASSUME CatalogInv, NEW c \in Catalogs, CreateCatalog(c)
  PROVE  CatalogInv'
<1>1. PICK p \in Prices : catalog' = [catalog EXCEPT ![c] = [catalog[c] EXCEPT !.status = "draft", !.price = p]]
  BY DEF CreateCatalog, CatalogInv, CatalogsTyped
<1>2. catalog[c].status = "none" /\ UNCHANGED <<editor, cutTwice>>
  BY DEF CreateCatalog
<1>3. catalog[c] \in CatalogRows
  BY DEF CatalogInv, CatalogsTyped
<1> DEFINE row == [catalog[c] EXCEPT !.status = "draft", !.price = p]
<1>4. row \in CatalogRows /\ row.status = "draft" /\ row.from = catalog[c].from /\ row.to = catalog[c].to
      /\ row.price = p
  BY <1>3 DEF CatalogRows
<1> HIDE DEF row
<1>5. /\ catalog' \in [Catalogs -> CatalogRows] /\ \A d \in Catalogs : CatalogWell(d)'
      /\ cutTwice' \/ TimeLine'
      /\ Active' = Active
      /\ \A d \in Catalogs : /\ catalog[d].status = "draft" => catalog'[d].status = "draft"
                             /\ catalog[d].status # "none" => catalog'[d].status # "none"
  BY <1>1, <1>2, <1>4, SameWindows DEF row
<1>6. CatalogsTyped'
  BY <1>2, <1>5 DEF CatalogInv, CatalogsTyped
<1>7. \A e \in Editors : EditorWell(e)'
  BY <1>2, <1>5 DEF CatalogInv, EditorWell
<1>8. EditorsApart'
  BY <1>2 DEF CatalogInv, EditorsApart
<1> QED
  BY <1>5, <1>6, <1>7, <1>8 DEF CatalogInv

LEMMA PriceKeeps ==
  ASSUME CatalogInv, NEW e \in Editors, EndPrice(e)
  PROVE  CatalogInv'
<1> DEFINE c == editor[e].id
           row == [catalog[c] EXCEPT !.price = editor[e].price]
<1>1. editor[e].at = "pricing" /\ catalog' = [catalog EXCEPT ![c] = row]
      /\ editor' = [editor EXCEPT ![e] = NoCall] /\ UNCHANGED cutTwice
  BY DEF EndPrice, End, CatalogInv, CatalogsTyped
<1>2. c \in Catalogs /\ editor[e].price \in Prices /\ editor \in [Editors -> EditorRows] /\ catalog[c].status # "none"
  BY <1>1 DEF CatalogInv, CatalogsTyped, EditorWell
<1>3. catalog[c] \in CatalogRows
  BY <1>2 DEF CatalogInv, CatalogsTyped
<1> HIDE DEF c
<1>4. row \in CatalogRows /\ row.status = catalog[c].status /\ row.from = catalog[c].from
      /\ row.to = catalog[c].to /\ row.price = editor[e].price
  BY <1>2, <1>3 DEF CatalogRows
<1> HIDE DEF row
<1>5. /\ catalog' \in [Catalogs -> CatalogRows] /\ \A d \in Catalogs : CatalogWell(d)'
      /\ cutTwice' \/ TimeLine'
      /\ Active' = Active
      /\ \A d \in Catalogs : /\ catalog[d].status = "draft" => catalog'[d].status = "draft"
                             /\ catalog[d].status # "none" => catalog'[d].status # "none"
  BY <1>1, <1>2, <1>4, SameWindows
<1>6. CatalogsTyped'
  BY <1>1, <1>2, <1>5, IdleCatalogCall DEF CatalogInv, CatalogsTyped
<1>7. ASSUME NEW f \in Editors PROVE EditorWell(f)'
  <2>1. CASE f = e
    BY <1>1, <1>2, <2>1, IdleCatalogCall DEF EditorWell
  <2>2. CASE f # e
    <3>1. editor'[f] = editor[f] /\ EditorWell(f)
      BY <1>1, <1>2, <2>2 DEF CatalogInv
    <3> QED
      BY <1>5, <3>1 DEF EditorWell
  <2> QED
    BY <2>1, <2>2
<1>8. EditorsApart'
  BY <1>1, <1>2, IdleCatalogCall DEF CatalogInv, EditorsApart
<1> QED
  BY <1>5, <1>6, <1>7, <1>8 DEF CatalogInv

LEMMA BeginKeeps ==
  ASSUME CatalogInv, NEW e \in Editors, BeginPrice(e) \/ BeginActivation(e)
  PROVE  CatalogInv'
<1>0. editor \in [Editors -> EditorRows]
  BY DEF CatalogInv, CatalogsTyped
<1>1. PICK row \in EditorRows :
        /\ editor' = [editor EXCEPT ![e] = row] /\ UNCHANGED <<catalog, cutTwice>>
        /\ row.id \in Catalogs /\ catalog[row.id].status = "draft"
        /\ \/ row.at = "pricing" /\ row.price \in Prices
           \/ /\ row.at = "activating" /\ row.moment \in Moments /\ row.found = Active
              /\ \A f \in Editors : ~(editor[f].at = "activating" /\ editor[f].id = row.id)
  <2>1. CASE BeginPrice(e)
    <3>1. PICK c \in Catalogs, p \in Prices :
            /\ catalog[c].status = "draft"
            /\ editor' = [editor EXCEPT ![e] = [NoCall EXCEPT !.at = "pricing", !.id = c, !.price = p]]
            /\ UNCHANGED <<catalog, cutTwice>>
      BY <2>1 DEF BeginPrice, Begin
    <3> DEFINE row == [NoCall EXCEPT !.at = "pricing", !.id = c, !.price = p]
    <3>2. row \in EditorRows /\ row.at = "pricing" /\ row.id = c /\ row.price = p
      BY IdleCatalogCall DEF EditorRows
    <3> HIDE DEF row
    <3> QED
      BY <3>1, <3>2 DEF row
  <2>2. CASE BeginActivation(e)
    <3>1. PICK c \in Catalogs, m \in Moments :
            /\ catalog[c].status = "draft"
            /\ \A f \in Editors : ~(editor[f].at = "activating" /\ editor[f].id = c)
            /\ editor' = [editor EXCEPT ![e] = [NoCall EXCEPT !.at = "activating", !.id = c, !.moment = m, !.found = Active]]
            /\ UNCHANGED <<catalog, cutTwice>>
      BY <2>2 DEF BeginActivation, Begin
    <3> DEFINE row == [NoCall EXCEPT !.at = "activating", !.id = c, !.moment = m, !.found = Active]
    <3>2. Active \in SUBSET Catalogs
      BY DEF Active
    <3>3. row \in EditorRows /\ row.at = "activating" /\ row.id = c /\ row.moment = m /\ row.found = Active
      <4>1. m \in 0 .. LastMoment
        BY CatalogAssumption DEF Moments
      <4> QED
        BY <3>2, <4>1, IdleCatalogCall DEF EditorRows
    <3> HIDE DEF row
    <3> QED
      BY <3>1, <3>3 DEF row
  <2> QED
    BY <2>1, <2>2
<1>2. editor'[e] = row /\ \A f \in Editors : f # e => editor'[f] = editor[f]
  BY <1>0, <1>1
<1>3. CatalogsTyped'
  BY <1>0, <1>1 DEF CatalogInv, CatalogsTyped
<1>4. Active' = Active
  BY <1>1 DEF Active
<1>5. ASSUME NEW f \in Editors PROVE EditorWell(f)'
  <2>1. CASE f = e
    BY <1>1, <1>2, <1>4, <2>1 DEF EditorWell
  <2>2. CASE f # e
    BY <1>1, <1>2, <1>4, <2>2 DEF CatalogInv, EditorWell
  <2> QED
    BY <2>1, <2>2
<1>6. EditorsApart'
  BY <1>1, <1>2 DEF CatalogInv, EditorsApart
<1>7. \A c \in Catalogs : CatalogWell(c)'
  BY <1>1 DEF CatalogInv, CatalogWell
<1>8. cutTwice' \/ TimeLine'
  BY <1>1, <1>4 DEF CatalogInv, TimeLine
<1> QED
  BY <1>3, <1>5, <1>6, <1>7, <1>8 DEF CatalogInv
-----------------------------------------------------------------------------
\* The end of a new window: where the next of the found windows begins, or never.
LEMMA EndOfNew ==
  ASSUME CatalogInv, NEW e \in Editors, editor[e].at = "activating"
  PROVE  /\ NewEnd(e) \in 0 .. Forever /\ editor[e].moment < NewEnd(e)
         /\ NewEnd(e) = Forever \/ \E a \in Active : catalog[a].from = NewEnd(e)
         /\ \A c \in After(e) : NewEnd(e) <= catalog[c].from
<1>1. /\ editor[e].moment \in Moments /\ editor[e].found \subseteq Active /\ CatalogsTyped
      /\ LastMoment \in Nat /\ Forever = LastMoment + 1 /\ editor[e].moment \in 1 .. LastMoment
  BY CatalogAssumption DEF CatalogInv, EditorWell, Moments, Forever
<1>2. Active \subseteq Catalogs /\ \A c \in Active : catalog[c].from \in 1 .. LastMoment
  BY DEF Active, CatalogInv, CatalogWell, Moments
<1>3. After(e) \subseteq Active /\ \A c \in After(e) : editor[e].moment < catalog[c].from
  BY <1>1, <1>2 DEF After
<1>4. CASE After(e) = {}
  <2>1. NewEnd(e) = Forever
    BY <1>4 DEF NewEnd
  <2> QED
    BY <1>1, <1>4, <2>1
<1>5. CASE After(e) # {}
  <2> DEFINE a == CHOOSE c \in Earliest(After(e)) : TRUE
  <2>1. \E c \in After(e) : \A d \in After(e) : catalog[c].from <= catalog[d].from
    BY <1>1, <1>2, <1>3, <1>5, LastAndFirst
  <2>2. Earliest(After(e)) # {}
    BY <2>1 DEF Earliest
  <2>3. a \in Earliest(After(e))
    BY <2>2
  <2>4. NewEnd(e) = catalog[a].from
    BY <1>5 DEF NewEnd
  <2> HIDE DEF a
  <2>5. a \in After(e) /\ \A d \in After(e) : catalog[a].from <= catalog[d].from
    BY <2>3 DEF Earliest
  <2>6. a \in Active /\ catalog[a].from \in 1 .. LastMoment /\ editor[e].moment < catalog[a].from
    BY <1>2, <1>3, <2>5
  <2>7. catalog[a].from \in 0 .. Forever
    BY <1>1, <2>6
  <2> QED
    BY <2>4, <2>5, <2>6, <2>7
<1> QED
  BY <1>4, <1>5

\* The rows that an activation leaves.
LEMMA RowsOfSchedule ==
  ASSUME CatalogInv, NEW e \in Editors, editor[e].at = "activating", NEW c \in Catalogs
  PROVE  /\ Scheduled(e)[c] \in CatalogRows
         /\ Scheduled(e)[c].price = catalog[c].price
         /\ c = editor[e].id =>
              /\ Scheduled(e)[c].status = "active" /\ Scheduled(e)[c].from = editor[e].moment
              /\ Scheduled(e)[c].to = NewEnd(e)
         /\ c # editor[e].id =>
              /\ Scheduled(e)[c].status = catalog[c].status /\ Scheduled(e)[c].from = catalog[c].from
              /\ \/ Scheduled(e)[c].to = catalog[c].to
                 \/ /\ Scheduled(e)[c].to = editor[e].moment /\ catalog[c].to > editor[e].moment
                    /\ c \in LatestFrom(Before(e))
         /\ c # editor[e].id /\ c \in LatestFrom(Before(e)) => Scheduled(e)[c].to <= editor[e].moment
<1> DEFINE n == editor[e].id
           m == editor[e].moment
           end == NewEnd(e)
           opened == [catalog[c] EXCEPT !.status = "active", !.from = m, !.to = end]
           cut == [catalog[c] EXCEPT !.to = m]
<1>1. catalog[c] \in CatalogRows /\ m \in 1 .. LastMoment /\ LastMoment \in Nat /\ Forever = LastMoment + 1
  BY CatalogAssumption DEF CatalogInv, CatalogsTyped, EditorWell, Moments, Forever
<1>2. end \in 0 .. Forever
  BY EndOfNew
<1>3. Scheduled(e)[c] = IF c = n THEN opened
                        ELSE IF c \in LatestFrom(Before(e)) /\ catalog[c].to > m THEN cut ELSE catalog[c]
  BY DEF Scheduled
<1>4. m \in 0 .. Forever /\ m \in 0 .. LastMoment /\ m \in Int
  BY <1>1
<1>5. catalog[c].to \in 0 .. Forever
  BY <1>1 DEF CatalogRows
<1> HIDE DEF n, m, end
<1>6. opened \in CatalogRows /\ opened.price = catalog[c].price /\ opened.status = "active"
      /\ opened.from = m /\ opened.to = end
  BY <1>1, <1>2, <1>4 DEF CatalogRows
<1>7. cut \in CatalogRows /\ cut.price = catalog[c].price /\ cut.status = catalog[c].status
      /\ cut.from = catalog[c].from /\ cut.to = m
  BY <1>1, <1>4 DEF CatalogRows
<1> HIDE DEF opened, cut
<1>8. catalog[c].to \in Int
  BY <1>1, <1>5
<1> QED
  BY <1>1, <1>3, <1>4, <1>6, <1>7, <1>8 DEF n, m, end

\* No window that the activation has not found begins between the one it cuts and the
\* next: in the middle of the time line because none was cut meanwhile, at its end because
\* there would be two tails.
LEMMA NoneBetween ==
  ASSUME CatalogInv, TimeLine, NEW e \in Editors, editor[e].at = "activating",
         \A c \in editor[e].found : catalog[c].from # editor[e].moment,
         ~TwoTails(e), ~CutMeanwhile(e), NEW c \in Active, catalog[c].from < NewEnd(e)
  PROVE  \E b \in Before(e) : catalog[c].from <= catalog[b].from
<1> DEFINE n == editor[e].id
           m == editor[e].moment
<1>1. /\ n \in Catalogs /\ catalog[n].status = "draft" /\ m \in 1 .. LastMoment /\ editor[e].found \subseteq Active
      /\ LastMoment \in Nat /\ Forever = LastMoment + 1 /\ CatalogsTyped
  BY CatalogAssumption DEF CatalogInv, EditorWell, Moments, Forever
<1>2. /\ Active \subseteq Catalogs
      /\ \A d \in Active : catalog[d].from \in 1 .. LastMoment /\ catalog[d].from < catalog[d].to
  BY DEF Active, CatalogInv, CatalogWell, Moments
<1>3. Before(e) \subseteq Active
  BY <1>1 DEF Before
<1>4. catalog[c].from \in 1 .. LastMoment /\ \A b \in Before(e) : catalog[b].from \in 1 .. LastMoment
  BY <1>2, <1>3
<1>5. CASE NewEnd(e) # Forever
  <2>1. CASE c \in editor[e].found
    <3>1. catalog[c].from # m
      BY <2>1
    <3>2. catalog[c].from < m \/ catalog[c].from > m
      BY <1>1, <1>4, <3>1
    <3>3. CASE catalog[c].from < m
      <4>1. c \in Before(e)
        BY <2>1, <3>3 DEF Before
      <4> QED
        BY <1>4, <4>1
    <3>4. CASE catalog[c].from > m
      <4>1. c \in After(e)
        BY <2>1, <3>4 DEF After
      <4>2. NewEnd(e) <= catalog[c].from /\ NewEnd(e) \in 0 .. Forever
        BY <4>1, EndOfNew
      <4> QED
        BY <1>1, <1>4, <4>2
    <3> QED
      BY <3>2, <3>3, <3>4
  <2>2. CASE c \notin editor[e].found
    <3>1. ~ \A b \in Before(e) : catalog[b].from < catalog[c].from
      BY <1>5, <2>2 DEF CutMeanwhile
    <3> QED
      BY <1>4, <3>1
  <2> QED
    BY <2>1, <2>2
<1>6. CASE NewEnd(e) = Forever
  <2>1. PICK l \in Active : \A d \in Active : catalog[d].from <= catalog[l].from
    BY <1>1, <1>2, LastAndFirst
  <2>2. catalog[l].to = Forever
    <3>1. SUFFICES ASSUME NEW d \in Active, catalog[d].from = catalog[l].to PROVE FALSE
      BY DEF TimeLine
    <3>2. catalog[l].from < catalog[l].to /\ catalog[d].from <= catalog[l].from
      BY <1>2, <2>1
    <3>3. catalog[l].from \in 1 .. LastMoment /\ catalog[d].from \in 1 .. LastMoment
      BY <1>2
    <3> QED
      BY <1>1, <3>1, <3>2, <3>3
  <2>3. l \in Catalogs /\ catalog[l].status = "active" /\ l # n
    BY <1>1, <1>2 DEF Active
  <2>4. /\ Scheduled(e)[n].status = "active" /\ Scheduled(e)[n].to = Forever
        /\ Scheduled(e)[l].status = "active"
        /\ Scheduled(e)[l].to = Forever \/ l \in LatestFrom(Before(e))
    BY <1>1, <1>6, <2>2, <2>3, RowsOfSchedule
  <2>5. ~(Scheduled(e)[l].to = Forever)
    <3>1. SUFFICES ASSUME Scheduled(e)[l].to = Forever PROVE FALSE
      OBVIOUS
    <3>2. l \in Nat /\ n \in Nat
      BY <1>1, <2>3, CatalogAssumption
    <3>3. ASSUME NEW x \in Catalogs, NEW y \in Catalogs, y < x, x \in Nat, y \in Nat,
                 Scheduled(e)[x].status = "active", Scheduled(e)[x].to = Forever,
                 Scheduled(e)[y].status = "active", Scheduled(e)[y].to = Forever
          PROVE  FALSE
      <4>1. x <= x /\ y <= x /\ x # y
        BY <3>3
      <4> QED
        BY <3>3, <4>1 DEF TwoTails
    <3>4. n < l \/ l < n
      BY <2>3, <3>2
    <3> QED
      BY <1>1, <2>3, <2>4, <3>1, <3>2, <3>3, <3>4
  <2>6. l \in Before(e)
    BY <2>4, <2>5 DEF LatestFrom
  <2> QED
    BY <2>1, <2>6
<1> QED
  BY <1>5, <1>6

\* The time line with the new window in it.
LEMMA TimeLineKept ==
  ASSUME CatalogInv, TimeLine, NEW e \in Editors, editor[e].at = "activating",
         \A c \in editor[e].found : catalog[c].from # editor[e].moment,
         ~TwoTails(e), ~CutMeanwhile(e), catalog' = Scheduled(e)
  PROVE  TimeLine'
<1> DEFINE n == editor[e].id
           m == editor[e].moment
           end == NewEnd(e)
<1>1. /\ n \in Catalogs /\ catalog[n].status = "draft" /\ m \in 1 .. LastMoment /\ editor[e].found \subseteq Active
      /\ LastMoment \in Nat /\ Forever = LastMoment + 1 /\ CatalogsTyped
  BY CatalogAssumption DEF CatalogInv, EditorWell, Moments, Forever
<1>2. /\ Active \subseteq Catalogs
      /\ \A d \in Active : /\ catalog[d].from \in 1 .. LastMoment /\ catalog[d].from < catalog[d].to
                           /\ catalog[d].to \in 0 .. Forever
  BY DEF Active, CatalogInv, CatalogsTyped, CatalogWell, Moments, CatalogRows
<1>3. /\ catalog'[n].status = "active" /\ catalog'[n].from = m /\ catalog'[n].to = end
      /\ \A d \in Catalogs : d # n =>
           /\ catalog'[d].status = catalog[d].status /\ catalog'[d].from = catalog[d].from
           /\ catalog'[d].to = catalog[d].to \/ (catalog'[d].to = m /\ catalog[d].to > m)
           /\ d \in LatestFrom(Before(e)) => catalog'[d].to <= m
  BY <1>1, RowsOfSchedule
<1>4. Active' = Active \union {n} /\ n \notin Active
  BY <1>1, <1>3 DEF Active
<1>5. /\ end \in 0 .. Forever /\ m < end
      /\ end = Forever \/ \E a \in Active : catalog[a].from = end
  BY EndOfNew
<1>6. \A d \in Active : catalog[d].from < end => \E b \in Before(e) : catalog[d].from <= catalog[b].from
  BY NoneBetween
<1>7. Before(e) \subseteq Active /\ \A b \in Before(e) : catalog[b].from < m
  BY <1>1 DEF Before
<1> HIDE DEF n, m, end
<1>8. /\ \A d \in Active : d \in Catalogs /\ d # n
      /\ \A d \in Active : /\ catalog'[d].from = catalog[d].from
                           /\ catalog'[d].to = catalog[d].to \/ (catalog'[d].to = m /\ catalog[d].to > m)
      /\ n \in Active'
  BY <1>2, <1>3, <1>4
\* An old window begins before the new one, or where it ends, or later.
<1>9. ASSUME NEW d \in Active PROVE catalog[d].from < m \/ end <= catalog[d].from
  <2>1. catalog[d].from \in 1 .. LastMoment
    BY <1>2
  <2>2. CASE catalog[d].from < end
    <3>1. PICK b \in Before(e) : catalog[d].from <= catalog[b].from
      BY <1>6, <2>2
    <3>2. catalog[b].from < m /\ catalog[b].from \in 1 .. LastMoment
      BY <1>2, <1>7
    <3> QED
      BY <1>1, <2>1, <3>1, <3>2
  <2> QED
    BY <1>1, <1>5, <2>1, <2>2
\* One that begins before has ended when the new one begins.
<1>10. ASSUME NEW d \in Active, catalog[d].from < m PROVE catalog'[d].to <= m
  <2>1. catalog[d].from \in 1 .. LastMoment /\ catalog[d].from < end
    BY <1>1, <1>2, <1>5, <1>10
  <2>2. PICK b \in Before(e) : catalog[d].from <= catalog[b].from
    BY <1>6, <2>1
  <2>3. Before(e) # {} /\ Before(e) \subseteq Catalogs
    BY <1>2, <1>7, <2>2
  <2>4. PICK l \in Before(e) : \A x \in Before(e) : catalog[x].from <= catalog[l].from
    BY <1>1, <2>3, LastAndFirst
  <2>5. l \in Active /\ l \in LatestFrom(Before(e)) /\ catalog[l].from < m /\ catalog[l].from \in 1 .. LastMoment
    BY <1>2, <1>7, <2>4 DEF LatestFrom
  <2>6. catalog[b].from \in 1 .. LastMoment /\ catalog[b].from <= catalog[l].from
    BY <1>2, <1>7, <2>2, <2>4
  <2>7. CASE d = l
    BY <1>2, <1>3, <1>8, <2>5, <2>7
  <2>8. CASE d # l
    <3>1. catalog[d].from # catalog[l].from
      BY <2>5, <2>8 DEF TimeLine
    <3>2. catalog[d].from < catalog[l].from
      BY <2>1, <2>2, <2>5, <2>6, <3>1
    <3>3. catalog[d].to <= catalog[l].from
      BY <2>5, <3>2 DEF TimeLine
    <3>4. catalog[d].to \in 0 .. Forever
      BY <1>2
    <3>5. catalog[d].to <= m
      BY <1>1, <2>5, <3>3, <3>4
    <3> QED
      BY <1>1, <1>8, <3>5
  <2> QED
    BY <2>7, <2>8
<1>11. ASSUME NEW c \in Active', NEW d \in Active', c # d PROVE catalog'[c].from # catalog'[d].from
  <2>1. \A x \in Active : catalog'[x].from # m
    <3>1. SUFFICES ASSUME NEW x \in Active PROVE catalog[x].from # m
      BY <1>8
    <3>2. catalog[x].from \in 1 .. LastMoment /\ (catalog[x].from < m \/ end <= catalog[x].from)
      BY <1>2, <1>9
    <3> QED
      BY <1>1, <1>5, <3>2
  <2>2. CASE c = n \/ d = n
    BY <1>3, <1>4, <1>11, <2>1, <2>2
  <2>3. CASE c # n /\ d # n
    BY <1>4, <1>8, <1>11, <2>3 DEF TimeLine
  <2> QED
    BY <2>2, <2>3
<1>12. ASSUME NEW c \in Active', NEW d \in Active', catalog'[c].from < catalog'[d].from
       PROVE  catalog'[c].to <= catalog'[d].from
  <2>1. CASE c = n /\ d = n
    BY <1>1, <1>3, <1>12, <2>1
  <2>2. CASE c = n /\ d # n
    <3>1. d \in Active /\ catalog'[d].from = catalog[d].from /\ catalog[d].from \in 1 .. LastMoment
      BY <1>2, <1>4, <1>8, <2>2
    <3>2. catalog[d].from < m \/ end <= catalog[d].from
      BY <1>9, <3>1
    <3>3. m < catalog[d].from
      BY <1>3, <1>12, <2>2, <3>1
    <3> QED
      BY <1>1, <1>3, <2>2, <3>1, <3>2, <3>3
  <2>3. CASE c # n /\ d = n
    BY <1>3, <1>4, <1>8, <1>10, <1>12, <2>3
  <2>4. CASE c # n /\ d # n
    <3>1. c \in Active /\ d \in Active /\ catalog[c].from < catalog[d].from
      BY <1>4, <1>8, <1>12, <2>4
    <3>2. catalog[c].to <= catalog[d].from
      BY <3>1 DEF TimeLine
    <3>3. catalog'[c].to = catalog[c].to \/ (catalog'[c].to = m /\ catalog[c].to > m)
      BY <1>8, <3>1
    <3>4. catalog'[d].from = catalog[d].from /\ catalog[d].from \in 1 .. LastMoment /\ catalog[c].to \in 0 .. Forever
      BY <1>2, <1>8, <3>1
    <3> QED
      BY <1>1, <3>2, <3>3, <3>4
  <2> QED
    BY <2>1, <2>2, <2>3, <2>4
<1>13. ASSUME NEW c \in Active'
       PROVE  catalog'[c].to = Forever \/ \E d \in Active' : catalog'[d].from = catalog'[c].to
  <2>1. CASE c = n
    BY <1>3, <1>4, <1>5, <1>8, <2>1
  <2>2. CASE c # n
    <3>1. c \in Active
      BY <1>4, <2>2
    <3>2. CASE catalog'[c].to = catalog[c].to
      <4>1. catalog[c].to = Forever \/ \E d \in Active : catalog[d].from = catalog[c].to
        BY <3>1 DEF TimeLine
      <4> QED
        BY <1>4, <1>8, <3>2, <4>1
    <3>3. CASE catalog'[c].to = m
      BY <1>3, <1>8, <3>3
    <3> QED
      BY <1>8, <3>1, <3>2, <3>3
  <2> QED
    BY <2>1, <2>2
<1>14. Forever' = Forever
  BY DEF Forever
<1> QED
  BY <1>11, <1>12, <1>13, <1>14 DEF TimeLine

LEMMA ActivationKeeps ==
  ASSUME CatalogInv, NEW e \in Editors, EndActivation(e)
  PROVE  CatalogInv'
<1> DEFINE n == editor[e].id
<1>0. /\ editor[e].at = "activating" /\ editor' = [editor EXCEPT ![e] = NoCall]
      /\ editor \in [Editors -> EditorRows] /\ catalog \in [Catalogs -> CatalogRows] /\ cutTwice \in BOOLEAN
  BY DEF EndActivation, End, CatalogInv, CatalogsTyped
<1>1. n \in Catalogs /\ catalog[n].status = "draft" /\ editor[e].moment \in Moments
  BY <1>0 DEF CatalogInv, EditorWell
<1>2. editor'[e] = NoCall /\ (\A f \in Editors : f # e => editor'[f] = editor[f])
      /\ editor' \in [Editors -> EditorRows]
  BY <1>0, IdleCatalogCall
<1>3. EditorsApart'
  BY <1>2, IdleCatalogCall DEF CatalogInv, EditorsApart
<1>4. EditorWell(e)'
  BY <1>2, IdleCatalogCall DEF EditorWell
<1>5. CASE UNCHANGED <<catalog, cutTwice>>
  <2>1. CatalogsTyped'
    BY <1>0, <1>2, <1>5 DEF CatalogsTyped
  <2>2. Active' = Active /\ Forever' = Forever
    BY <1>5 DEF Active, Forever
  <2>3. (\A c \in Catalogs : CatalogWell(c)') /\ (cutTwice' \/ TimeLine')
    BY <1>5, <2>2 DEF CatalogInv, CatalogWell, TimeLine
  <2>4. ASSUME NEW f \in Editors, f # e PROVE EditorWell(f)'
    BY <1>2, <1>5, <2>2, <2>4 DEF CatalogInv, EditorWell
  <2> QED
    BY <1>3, <1>4, <2>1, <2>3, <2>4 DEF CatalogInv
<1>6. CASE /\ \A c \in editor[e].found : catalog[c].from # editor[e].moment
           /\ ~TwoTails(e) /\ catalog' = Scheduled(e)
           /\ cutTwice' = (cutTwice \/ CutMeanwhile(e))
  <2>1. \A c \in Catalogs :
           /\ catalog'[c] \in CatalogRows
           /\ catalog'[c].price = catalog[c].price
           /\ c = n => /\ catalog'[c].status = "active" /\ catalog'[c].from = editor[e].moment
                       /\ catalog'[c].to = NewEnd(e)
           /\ c # n => /\ catalog'[c].status = catalog[c].status /\ catalog'[c].from = catalog[c].from
                       /\ catalog'[c].to = catalog[c].to \/
                            (catalog'[c].to = editor[e].moment /\ c \in LatestFrom(Before(e)))
    BY <1>0, <1>6, RowsOfSchedule
  <2>2. CatalogsTyped'
    <3>1. catalog' = [c \in Catalogs |-> catalog'[c]]
      BY <1>6 DEF Scheduled
    <3>2. catalog' \in [Catalogs -> CatalogRows]
      BY <2>1, <3>1
    <3>3. cutTwice' \in BOOLEAN
      BY <1>0, <1>6 DEF CutMeanwhile
    <3> QED
      BY <1>2, <3>2, <3>3 DEF CatalogsTyped
  <2>3. Active \subseteq Active'
    BY <1>1, <2>1 DEF Active
  <2>4. ASSUME NEW c \in Catalogs PROVE CatalogWell(c)'
    <3>1. CatalogWell(c) /\ CatalogWell(n)
      BY <1>1 DEF CatalogInv
    <3>2. CASE c = n
      <4>1. editor[e].moment < NewEnd(e)
        BY <1>0, EndOfNew
      <4>2. catalog[n].price \in Prices
        BY <1>1, <3>1 DEF CatalogWell
      <4> QED
        BY <1>1, <2>1, <3>2, <4>1, <4>2 DEF CatalogWell, Moments
    <3>3. CASE c # n
      <4>1. c \in LatestFrom(Before(e)) => catalog[c].from < editor[e].moment
        BY DEF LatestFrom, Before
      <4> QED
        BY <2>1, <3>1, <3>3, <4>1 DEF CatalogWell, Moments
    <3> QED
      BY <3>2, <3>3
  <2>5. ASSUME NEW f \in Editors, f # e PROVE EditorWell(f)'
    <3>1. EditorWell(f) /\ editor'[f] = editor[f] /\ (editor[f].at = "activating" => editor[f].id # n)
      BY <1>0, <1>2, <2>5 DEF CatalogInv, EditorsApart
    <3>2. \A c \in Catalogs : /\ c # n => catalog'[c].status = catalog[c].status
                              /\ catalog[c].status # "none" => catalog'[c].status # "none"
      BY <2>1
    <3> QED
      BY <2>3, <3>1, <3>2 DEF EditorWell
  <2>6. cutTwice' \/ TimeLine'
    <3>1. CASE cutTwice \/ CutMeanwhile(e)
      BY <1>6, <3>1
    <3>2. CASE ~cutTwice /\ ~CutMeanwhile(e)
      <4>1. TimeLine
        BY <3>2 DEF CatalogInv
      <4> QED
        BY <1>0, <1>6, <3>2, <4>1, TimeLineKept
    <3> QED
      BY <3>1, <3>2
  <2> QED
    BY <1>3, <1>4, <2>2, <2>4, <2>5, <2>6 DEF CatalogInv
<1> QED
  BY <1>5, <1>6 DEF EndActivation

LEMMA CatalogKeeps ==
  ASSUME CatalogInv, [CatalogNext]_catalogVars
  PROVE  CatalogInv'
<1>1. CASE UNCHANGED catalogVars
  <2>1. UNCHANGED <<catalog, editor, cutTwice>> /\ Active' = Active
    BY <1>1 DEF catalogVars, Active
  <2>2. CatalogsTyped' /\ EditorsApart' /\ (cutTwice' \/ TimeLine')
    BY <2>1 DEF CatalogInv, CatalogsTyped, EditorsApart, TimeLine
  <2>3. (\A c \in Catalogs : CatalogWell(c)') /\ (\A e \in Editors : EditorWell(e)')
    BY <2>1 DEF CatalogInv, CatalogWell, EditorWell
  <2> QED
    BY <2>2, <2>3 DEF CatalogInv
<1>2. CASE CatalogNext
  BY <1>2, CreateKeeps, BeginKeeps, PriceKeeps, ActivationKeeps DEF CatalogNext
<1> QED
  BY <1>1, <1>2

LEMMA CatalogInvMeans ==
  ASSUME CatalogInv
  PROVE  CatalogTypeOK /\ OneCatalogAtATime
<1>0. LastMoment \in Nat /\ Forever = LastMoment + 1
  BY CatalogAssumption DEF Forever
<1>1. CatalogTypeOK
  <2>1. ASSUME NEW c \in Catalogs
        PROVE  /\ catalog[c].status \in {"none", "draft", "active"}
               /\ catalog[c].status = "active" => catalog[c].from \in Moments
               /\ catalog[c].status = "active" => catalog[c].to \in catalog[c].from + 1 .. Forever
               /\ catalog[c].status # "none" => catalog[c].price \in Prices
    <3>1. catalog[c] \in CatalogRows /\ CatalogWell(c)
      BY DEF CatalogInv, CatalogsTyped
    <3>2. catalog[c].status \in {"none", "draft", "active"} /\ catalog[c].to \in 0 .. Forever
      BY <3>1 DEF CatalogRows
    <3> QED
      BY <1>0, <3>1, <3>2 DEF CatalogWell, Moments
  <2>2. ASSUME NEW e \in Editors PROVE editor[e].at \in {"none", "activating", "pricing"}
    BY DEF CatalogInv, CatalogsTyped, EditorRows
  <2> QED
    BY <2>1, <2>2 DEF CatalogTypeOK
<1>2. ASSUME TimeLine, NEW m \in Moments, NEW b \in Active, catalog[b].from <= m
      PROVE  Cardinality(InForce(m)) = 1
  <2> DEFINE S == {c \in Active : catalog[c].from <= m}
  <2>1. Active \subseteq Catalogs /\ m \in 1 .. LastMoment
        /\ \A d \in Active : /\ catalog[d].from \in 1 .. LastMoment /\ catalog[d].from < catalog[d].to
                             /\ catalog[d].to \in 0 .. Forever
    BY DEF Active, CatalogInv, CatalogsTyped, CatalogWell, Moments, CatalogRows
  <2>2. S \subseteq Catalogs /\ S # {} /\ CatalogsTyped
    BY <1>2, <2>1 DEF CatalogInv
  <2> HIDE DEF S
  <2>3. PICK l \in S : \A d \in S : catalog[d].from <= catalog[l].from
    BY <2>2, LastAndFirst
  <2>4. l \in Active /\ catalog[l].from <= m
    BY DEF S
  <2>5. m < catalog[l].to
    <3>1. SUFFICES ASSUME catalog[l].to <= m PROVE FALSE
      BY <2>1, <2>4
    <3>2. catalog[l].to # Forever
      BY <1>0, <2>1, <3>1
    <3>3. PICK d \in Active : catalog[d].from = catalog[l].to
      BY <1>2, <2>4, <3>2 DEF TimeLine
    <3>4. d \in S
      BY <3>1, <3>3 DEF S
    <3>5. catalog[d].from <= catalog[l].from /\ catalog[l].from < catalog[l].to
      BY <2>1, <2>3, <2>4, <3>4
    <3> QED
      BY <1>0, <2>1, <2>4, <3>3, <3>5
  <2>6. ASSUME NEW d \in Active, catalog[d].from <= m, m < catalog[d].to PROVE d = l
    <3>1. catalog[d].from <= catalog[l].from
      BY <2>3, <2>6 DEF S
    <3>2. CASE catalog[d].from < catalog[l].from
      <4>1. catalog[d].to <= catalog[l].from
        BY <1>2, <2>4, <3>2 DEF TimeLine
      <4> QED
        BY <1>0, <2>1, <2>4, <2>6, <4>1
    <3>3. CASE catalog[d].from = catalog[l].from
      BY <1>2, <2>4, <3>3 DEF TimeLine
    <3> QED
      BY <2>1, <2>4, <3>1, <3>2, <3>3
  <2>7. InForce(m) = {l}
    BY <2>4, <2>5, <2>6 DEF InForce
  <2> QED
    BY <2>7, FS_Singleton
<1>3. OneCatalogAtATime
  BY <1>2 DEF OneCatalogAtATime, CatalogInv
<1> QED
  BY <1>1, <1>3

-----------------------------------------------------------------------------
(* The trial.                                                              *)

TurnRows == [step : TurnSteps, trial : BOOLEAN, policy : 0 .. MaxPolicies,
             made : BOOLEAN, given : BOOLEAN]

TrialTyped ==
  /\ policies \in [1 .. MaxPolicies -> {"none", "on", "off"}]
  /\ current \in 1 .. MaxPolicies
  /\ creditRow \in {"absent", "free"} \union Transactions
  /\ userLock \in Transactions \union {NoTransaction}
  /\ turn \in [Transactions -> TurnRows]
  /\ turns \in 0 .. MaxTurns

\* A transaction has the account to itself: its row is locked, or it is not there yet and
\* the row of the user is.
HasAccount(t) ==
  \/ creditRow = t
  \/ turn[t].made /\ creditRow = "absent" /\ userLock = t

\* What a transaction has read is still so when it writes.
TurnWell(t) ==
  /\ turn[t].step = "asked" \/ turn[t].trial => turn[t].policy \in 1 .. MaxPolicies
  /\ turn[t].step = "user" => userLock = t
  /\ turn[t].step \in {"holding", "granted"} => HasAccount(t)
  /\ turn[t].made => turn[t].step \in {"holding", "granted"} /\ creditRow = "absent" /\ userLock = t
  /\ turn[t].given => turn[t].step = "granted" /\ turn[t].trial /\ grants = {}

GrantedOnce ==
  /\ grants = {} \/ \E p \in 1 .. MaxPolicies : grants = {p}
  /\ buckets = grants
  /\ collided = FALSE

TrialInv == TrialTyped /\ (\A t \in Transactions : TurnWell(t)) /\ GrantedOnce

LEMMA RestingTurn ==
  /\ NoTurn \in TurnRows /\ NoTurn.step = "rest" /\ NoTurn.trial = FALSE
  /\ NoTurn.policy = 0 /\ NoTurn.made = FALSE /\ NoTurn.given = FALSE
BY TrialAssumption DEF NoTurn, TurnRows, TurnSteps

LEMMA TrialStarts ==
  ASSUME TrialInit
  PROVE  TrialInv
<1>1. TrialTyped
  BY RestingTurn, TrialAssumption DEF TrialInit, TrialTyped
<1>2. ASSUME NEW t \in Transactions PROVE TurnWell(t)
  BY RestingTurn DEF TrialInit, TurnWell
<1>3. GrantedOnce
  BY DEF TrialInit, GrantedOnce
<1> QED
  BY <1>1, <1>2, <1>3 DEF TrialInv

\* The step of one transaction.
LEMMA OneTurn ==
  ASSUME TrialInv, NEW t \in Transactions, NEW row \in TurnRows,
         turn' = [turn EXCEPT ![t] = row], UNCHANGED <<policies, current>>,
         creditRow' \in {"absent", "free"} \union Transactions,
         userLock' \in Transactions \union {NoTransaction},
         turns' \in 0 .. MaxTurns,
         TurnWell(t)', GrantedOnce',
         \A u \in Transactions : u # t /\ TurnWell(u) /\ turn'[u] = turn[u] => TurnWell(u)'
  PROVE  TrialInv'
<1>1. TrialTyped'
  BY DEF TrialInv, TrialTyped
<1>2. ASSUME NEW u \in Transactions, u # t PROVE TurnWell(u)'
  <2>1. turn'[u] = turn[u] /\ TurnWell(u)
    BY <1>2 DEF TrialInv, TrialTyped
  <2> QED
    BY <1>2, <2>1
<1> QED
  BY <1>1, <1>2 DEF TrialInv

LEMMA ReadTurnKeeps ==
  ASSUME TrialInv, NEW t \in Transactions,
         BeginTurn(t) \/ LookForGrant(t) \/ GiveTrial(t)
  PROVE  TrialInv'
<1>0. turn \in [Transactions -> TurnRows] /\ turn[t] \in TurnRows /\ TurnWell(t) /\ current \in 1 .. MaxPolicies
      /\ turns \in 0 .. MaxTurns /\ GrantedOnce
      /\ creditRow \in {"absent", "free"} \union Transactions
      /\ userLock \in Transactions \union {NoTransaction}
  BY DEF TrialInv, TrialTyped
<1>1. UNCHANGED <<policies, current, creditRow, userLock, grants, buckets, collided>>
  BY DEF BeginTurn, LookForGrant, GiveTrial, rows
<1>2. turns' \in 0 .. MaxTurns
  BY <1>0, TrialAssumption DEF BeginTurn, LookForGrant, GiveTrial
<1>3. \A u \in Transactions : u # t /\ TurnWell(u) /\ turn'[u] = turn[u] => TurnWell(u)'
  BY <1>1 DEF TurnWell, HasAccount
<1>4. GrantedOnce'
  BY <1>0, <1>1 DEF GrantedOnce
<1>5. CASE BeginTurn(t)
  <2>1. turn[t] = NoTurn
    BY <1>5 DEF BeginTurn
  <2>2. PICK row : /\ turn' = [turn EXCEPT ![t] = row]
                   /\ row = [turn[t] EXCEPT !.step = "looking"] \/ row = [turn[t] EXCEPT !.step = "asked", !.policy = current]
    BY <1>5 DEF BeginTurn
  <2>3. row \in TurnRows /\ row.step \in {"looking", "asked"} /\ row.made = FALSE /\ row.given = FALSE
        /\ row.trial = FALSE /\ (row.step = "asked" => row.policy \in 1 .. MaxPolicies)
    <3>1. turn[t] \in TurnRows /\ turn[t].made = FALSE /\ turn[t].given = FALSE /\ turn[t].trial = FALSE
          /\ current \in 0 .. MaxPolicies
      BY <1>0, <2>1, RestingTurn
    <3>2. CASE row = [turn[t] EXCEPT !.step = "looking"]
      BY <3>1, <3>2 DEF TurnRows, TurnSteps
    <3>3. CASE row = [turn[t] EXCEPT !.step = "asked", !.policy = current]
      BY <1>0, <3>1, <3>3 DEF TurnRows, TurnSteps
    <3> QED
      BY <2>2, <3>2, <3>3
  <2>4. turn'[t] = row
    BY <1>0, <2>2
  <2>5. TurnWell(t)'
    BY <2>3, <2>4 DEF TurnWell
  <2> QED
    BY <1>0, <1>1, <1>2, <1>3, <1>4, <2>2, <2>3, <2>5, OneTurn
<1>6. CASE LookForGrant(t)
  <2> DEFINE trial == policies[turn[t].policy] = "on" /\ ~Granted
             row == [turn[t] EXCEPT !.step = "looking", !.trial = trial]
  <2>1. turn[t].step = "asked" /\ turn' = [turn EXCEPT ![t] = row]
    BY <1>0, <1>6 DEF LookForGrant
  <2>2. trial \in BOOLEAN
    OBVIOUS
  <2> HIDE DEF trial
  <2>3. row \in TurnRows /\ row.step = "looking" /\ row.made = turn[t].made /\ row.given = turn[t].given
        /\ row.policy = turn[t].policy
    BY <1>0, <2>2 DEF TurnRows, TurnSteps
  <2> HIDE DEF row
  <2>4. turn'[t] = row
    BY <1>0, <2>1
  <2>5. TurnWell(t)'
    BY <1>0, <2>1, <2>3, <2>4 DEF TurnWell
  <2> QED
    BY <1>0, <1>1, <1>2, <1>3, <1>4, <2>1, <2>3, <2>5, OneTurn
<1>7. CASE GiveTrial(t)
  <2> DEFINE gives == turn[t].trial /\ ~Granted
             row == [turn[t] EXCEPT !.step = "granted", !.given = gives]
  <2>1. turn[t].step = "holding" /\ turn' = [turn EXCEPT ![t] = row]
    BY <1>0, <1>7 DEF GiveTrial
  <2>2. gives \in BOOLEAN /\ (gives => turn[t].trial /\ grants = {})
    BY <1>0 DEF Granted, TurnRows
  <2> HIDE DEF gives
  <2>3. row \in TurnRows /\ row.step = "granted" /\ row.made = turn[t].made /\ row.given = gives
        /\ row.policy = turn[t].policy /\ row.trial = turn[t].trial
    BY <1>0, <2>2 DEF TurnRows, TurnSteps
  <2> HIDE DEF row
  <2>4. turn'[t] = row
    BY <1>0, <2>1
  <2>5. TurnWell(t)'
    BY <1>0, <1>1, <2>1, <2>2, <2>3, <2>4 DEF TurnWell, HasAccount
  <2> QED
    BY <1>0, <1>1, <1>2, <1>3, <1>4, <2>1, <2>3, <2>5, OneTurn
<1> QED
  BY <1>5, <1>6, <1>7

LEMMA LockKeeps ==
  ASSUME TrialInv, NEW t \in Transactions,
         FindAccount(t) \/ LockUser(t) \/ FindOrCreate(t)
  PROVE  TrialInv'
<1>0. turn \in [Transactions -> TurnRows] /\ turn[t] \in TurnRows /\ TurnWell(t)
      /\ turns \in 0 .. MaxTurns /\ GrantedOnce
      /\ creditRow \in {"absent", "free"} \union Transactions
      /\ userLock \in Transactions \union {NoTransaction}
  BY DEF TrialInv, TrialTyped
<1>1. UNCHANGED <<policies, current, grants, buckets, turns, collided>>
  BY DEF FindAccount, LockUser, FindOrCreate
<1>2. GrantedOnce'
  BY <1>0, <1>1 DEF GrantedOnce
<1>3. turn[t].step \in {"looking", "unseen", "user"}
  BY DEF FindAccount, LockUser, FindOrCreate
<1>4. /\ creditRow' = creditRow \/ (creditRow = "free" /\ creditRow' = t)
      /\ userLock' = userLock \/ (userLock = NoTransaction /\ userLock' = t)
  <2>1. CASE FindAccount(t)
    BY <2>1 DEF FindAccount
  <2>2. CASE LockUser(t)
    BY <2>2 DEF LockUser, UserFree
  <2>3. CASE FindOrCreate(t)
    BY <2>3 DEF FindOrCreate
  <2> QED
    BY <2>1, <2>2, <2>3
<1>5. \A u \in Transactions : u # t /\ TurnWell(u) /\ turn'[u] = turn[u] => TurnWell(u)'
  <2>1. ASSUME NEW u \in Transactions, u # t, TurnWell(u), turn'[u] = turn[u] PROVE TurnWell(u)'
    <3>1. HasAccount(u) => HasAccount(u)'
      BY <1>4, <2>1, TrialAssumption DEF HasAccount
    <3>2. userLock = u => userLock' = u
      BY <1>4, TrialAssumption
    <3>3. creditRow = "absent" => creditRow' = "absent"
      BY <1>4
    <3> QED
      BY <1>1, <2>1, <3>1, <3>2, <3>3 DEF TurnWell
  <2> QED
    BY <2>1
<1>6. PICK row \in TurnRows :
        /\ turn' = [turn EXCEPT ![t] = row]
        /\ row.trial = turn[t].trial /\ row.policy = turn[t].policy /\ row.given = turn[t].given
        /\ \/ row.step = "holding" /\ creditRow' = t /\ row.made = turn[t].made
           \/ row.step = "unseen" /\ row.made = turn[t].made
           \/ row.step = "user" /\ userLock' = t /\ row.made = turn[t].made
           \/ row.step = "holding" /\ row.made = TRUE /\ turn[t].step = "user" /\ creditRow' = "absent" /\ userLock' = userLock
  <2> DEFINE still(step) == [turn[t] EXCEPT !.step = step]
             created == [turn[t] EXCEPT !.step = "holding", !.made = TRUE]
  <2>1. \A step \in TurnSteps : /\ still(step) \in TurnRows /\ still(step).step = step /\ still(step).made = turn[t].made
                               /\ still(step).trial = turn[t].trial /\ still(step).policy = turn[t].policy
                               /\ still(step).given = turn[t].given
    BY <1>0 DEF TurnRows
  <2>2. /\ created \in TurnRows /\ created.step = "holding" /\ created.made = TRUE
        /\ created.trial = turn[t].trial /\ created.policy = turn[t].policy
        /\ created.given = turn[t].given
    BY <1>0 DEF TurnRows, TurnSteps
  <2>3. \/ turn' = [turn EXCEPT ![t] = still("holding")] /\ creditRow' = t
        \/ turn' = [turn EXCEPT ![t] = still("unseen")]
        \/ turn' = [turn EXCEPT ![t] = still("user")] /\ userLock' = t
        \/ turn' = [turn EXCEPT ![t] = created] /\ turn[t].step = "user" /\ creditRow' = "absent" /\ userLock' = userLock
    BY <1>0 DEF FindAccount, LockUser, FindOrCreate, Step
  <2> HIDE DEF still, created
  <2> QED
    BY <2>1, <2>2, <2>3 DEF TurnSteps
<1>7. turn'[t] = row
  BY <1>0, <1>6
<1>8. ~turn[t].made /\ ~turn[t].given
  BY <1>0, <1>3 DEF TurnWell
<1>9. TurnWell(t)'
  BY <1>0, <1>3, <1>6, <1>7, <1>8 DEF TurnWell, HasAccount
<1> QED
  BY <1>0, <1>1, <1>2, <1>4, <1>5, <1>6, <1>9, OneTurn

\* A transaction that leaves frees its locks, and no other has them.
LEMMA LeaveKeeps ==
  ASSUME TrialInv, NEW t \in Transactions, EndTurn(t) \/ AbandonTurn(t)
  PROVE  TrialInv'
<1>0. turn \in [Transactions -> TurnRows] /\ turn[t] \in TurnRows /\ TurnWell(t)
      /\ turns \in 0 .. MaxTurns /\ GrantedOnce
      /\ creditRow \in {"absent", "free"} \union Transactions
      /\ userLock \in Transactions \union {NoTransaction}
  BY DEF TrialInv, TrialTyped
<1>1. turn' = [turn EXCEPT ![t] = NoTurn] /\ UNCHANGED <<policies, current, turns>>
      /\ userLock' = IF userLock = t THEN NoTransaction ELSE userLock
  BY DEF EndTurn, AbandonTurn, Leaving
<1>2. CASE EndTurn(t)
  <2>1. turn[t].step = "granted" /\ HasAccount(t)
    BY <1>0, <1>2 DEF EndTurn, TurnWell
  <2>2. ~Collides(t)
    BY <1>0 DEF Collides, TurnWell, Granted
  <2>3. /\ creditRow' = "free" /\ collided' = collided
        /\ grants' = IF turn[t].given THEN grants \union {turn[t].policy} ELSE grants
        /\ buckets' = IF turn[t].given THEN buckets \union {turn[t].policy} ELSE buckets
    BY <1>2, <2>2 DEF EndTurn
  <2>4. GrantedOnce'
    <3>1. CASE turn[t].given
      <4>1. grants = {} /\ turn[t].policy \in 1 .. MaxPolicies /\ buckets = {}
        BY <1>0, <3>1 DEF TurnWell, GrantedOnce
      <4>2. grants' = {turn[t].policy} /\ buckets' = grants'
        BY <2>3, <3>1, <4>1
      <4> QED
        BY <1>0, <2>3, <4>1, <4>2 DEF GrantedOnce
    <3>2. CASE ~turn[t].given
      BY <1>0, <2>3, <3>2 DEF GrantedOnce
    <3> QED
      BY <3>1, <3>2
  <2>5. \A u \in Transactions : u # t /\ TurnWell(u) /\ turn'[u] = turn[u] => TurnWell(u)'
    <3>1. ASSUME NEW u \in Transactions, u # t, TurnWell(u), turn'[u] = turn[u] PROVE TurnWell(u)'
      <4>1. ~HasAccount(u)
        BY <2>1, <3>1, TrialAssumption DEF HasAccount
      <4>2. ~turn[u].made /\ ~turn[u].given /\ turn[u].step \notin {"holding", "granted"}
        BY <3>1, <4>1 DEF TurnWell
      <4>3. userLock = u => userLock' = u
        BY <1>1, <3>1
      <4> QED
        BY <3>1, <4>2, <4>3 DEF TurnWell
    <3> QED
      BY <3>1
  <2>6. TurnWell(t)' /\ NoTurn \in TurnRows
    BY <1>0, <1>1, RestingTurn DEF TurnWell
  <2> QED
    BY <1>0, <1>1, <2>3, <2>4, <2>5, <2>6, OneTurn
<1>3. CASE AbandonTurn(t)
  <2>1. creditRow' = (IF creditRow = t THEN "free" ELSE creditRow) /\ UNCHANGED <<grants, buckets, collided>>
    BY <1>3 DEF AbandonTurn
  <2>2. GrantedOnce'
    BY <1>0, <2>1 DEF GrantedOnce
  <2>3. \A u \in Transactions : u # t /\ TurnWell(u) /\ turn'[u] = turn[u] => TurnWell(u)'
    <3>1. ASSUME NEW u \in Transactions, u # t, TurnWell(u), turn'[u] = turn[u] PROVE TurnWell(u)'
      <4>1. userLock = u => userLock' = u
        BY <1>1, <3>1
      <4>2. creditRow = "absent" => creditRow' = "absent"
        BY <2>1, TrialAssumption
      <4>3. HasAccount(u) => HasAccount(u)'
        BY <2>1, <3>1, <4>1, <4>2 DEF HasAccount
      <4> QED
        BY <2>1, <3>1, <4>1, <4>2, <4>3 DEF TurnWell
    <3> QED
      BY <3>1
  <2>4. TurnWell(t)' /\ NoTurn \in TurnRows
    BY <1>0, <1>1, RestingTurn DEF TurnWell
  <2>5. creditRow' \in {"absent", "free"} \union Transactions /\ userLock' \in Transactions \union {NoTransaction}
    BY <1>0, <1>1, <2>1
  <2> QED
    BY <1>0, <1>1, <2>2, <2>3, <2>4, <2>5, OneTurn
<1> QED
  BY <1>2, <1>3

LEMMA PolicyKeeps ==
  ASSUME TrialInv, NEW p \in 1 .. MaxPolicies,
         PolicyBegins(p) \/ \E state \in {"on", "off"} : PublishPolicy(p, state)
  PROVE  TrialInv'
<1>1. UNCHANGED <<creditRow, userLock, grants, buckets, turn, turns, collided>>
  BY DEF PolicyBegins, PublishPolicy, rows
<1>2. current' \in 1 .. MaxPolicies /\ policies' \in [1 .. MaxPolicies -> {"none", "on", "off"}]
  BY DEF TrialInv, TrialTyped, PolicyBegins, PublishPolicy
<1>3. TrialTyped' /\ GrantedOnce'
  BY <1>1, <1>2 DEF TrialInv, TrialTyped, GrantedOnce
<1>4. ASSUME NEW t \in Transactions PROVE TurnWell(t)'
  BY <1>1 DEF TrialInv, TurnWell, HasAccount
<1> QED
  BY <1>3, <1>4 DEF TrialInv

LEMMA TrialKeeps ==
  ASSUME TrialInv, [TrialNext]_trialVars
  PROVE  TrialInv'
<1>1. CASE UNCHANGED trialVars
  <2>1. TrialTyped' /\ GrantedOnce'
    BY <1>1 DEF TrialInv, TrialTyped, GrantedOnce, trialVars
  <2>2. ASSUME NEW t \in Transactions PROVE TurnWell(t)'
    BY <1>1 DEF TrialInv, TurnWell, HasAccount, trialVars
  <2> QED
    BY <2>1, <2>2 DEF TrialInv
<1>2. CASE TrialNext
  BY <1>2, ReadTurnKeeps, LockKeeps, LeaveKeeps, PolicyKeeps DEF TrialNext
<1> QED
  BY <1>1, <1>2

LEMMA TrialInvMeans ==
  ASSUME TrialInv
  PROVE  TrialTypeOK /\ TrialOnce
<1>1. TrialTyped /\ GrantedOnce
  BY DEF TrialInv
<1>2. \A t \in Transactions : turn[t].step \in TurnSteps
  BY <1>1 DEF TrialTyped, TurnRows
<1>3. current \in 0 .. MaxPolicies /\ grants \subseteq 1 .. MaxPolicies /\ buckets \subseteq 1 .. MaxPolicies
  BY <1>1 DEF TrialTyped, GrantedOnce
<1>4. TrialTypeOK
  BY <1>1, <1>2, <1>3 DEF TrialTyped, GrantedOnce, TrialTypeOK
<1>5. Cardinality(grants) <= 1
  <2>1. CASE grants = {}
    BY <2>1, FS_EmptySet
  <2>2. ASSUME NEW p \in 1 .. MaxPolicies, grants = {p} PROVE Cardinality(grants) <= 1
    <3>1. Cardinality(grants) = 1
      BY <2>2, FS_Singleton
    <3> QED
      BY <3>1
  <2> QED
    BY <1>1, <2>1, <2>2 DEF GrantedOnce
<1> QED
  BY <1>1, <1>4, <1>5 DEF GrantedOnce, TrialOnce

-----------------------------------------------------------------------------
(* Adjustments of credits.                                                 *)

AdjustmentRows == [by : Deciders, key : Keys, amount : Amounts, dual : BOOLEAN,
                   status : {"pending", "executed", "rejected"}, decider : Deciders \union {"none"}]
CommandRows == [actor : Deciders, type : Decisions \union {"request"}, id : 0 .. MaxAdjustments, key : Keys]
CallRows == [at : {"none", "started", "found"}, actor : Deciders \union {"none"},
             type : Decisions \union {"request", "none"}, id : 0 .. MaxAdjustments,
             key : Keys \union {"none"}, amount : Amounts \union {0}]

AdjustmentsTyped ==
  /\ adjustment \in Seq(AdjustmentRows) /\ Len(adjustment) <= MaxAdjustments
  /\ command \subseteq CommandRows
  /\ balance \in 0 .. MaxBalance
  /\ call \in [Calls -> CallRows]

\* A call in progress has a key that was not used yet; one that has found its adjustment
\* has found it decidable, and it still is.
CallWell(c) ==
  /\ call[c].at # "none" =>
       /\ call[c].actor \in Deciders /\ call[c].key \in Keys
       /\ ~Known(call[c].actor, call[c].type, call[c].id, call[c].key)
       /\ \/ call[c].type = "request" /\ call[c].id = 0 /\ call[c].amount \in Amounts
          \/ call[c].type \in Decisions /\ call[c].id \in DOMAIN adjustment
  /\ call[c].at = "found" => call[c].type \in Decisions /\ Decidable(call[c].actor, call[c].id)

\* The locks of actors and of adjustments.
CallsApart ==
  \A c, d \in Calls : c # d =>
    /\ call[c].at # "none" /\ call[d].at # "none" => call[c].actor # call[d].actor
    /\ call[c].at = "found" /\ call[d].at = "found" => call[c].id # call[d].id

\* What decided an adjustment is one command, and who decided is not who requested.
DecisionOn(i) ==
  CASE adjustment[i].status = "executed" /\ adjustment[i].dual -> {"approve"}
    [] adjustment[i].status = "rejected" -> {"reject"}
    [] OTHER -> {}
AdjustmentWell(i) ==
  /\ Known(adjustment[i].by, "request", 0, adjustment[i].key)
  /\ adjustment[i].status = "pending" => adjustment[i].dual
  /\ adjustment[i].status # "pending" /\ adjustment[i].dual =>
       adjustment[i].decider \in Deciders \ {adjustment[i].by}
  /\ \A type \in Decisions :
       IF type \in DecisionOn(i) THEN \E c : DecidedBy(i, type) = {c} ELSE DecidedBy(i, type) = {}

RequestsOnce ==
  /\ \A i, k \in DOMAIN adjustment :
       adjustment[i].by = adjustment[k].by /\ adjustment[i].key = adjustment[k].key => i = k
  /\ \A c \in command : c.type \in Decisions => c.id \in DOMAIN adjustment
  /\ posted = {i \in DOMAIN adjustment : adjustment[i].status = "executed"}

AdjustmentInv ==
  /\ AdjustmentsTyped /\ (\A c \in Calls : CallWell(c)) /\ CallsApart
  /\ (\A i \in DOMAIN adjustment : AdjustmentWell(i)) /\ RequestsOnce

LEMMA IdleAdjustmentCall ==
  /\ NotCalled \in CallRows /\ NotCalled.at = "none"
BY AdjustmentAssumption DEF NotCalled, CallRows

LEMMA AdjustmentStarts ==
  ASSUME AdjustmentInit
  PROVE  AdjustmentInv
<1>1. adjustment \in Seq(AdjustmentRows) /\ Len(adjustment) = 0 /\ DOMAIN adjustment = {}
  BY DEF AdjustmentInit
<1>2. AdjustmentsTyped
  BY <1>1, IdleAdjustmentCall, AdjustmentAssumption DEF AdjustmentInit, AdjustmentsTyped
<1>3. (\A c \in Calls : CallWell(c)) /\ CallsApart
  BY IdleAdjustmentCall DEF AdjustmentInit, CallWell, CallsApart
<1>4. RequestsOnce
  BY <1>1 DEF AdjustmentInit, RequestsOnce
<1> QED
  BY <1>1, <1>2, <1>3, <1>4 DEF AdjustmentInv

\* The step of a call that commits nothing.
LEMMA OneCalls ==
  ASSUME AdjustmentInv, NEW c \in Calls, NEW row \in CallRows,
         call' = [call EXCEPT ![c] = row], UNCHANGED <<adjustment, command, posted, balance>>,
         row.at # "none" => \A d \in Calls \ {c} : call[d].at # "none" => call[d].actor # row.actor,
         row.at = "found" => \A d \in Calls \ {c} : call[d].at = "found" => call[d].id # row.id,
         CallWell(c)'
  PROVE  AdjustmentInv'
<1>1. AdjustmentsTyped /\ CallsApart /\ call'[c] = row /\ \A d \in Calls \ {c} : call'[d] = call[d]
  BY DEF AdjustmentInv, AdjustmentsTyped
<1>2. AdjustmentsTyped'
  BY <1>1 DEF AdjustmentsTyped
<1>3. ASSUME NEW d \in Calls, d # c PROVE CallWell(d)'
  <2>1. CallWell(d) /\ call'[d] = call[d]
    BY <1>1, <1>3 DEF AdjustmentInv
  <2> QED
    BY <2>1 DEF CallWell, Known, Decidable
<1>4. CallsApart'
  BY <1>1 DEF CallsApart
<1>5. ASSUME NEW i \in DOMAIN adjustment' PROVE AdjustmentWell(i)'
  <2>1. AdjustmentWell(i) /\ DOMAIN adjustment' = DOMAIN adjustment
    BY DEF AdjustmentInv
  <2>2. DecisionOn(i)' = DecisionOn(i) /\ \A type : DecidedBy(i, type)' = DecidedBy(i, type)
    BY DEF DecisionOn, DecidedBy
  <2>3. \A a, type, j, k : Known(a, type, j, k)' = Known(a, type, j, k)
    BY DEF Known
  <2> QED
    BY <2>1, <2>2, <2>3 DEF AdjustmentWell
<1>6. RequestsOnce'
  BY DEF AdjustmentInv, RequestsOnce
<1> QED
  BY <1>2, <1>3, <1>4, <1>5, <1>6 DEF AdjustmentInv

LEMMA StartKeeps ==
  ASSUME AdjustmentInv, NEW c \in Calls, NEW a \in Deciders, NEW type \in Decisions \union {"request"},
         NEW id \in 0 .. MaxAdjustments, NEW k \in Keys, NEW amount \in Amounts \union {0},
         Start(c, a, type, id, k, amount),
         \/ type = "request" /\ id = 0 /\ amount \in Amounts
         \/ type \in Decisions /\ id \in DOMAIN adjustment
  PROVE  AdjustmentInv'
<1> DEFINE row == [at |-> "started", actor |-> a, type |-> type, id |-> id, key |-> k, amount |-> amount]
<1>1. /\ call[c].at = "none" /\ ActorFree(a) /\ ~Known(a, type, id, k)
      /\ call' = [call EXCEPT ![c] = row] /\ UNCHANGED <<adjustment, command, posted, balance>>
  BY DEF Start
<1>2. /\ row \in CallRows /\ row.at = "started" /\ row.actor = a /\ row.type = type /\ row.id = id
      /\ row.key = k /\ row.amount = amount
  BY DEF CallRows
<1> HIDE DEF row
<1>3. call'[c] = row
  BY <1>1 DEF AdjustmentInv, AdjustmentsTyped
<1>4. CallWell(c)'
  BY <1>1, <1>2, <1>3 DEF CallWell, Known
<1>5. \A d \in Calls \ {c} : call[d].at # "none" => call[d].actor # row.actor
  BY <1>1, <1>2 DEF ActorFree
<1> QED
  BY <1>1, <1>2, <1>4, <1>5, OneCalls

LEMMA FindKeeps ==
  ASSUME AdjustmentInv, NEW c \in Calls, Find(c)
  PROVE  AdjustmentInv'
<1>0. call[c] \in CallRows /\ CallWell(c) /\ CallsApart /\ call \in [Calls -> CallRows]
  BY DEF AdjustmentInv, AdjustmentsTyped
<1>1. CASE ~Decidable(call[c].actor, call[c].id)
  <2>1. call' = [call EXCEPT ![c] = NotCalled] /\ UNCHANGED <<adjustment, command, posted, balance>>
    BY <1>1 DEF Find, Ended
  <2>2. CallWell(c)'
    BY <1>0, <2>1, IdleAdjustmentCall DEF CallWell
  <2> QED
    BY <2>1, <2>2, IdleAdjustmentCall, OneCalls
<1>2. CASE Decidable(call[c].actor, call[c].id)
  <2> DEFINE row == [call[c] EXCEPT !.at = "found"]
  <2>1. /\ call[c].at = "started" /\ call[c].type \in Decisions /\ RowFree(call[c].id)
        /\ call' = [call EXCEPT ![c] = row] /\ UNCHANGED <<adjustment, command, posted, balance>>
    BY <1>2 DEF Find
  <2>2. /\ row \in CallRows /\ row.at = "found" /\ row.actor = call[c].actor /\ row.type = call[c].type
        /\ row.id = call[c].id /\ row.key = call[c].key /\ row.amount = call[c].amount
    BY <1>0 DEF CallRows
  <2> HIDE DEF row
  <2>3. call'[c] = row
    BY <1>0, <2>1
  <2>4. CallWell(c)'
    BY <1>0, <1>2, <2>1, <2>2, <2>3 DEF CallWell, Known, Decidable
  <2>5. \A d \in Calls \ {c} : call[d].at # "none" => call[d].actor # row.actor
    BY <1>0, <2>1, <2>2 DEF CallsApart
  <2>6. \A d \in Calls \ {c} : call[d].at = "found" => call[d].id # row.id
    BY <2>1, <2>2 DEF RowFree
  <2> QED
    BY <2>1, <2>2, <2>4, <2>5, <2>6, OneCalls
<1> QED
  BY <1>1, <1>2

LEMMA RollBackKeeps ==
  ASSUME AdjustmentInv, NEW c \in Calls, RollBack(c)
  PROVE  AdjustmentInv'
<1>1. call' = [call EXCEPT ![c] = NotCalled] /\ UNCHANGED <<adjustment, command, posted, balance>>
  BY DEF RollBack, Ended
<1>2. CallWell(c)'
  BY <1>1, IdleAdjustmentCall DEF CallWell, AdjustmentInv, AdjustmentsTyped
<1> QED
  BY <1>1, <1>2, IdleAdjustmentCall, OneCalls

\* Nothing is said of the balance but its type.
LEMMA BalanceIsApart ==
  ASSUME AdjustmentInv, balance' \in 0 .. MaxBalance, UNCHANGED <<adjustment, command, posted, call>>
  PROVE  AdjustmentInv'
<1>1. AdjustmentsTyped'
  BY DEF AdjustmentInv, AdjustmentsTyped
<1>2. ASSUME NEW c \in Calls PROVE CallWell(c)'
  <2>1. CallWell(c)
    BY DEF AdjustmentInv
  <2> QED
    BY <2>1 DEF CallWell, Known, Decidable
<1>3. CallsApart'
  BY DEF AdjustmentInv, CallsApart
<1>4. ASSUME NEW i \in DOMAIN adjustment' PROVE AdjustmentWell(i)'
  <2>1. AdjustmentWell(i)
    BY DEF AdjustmentInv
  <2>2. DecisionOn(i)' = DecisionOn(i) /\ \A type : DecidedBy(i, type)' = DecidedBy(i, type)
    BY DEF DecisionOn, DecidedBy
  <2>3. \A a, type, j, k : Known(a, type, j, k)' = Known(a, type, j, k)
    BY DEF Known
  <2> QED
    BY <2>1, <2>2, <2>3 DEF AdjustmentWell
<1>5. RequestsOnce'
  BY DEF AdjustmentInv, RequestsOnce
<1> QED
  BY <1>1, <1>2, <1>3, <1>4, <1>5 DEF AdjustmentInv

LEMMA SpendKeeps ==
  ASSUME AdjustmentInv, Spend
  PROVE  AdjustmentInv'
<1>1. balance' \in 0 .. MaxBalance /\ UNCHANGED <<adjustment, command, posted, call>>
  BY AdjustmentAssumption DEF AdjustmentInv, AdjustmentsTyped, Spend
<1> QED
  BY <1>1, BalanceIsApart

\* A commit adds the command of its call; the others have other actors, and what they have
\* found is left alone.
LEMMA CommitsApart ==
  ASSUME AdjustmentInv, NEW c \in Calls, call[c].at # "none", Complete(c), Ended(c),
         DOMAIN adjustment \subseteq DOMAIN adjustment',
         \A d \in Calls \ {c} : call[d].at = "found" => adjustment'[call[d].id] = adjustment[call[d].id]
  PROVE  /\ (\A d \in Calls : CallWell(d)') /\ CallsApart' /\ call' \in [Calls -> CallRows]
         /\ command' \subseteq CommandRows
         /\ \E new \in CommandRows :
              /\ new = [actor |-> call[c].actor, type |-> call[c].type, id |-> call[c].id, key |-> call[c].key]
              /\ command' = command \union {new} /\ new \notin command
<1> DEFINE new == [actor |-> call[c].actor, type |-> call[c].type, id |-> call[c].id, key |-> call[c].key]
<1>0. AdjustmentsTyped /\ CallWell(c) /\ CallsApart /\ call[c] \in CallRows
  BY DEF AdjustmentInv, AdjustmentsTyped
<1>1. command' = command \union {new} /\ call' = [call EXCEPT ![c] = NotCalled]
  BY DEF Complete, Ended
<1>2. new \in CommandRows /\ new \notin command /\ new.actor = call[c].actor
  BY <1>0 DEF CommandRows, CallRows, CallWell, Known, Decisions
<1>3. call' \in [Calls -> CallRows] /\ call'[c] = NotCalled /\ \A d \in Calls \ {c} : call'[d] = call[d]
  BY <1>0, <1>1, IdleAdjustmentCall DEF AdjustmentsTyped
<1>4. CallWell(c)'
  BY <1>3, IdleAdjustmentCall DEF CallWell
<1>5. ASSUME NEW d \in Calls, d # c PROVE CallWell(d)'
  <2>1. CallWell(d) /\ call'[d] = call[d]
    BY <1>3, <1>5 DEF AdjustmentInv
  <2>2. call[d].at # "none" => call[d].actor # new.actor
    BY <1>0, <1>2, <1>5 DEF CallsApart
  <2>3. call[d].at # "none" => ~Known(call[d].actor, call[d].type, call[d].id, call[d].key)'
    <3> SUFFICES ASSUME call[d].at # "none"
                 PROVE  [actor |-> call[d].actor, type |-> call[d].type, id |-> call[d].id,
                         key |-> call[d].key] \notin command'
      BY <2>1 DEF Known
    <3> DEFINE other == [actor |-> call[d].actor, type |-> call[d].type, id |-> call[d].id,
                         key |-> call[d].key]
    <3>1. other \notin command /\ other.actor = call[d].actor
      BY <2>1 DEF CallWell, Known
    <3> HIDE DEF other, new
    <3>2. other # new
      BY <2>2, <3>1
    <3> QED
      BY <1>1, <3>1, <3>2 DEF other
  <2>4. call[d].at = "found" => Decidable(call[d].actor, call[d].id)'
    BY <1>5, <2>1 DEF CallWell, Decidable
  <2> QED
    BY <2>1, <2>3, <2>4 DEF CallWell
<1>6. CallsApart'
  BY <1>0, <1>3, IdleAdjustmentCall DEF CallsApart
<1> QED
  BY <1>0, <1>1, <1>2, <1>3, <1>4, <1>5, <1>6 DEF AdjustmentsTyped

\* The balance after an entry that is made once.
LEMMA ApplyKeeps ==
  ASSUME AdjustmentInv, NEW i, NEW amount \in Amounts, Applicable(amount), Apply(i, amount)
  PROVE  balance' \in 0 .. MaxBalance /\ posted' = posted \union {i}
<1>1. amount \in Int /\ balance \in 0 .. MaxBalance /\ MaxBalance \in Nat
  BY AdjustmentAssumption DEF AdjustmentInv, AdjustmentsTyped
<1> QED
  BY <1>1 DEF Apply, Applicable

LEMMA RequestAdjustmentKeeps ==
  ASSUME AdjustmentInv, NEW c \in Calls, Request(c)
  PROVE  AdjustmentInv'
<1> DEFINE r == call[c]
           n == Len(adjustment) + 1
           dual == Magnitude(r.amount) >= Threshold
           row == [by |-> r.actor, key |-> r.key, amount |-> r.amount, dual |-> dual,
                   status |-> IF dual THEN "pending" ELSE "executed", decider |-> "none"]
<1>0. AdjustmentsTyped /\ CallWell(c) /\ CallsApart /\ RequestsOnce
      /\ \A i \in DOMAIN adjustment : AdjustmentWell(i)
  BY DEF AdjustmentInv
<1>1. /\ r.at = "started" /\ r.type = "request" /\ n <= MaxAdjustments
      /\ dual \/ Applicable(r.amount)
      /\ adjustment' = Append(adjustment, row)
      /\ IF dual THEN UNCHANGED <<posted, balance>> ELSE Apply(n, r.amount)
      /\ Complete(c) /\ Ended(c)
  BY DEF Request
<1>2. /\ adjustment \in Seq(AdjustmentRows) /\ Len(adjustment) \in Nat /\ MaxAdjustments \in Nat
      /\ r.actor \in Deciders /\ r.key \in Keys /\ r.amount \in Amounts /\ r.id = 0
      /\ ~Known(r.actor, "request", 0, r.key)
  BY <1>0, <1>1, AdjustmentAssumption DEF AdjustmentsTyped, CallWell, Decisions
<1>3. row \in AdjustmentRows /\ row.by = r.actor /\ row.key = r.key /\ row.dual = dual
      /\ row.status = IF dual THEN "pending" ELSE "executed"
  <2>1. dual \in BOOLEAN
    OBVIOUS
  <2> HIDE DEF dual, r
  <2> QED
    BY <1>2, <2>1 DEF AdjustmentRows
<1>4. balance' \in 0 .. MaxBalance /\ posted' = IF dual THEN posted ELSE posted \union {n}
  <2>1. CASE dual
    BY <1>0, <1>1, <2>1 DEF AdjustmentsTyped
  <2>2. CASE ~dual
    BY <1>1, <1>2, <2>2, ApplyKeeps
  <2> QED
    BY <2>1, <2>2
<1> HIDE DEF row, dual
<1>5. /\ adjustment' \in Seq(AdjustmentRows) /\ Len(adjustment') = n
      /\ DOMAIN adjustment' = DOMAIN adjustment \union {n} /\ n \notin DOMAIN adjustment
      /\ adjustment'[n] = row /\ \A i \in DOMAIN adjustment : adjustment'[i] = adjustment[i]
  BY <1>1, <1>2, <1>3
<1>6. n # 0
  BY <1>2
<1> HIDE DEF n
<1>7. \A d \in Calls \ {c} : call[d].at = "found" => adjustment'[call[d].id] = adjustment[call[d].id]
  BY <1>5 DEF AdjustmentInv, CallWell, Decisions
<1>8. /\ (\A d \in Calls : CallWell(d)') /\ CallsApart' /\ call' \in [Calls -> CallRows]
      /\ command' \subseteq CommandRows
      /\ \E new \in CommandRows :
           /\ new = [actor |-> r.actor, type |-> r.type, id |-> r.id, key |-> r.key]
           /\ command' = command \union {new} /\ new \notin command
  BY <1>1, <1>5, <1>7, CommitsApart
<1>9. PICK new \in CommandRows :
        /\ new = [actor |-> r.actor, type |-> r.type, id |-> r.id, key |-> r.key]
        /\ command' = command \union {new}
  BY <1>8
<1>10. new.type = "request" /\ new = [actor |-> r.actor, type |-> "request", id |-> 0, key |-> r.key]
  BY <1>1, <1>2, <1>9
<1> HIDE DEF r
<1>11. AdjustmentsTyped'
  BY <1>1, <1>4, <1>5, <1>8 DEF AdjustmentsTyped, n
<1>12. \A i : \A type \in Decisions : DecidedBy(i, type)' = DecidedBy(i, type)
  BY <1>9, <1>10 DEF DecidedBy, Decisions
<1>13. ASSUME NEW i \in DOMAIN adjustment' PROVE AdjustmentWell(i)'
  <2>1. CASE i \in DOMAIN adjustment
    <3>1. AdjustmentWell(i) /\ adjustment'[i] = adjustment[i]
      BY <1>0, <1>5, <2>1
    <3>2. DecisionOn(i)' = DecisionOn(i)
      BY <3>1 DEF DecisionOn
    <3>3. Known(adjustment[i].by, "request", 0, adjustment[i].key)'
      BY <1>9, <3>1 DEF AdjustmentWell, Known
    <3> QED
      BY <1>12, <3>1, <3>2, <3>3 DEF AdjustmentWell
  <2>2. CASE i = n
    <3>1. adjustment'[i] = row
      BY <1>5, <2>2
    <3>2. DecisionOn(i)' = {}
      BY <1>3, <3>1 DEF DecisionOn
    <3>3. \A type \in Decisions : DecidedBy(i, type) = {}
      BY <1>0, <1>5, <2>2 DEF DecidedBy, RequestsOnce
    <3>4. \A type \in Decisions :
            IF type \in DecisionOn(i)' THEN \E d : DecidedBy(i, type)' = {d} ELSE DecidedBy(i, type)' = {}
      BY <1>12, <3>2, <3>3
    <3>5. Known(adjustment[i].by, "request", 0, adjustment[i].key)'
      BY <1>3, <1>9, <1>10, <3>1 DEF Known
    <3>6. /\ adjustment'[i].status = "pending" => adjustment'[i].dual
          /\ ~(adjustment'[i].status # "pending" /\ adjustment'[i].dual)
      BY <1>3, <3>1
    <3> QED
      BY <3>4, <3>5, <3>6 DEF AdjustmentWell
  <2> QED
    BY <1>5, <2>1, <2>2
<1>14. RequestsOnce'
  <2>1. \A i \in DOMAIN adjustment : ~(adjustment[i].by = r.actor /\ adjustment[i].key = r.key)
    BY <1>0, <1>2 DEF AdjustmentWell
  <2>2. \A i, k \in DOMAIN adjustment' :
          adjustment'[i].by = adjustment'[k].by /\ adjustment'[i].key = adjustment'[k].key => i = k
    BY <1>0, <1>3, <1>5, <2>1 DEF RequestsOnce
  <2>3. \A d \in command' : d.type \in Decisions => d.id \in DOMAIN adjustment'
    BY <1>0, <1>5, <1>9, <1>10 DEF RequestsOnce, Decisions
  <2>4. posted' = {i \in DOMAIN adjustment' : adjustment'[i].status = "executed"}
    BY <1>0, <1>3, <1>4, <1>5 DEF RequestsOnce
  <2> QED
    BY <2>2, <2>3, <2>4 DEF RequestsOnce
<1> QED
  BY <1>8, <1>11, <1>13, <1>14 DEF AdjustmentInv

\* A decision on an adjustment that was still pending.
LEMMA DecideKeeps ==
  ASSUME AdjustmentInv, NEW c \in Calls, Approve(c) \/ Reject(c)
  PROVE  AdjustmentInv'
<1> DEFINE r == call[c]
           i == call[c].id
           status == IF r.type = "approve" THEN "executed" ELSE "rejected"
           row == [adjustment[i] EXCEPT !.status = status, !.decider = r.actor]
<1>0. AdjustmentsTyped /\ CallWell(c) /\ CallsApart /\ RequestsOnce
      /\ \A k \in DOMAIN adjustment : AdjustmentWell(k)
  BY DEF AdjustmentInv
<1>1. /\ r.at = "found" /\ r.type \in {"approve", "reject"}
      /\ adjustment' = [adjustment EXCEPT ![i] = row]
      /\ Complete(c) /\ Ended(c)
      /\ IF r.type = "approve"
           THEN Applicable(adjustment[i].amount) /\ Apply(i, adjustment[i].amount)
           ELSE UNCHANGED <<posted, balance>>
  BY DEF Approve, Reject
<1>2. /\ i \in DOMAIN adjustment /\ r.actor \in Deciders
      /\ adjustment[i].status = "pending" /\ adjustment[i].by # r.actor
  BY <1>0, <1>1 DEF CallWell, Decidable, Decisions
<1>3. /\ adjustment \in Seq(AdjustmentRows) /\ adjustment[i] \in AdjustmentRows
      /\ adjustment[i].amount \in Amounts
  <2>1. adjustment \in Seq(AdjustmentRows) /\ adjustment[i] \in AdjustmentRows
    BY <1>0, <1>2 DEF AdjustmentsTyped
  <2> QED
    BY <2>1 DEF AdjustmentRows
<1>4. /\ row \in AdjustmentRows /\ row.by = adjustment[i].by /\ row.key = adjustment[i].key
      /\ row.dual = adjustment[i].dual /\ row.status = status /\ row.decider = r.actor
  BY <1>1, <1>2, <1>3 DEF AdjustmentRows
<1>5. /\ balance' \in 0 .. MaxBalance
      /\ posted' = IF r.type = "approve" THEN posted \union {i} ELSE posted
  <2>1. CASE r.type = "approve"
    BY <1>1, <1>3, <2>1, ApplyKeeps
  <2>2. CASE r.type # "approve"
    BY <1>0, <1>1, <2>2 DEF AdjustmentsTyped
  <2> QED
    BY <2>1, <2>2
<1>6. status = IF r.type = "approve" THEN "executed" ELSE "rejected"
  OBVIOUS
<1> HIDE DEF row, status
<1>7. /\ adjustment' \in Seq(AdjustmentRows) /\ Len(adjustment') = Len(adjustment)
      /\ DOMAIN adjustment' = DOMAIN adjustment /\ adjustment'[i] = row
      /\ \A k \in DOMAIN adjustment : k # i => adjustment'[k] = adjustment[k]
  BY <1>1, <1>2, <1>3, <1>4
<1>8. \A d \in Calls \ {c} : call[d].at = "found" => adjustment'[call[d].id] = adjustment[call[d].id]
  <2>1. \A d \in Calls \ {c} : call[d].at = "found" => call[d].id # i /\ call[d].id \in DOMAIN adjustment
    BY <1>0, <1>1 DEF AdjustmentInv, CallWell, CallsApart, Decisions
  <2> QED
    BY <1>7, <2>1
<1>9. /\ (\A d \in Calls : CallWell(d)') /\ CallsApart' /\ call' \in [Calls -> CallRows]
      /\ command' \subseteq CommandRows
      /\ \E new \in CommandRows :
           /\ new = [actor |-> r.actor, type |-> r.type, id |-> r.id, key |-> r.key]
           /\ command' = command \union {new} /\ new \notin command
  BY <1>1, <1>7, <1>8, CommitsApart
<1>10. PICK new \in CommandRows :
        /\ new = [actor |-> r.actor, type |-> r.type, id |-> r.id, key |-> r.key]
        /\ command' = command \union {new}
  BY <1>9
<1>11. new.type = r.type /\ new.id = i
  BY <1>10
<1> HIDE DEF r, i
<1>12. AdjustmentsTyped'
  BY <1>0, <1>5, <1>7, <1>9 DEF AdjustmentsTyped
<1>13. ASSUME NEW k \in DOMAIN adjustment' PROVE AdjustmentWell(k)'
  <2>1. CASE k # i
    <3>1. AdjustmentWell(k) /\ adjustment'[k] = adjustment[k]
      BY <1>0, <1>7, <2>1
    <3>2. DecisionOn(k)' = DecisionOn(k)
      BY <3>1 DEF DecisionOn
    <3>3. Known(adjustment[k].by, "request", 0, adjustment[k].key)'
      BY <1>10, <3>1 DEF AdjustmentWell, Known
    <3>4. \A type : DecidedBy(k, type)' = DecidedBy(k, type)
      BY <1>10, <1>11, <2>1 DEF DecidedBy
    <3> QED
      BY <3>1, <3>2, <3>3, <3>4 DEF AdjustmentWell
  <2>2. CASE k = i
    <3>1. AdjustmentWell(i) /\ adjustment'[k] = row
      BY <1>0, <1>2, <1>7, <2>2
    <3>2. row.dual
      BY <1>2, <1>4, <3>1 DEF AdjustmentWell
    <3>3. DecisionOn(k)' = {r.type}
      BY <1>1, <1>4, <1>6, <3>1, <3>2 DEF DecisionOn
    <3>4. \A type \in Decisions : DecidedBy(i, type) = {}
      <4>1. DecisionOn(i) = {}
        BY <1>2 DEF DecisionOn
      <4> QED
        BY <3>1, <4>1 DEF AdjustmentWell
    <3>5. \A type \in Decisions : DecidedBy(k, type)' = IF type = r.type THEN {new} ELSE {}
      BY <1>10, <1>11, <2>2, <3>4 DEF DecidedBy
    <3>6. Known(adjustment[k].by, "request", 0, adjustment[k].key)'
      BY <1>4, <1>10, <3>1 DEF AdjustmentWell, Known
    <3>7. /\ adjustment'[k].status # "pending" /\ adjustment'[k].decider \in Deciders \ {adjustment'[k].by}
      BY <1>2, <1>4, <1>6, <3>1
    <3> QED
      BY <3>3, <3>5, <3>6, <3>7 DEF AdjustmentWell
  <2> QED
    BY <2>1, <2>2
<1>14. RequestsOnce'
  <2>1. \A k, m \in DOMAIN adjustment' :
          adjustment'[k].by = adjustment'[m].by /\ adjustment'[k].key = adjustment'[m].key => k = m
    <3>1. \A k \in DOMAIN adjustment : adjustment'[k].by = adjustment[k].by /\ adjustment'[k].key = adjustment[k].key
      BY <1>4, <1>7
    <3> QED
      BY <1>0, <1>7, <3>1 DEF RequestsOnce
  <2>2. \A d \in command' : d.type \in Decisions => d.id \in DOMAIN adjustment'
    BY <1>0, <1>2, <1>7, <1>10, <1>11 DEF RequestsOnce
  <2>3. posted' = {k \in DOMAIN adjustment' : adjustment'[k].status = "executed"}
    BY <1>0, <1>1, <1>2, <1>4, <1>5, <1>6, <1>7 DEF RequestsOnce
  <2> QED
    BY <2>1, <2>2, <2>3 DEF RequestsOnce
<1> QED
  BY <1>9, <1>12, <1>13, <1>14 DEF AdjustmentInv

LEMMA AdjustmentKeeps ==
  ASSUME AdjustmentInv, [AdjustmentNext]_adjustmentVars
  PROVE  AdjustmentInv'
<1>1. CASE AdjustmentNext
  <2>1. ASSUME NEW c \in Calls, StartRequest(c) PROVE AdjustmentInv'
    <3>1. PICK a \in Deciders, k \in Keys, n \in Amounts : Start(c, a, "request", 0, k, n)
      BY <2>1 DEF StartRequest
    <3>2. 0 \in 0 .. MaxAdjustments
      BY AdjustmentAssumption
    <3> QED
      BY <3>1, <3>2, StartKeeps
  <2>2. ASSUME NEW c \in Calls, StartDecision(c) PROVE AdjustmentInv'
    <3>1. PICK a \in Deciders, k \in Keys, type \in Decisions, i \in DOMAIN adjustment : Start(c, a, type, i, k, 0)
      BY <2>2 DEF StartDecision
    <3>2. i \in 0 .. MaxAdjustments
      BY AdjustmentAssumption DEF AdjustmentInv, AdjustmentsTyped
    <3> QED
      BY <3>1, <3>2, StartKeeps
  <2> QED
    BY <1>1, <2>1, <2>2, FindKeeps, RequestAdjustmentKeeps, DecideKeeps, RollBackKeeps, SpendKeeps
       DEF AdjustmentNext
<1>2. CASE UNCHANGED adjustmentVars
  <2>1. UNCHANGED <<adjustment, command, posted, balance, call>> /\ balance \in 0 .. MaxBalance
    BY <1>2 DEF adjustmentVars, AdjustmentInv, AdjustmentsTyped
  <2> QED
    BY <2>1, BalanceIsApart
<1> QED
  BY <1>1, <1>2

LEMMA AdjustmentInvMeans ==
  ASSUME AdjustmentInv
  PROVE  AdjustmentTypeOK /\ EffectsAuthorised
<1>0. AdjustmentsTyped /\ RequestsOnce
  BY DEF AdjustmentInv
<1>1. AdjustmentTypeOK
  <2>1. \A i \in DOMAIN adjustment : adjustment[i] \in AdjustmentRows
    BY <1>0 DEF AdjustmentsTyped
  <2>2. \A c \in Calls : call[c] \in CallRows
    BY <1>0 DEF AdjustmentsTyped
  <2> QED
    BY <1>0, <2>1, <2>2 DEF AdjustmentTypeOK, AdjustmentsTyped, AdjustmentRows, CallRows, CommandRows, RequestsOnce
<1>2. ASSUME NEW i \in DOMAIN adjustment, NEW type \in Decisions
      PROVE  Cardinality(DecidedBy(i, type)) = IF type \in DecisionOn(i) THEN 1 ELSE 0
  <2>1. IF type \in DecisionOn(i) THEN \E c : DecidedBy(i, type) = {c} ELSE DecidedBy(i, type) = {}
    BY DEF AdjustmentInv, AdjustmentWell
  <2> QED
    BY <2>1, FS_Singleton, FS_EmptySet
<1>3. \A i \in DOMAIN adjustment :
        adjustment[i].status # "pending" /\ adjustment[i].dual =>
          adjustment[i].decider \in Deciders \ {adjustment[i].by}
  BY DEF AdjustmentInv, AdjustmentWell
<1>4. EffectsAuthorised
  BY <1>0, <1>2, <1>3 DEF EffectsAuthorised, RequestsOnce, DecisionOn
<1> QED
  BY <1>1, <1>4

-----------------------------------------------------------------------------
(* Checkouts.                                                              *)

AskingRows == [at : {"idle", "insert", "provider", "commit", "respond", "portal"},
               key : CheckoutKeys \union {NoSession}, offer : Offers \union {NoSession},
               session : Nat \union {NoSession}]
CheckoutRows == [offer : Offers, transaction : Nat]

CheckoutsTyped ==
  /\ inForce \in Offers
  /\ asking \in [CheckoutRequests -> AskingRows]
  /\ holder \in [CheckoutKeys -> CheckoutRequests \union {NoSession}]
  /\ checkout \in [CheckoutKeys -> CheckoutRows \union {NoSession}]
  /\ transactions \in Seq(Offers)
  /\ credited \subseteq paid /\ paid \subseteq DOMAIN transactions
  /\ portal \in [CheckoutKeys -> 1 .. MaxPortals \union {NoSession}]
  /\ portals \in 0 .. MaxPortals

\* A checkout is about a transaction of the provider, at its offer, and a page about a
\* checkout.
CheckoutWell(k) ==
  checkout[k] # NoSession =>
    /\ checkout[k].transaction \in DOMAIN transactions
    /\ checkout[k].offer = transactions[checkout[k].transaction]
PageWell(p) ==
  /\ p.key \in CheckoutKeys /\ checkout[p.key] # NoSession
  /\ checkout[p.key].transaction = p.transaction

\* A call with an open insert holds its key, which has no checkout; one with an answer of
\* the provider has the transaction it asked for.
AskingWell(r) ==
  /\ asking[r].at # "idle" => asking[r].key \in CheckoutKeys
  /\ asking[r].at \in {"insert", "provider", "commit", "respond"} => asking[r].offer \in Offers
  /\ asking[r].at \in {"provider", "commit"} =>
       holder[asking[r].key] = r /\ checkout[asking[r].key] = NoSession
  /\ asking[r].at \in {"commit", "respond"} =>
       asking[r].session \in DOMAIN transactions /\ transactions[asking[r].session] = asking[r].offer
  /\ asking[r].at = "respond" =>
       checkout[asking[r].key] = [offer |-> asking[r].offer, transaction |-> asking[r].session]

CheckoutInv ==
  /\ CheckoutsTyped /\ \A r \in CheckoutRequests : AskingWell(r)
  /\ (\A k \in CheckoutKeys : CheckoutWell(k)) /\ (\A p \in pages : PageWell(p))

LEMMA QuietCall ==
  /\ Quiet \in AskingRows /\ Quiet.at = "idle"
BY DEF Quiet, AskingRows

LEMMA NoSessionApart ==
  /\ NoSession \notin Nat /\ NoSession \notin CheckoutRequests /\ NoSession \notin CheckoutRows
  /\ MaxPortals \in Nat
BY CheckoutAssumption DEF CheckoutRows

LEMMA CheckoutStarts ==
  ASSUME CheckoutInit
  PROVE  CheckoutInv
<1>1. transactions \in Seq(Offers) /\ paid = {} /\ credited = {} /\ pages = {}
  BY DEF CheckoutInit
<1>2. CheckoutsTyped
  BY <1>1, QuietCall, NoSessionApart, CheckoutAssumption DEF CheckoutInit, CheckoutsTyped
<1>3. \A r \in CheckoutRequests : AskingWell(r)
  BY QuietCall DEF CheckoutInit, AskingWell
<1>4. \A k \in CheckoutKeys : CheckoutWell(k)
  BY DEF CheckoutInit, CheckoutWell
<1> QED
  BY <1>1, <1>2, <1>3, <1>4 DEF CheckoutInv

\* The step of a call that writes neither checkouts nor transactions.
LEMMA OneAsksPage ==
  ASSUME CheckoutInv, NEW r \in CheckoutRequests, NEW row \in AskingRows,
         asking' = [asking EXCEPT ![r] = row],
         UNCHANGED <<inForce, checkout, transactions, paid, credited>>,
         holder' \in [CheckoutKeys -> CheckoutRequests \union {NoSession}],
         \A d \in CheckoutRequests \ {r} : \A k \in CheckoutKeys : holder[k] = d => holder'[k] = d,
         \A p \in pages' \ pages : PageWell(p),
         portal' \in [CheckoutKeys -> 1 .. MaxPortals \union {NoSession}], portals' \in 0 .. MaxPortals,
         AskingWell(r)'
  PROVE  CheckoutInv'
<1>1. CheckoutsTyped /\ asking'[r] = row /\ \A d \in CheckoutRequests \ {r} : asking'[d] = asking[d]
  BY DEF CheckoutInv, CheckoutsTyped
<1>2. CheckoutsTyped'
  BY <1>1 DEF CheckoutsTyped
<1>3. ASSUME NEW d \in CheckoutRequests, d # r PROVE AskingWell(d)'
  <2>1. AskingWell(d) /\ asking'[d] = asking[d]
    BY <1>1, <1>3 DEF CheckoutInv
  <2> QED
    BY <1>3, <2>1 DEF AskingWell
<1>4. \A k \in CheckoutKeys : CheckoutWell(k)'
  BY DEF CheckoutInv, CheckoutWell
<1>5. \A p \in pages' : PageWell(p)'
  BY DEF CheckoutInv, PageWell
<1> QED
  BY <1>2, <1>3, <1>4, <1>5 DEF CheckoutInv

LEMMA FreedKeeps ==
  ASSUME CheckoutInv, NEW r \in CheckoutRequests, holder' = Freed(r)
  PROVE  /\ holder' \in [CheckoutKeys -> CheckoutRequests \union {NoSession}]
         /\ \A d \in CheckoutRequests \ {r} : \A k \in CheckoutKeys : holder[k] = d => holder'[k] = d
BY DEF CheckoutInv, CheckoutsTyped, Freed

LEMMA CallsKeep ==
  ASSUME CheckoutInv, NEW r \in CheckoutRequests,
         \/ InsertCheckout(r) \/ Respond(r) \/ Abort(r) \/ CreatePortal(r)
         \/ \E k \in CheckoutKeys : BeginPortal(r, k) \/ \E o \in Offers : BeginCheckout(r, k, o)
  PROVE  CheckoutInv'
<1>0. /\ CheckoutsTyped /\ AskingWell(r) /\ asking[r] \in AskingRows /\ asking \in [CheckoutRequests -> AskingRows]
      /\ holder \in [CheckoutKeys -> CheckoutRequests \union {NoSession}]
      /\ checkout \in [CheckoutKeys -> CheckoutRows \union {NoSession}]
      /\ portal \in [CheckoutKeys -> 1 .. MaxPortals \union {NoSession}]
      /\ portals \in 0 .. MaxPortals /\ MaxPortals \in Nat /\ NoSession \notin CheckoutRequests
      /\ NoSession \notin CheckoutRows
  BY NoSessionApart DEF CheckoutInv, CheckoutsTyped
<1>1. Quiet \in AskingRows
  BY QuietCall
<1>2. ASSUME asking' = [asking EXCEPT ![r] = Quiet] PROVE AskingWell(r)'
  <2>1. asking'[r] = Quiet
    BY <1>0, <1>2
  <2> QED
    BY <2>1, QuietCall DEF AskingWell
<1>3. CASE InsertCheckout(r) /\ KeyTaken(asking[r].key)
  <2>1. asking' = [asking EXCEPT ![r] = Quiet]
        /\ UNCHANGED <<inForce, holder, checkout, transactions, pages, paid, credited, portal, portals>>
    BY <1>3 DEF InsertCheckout, Becomes
  <2> QED
    BY <1>0, <1>1, <1>2, <2>1, OneAsksPage
<1>4. CASE InsertCheckout(r) /\ ~KeyTaken(asking[r].key)
  <2> DEFINE row == [asking[r] EXCEPT !.at = "provider"]
             k == asking[r].key
  <2>1. /\ asking' = [asking EXCEPT ![r] = row] /\ holder' = [holder EXCEPT ![k] = r]
        /\ asking[r].at = "insert" /\ holder[k] = NoSession /\ checkout[k] = NoSession
        /\ UNCHANGED <<inForce, checkout, transactions, pages, paid, credited, portal, portals>>
    BY <1>4 DEF InsertCheckout, Becomes, CheckoutAt, KeyHeld, KeyTaken
  <2>2. /\ row \in AskingRows /\ row.at = "provider" /\ row.key = k /\ row.offer = asking[r].offer
    BY <1>0 DEF AskingRows
  <2>3. k \in CheckoutKeys /\ asking[r].offer \in Offers
    BY <1>0, <2>1 DEF AskingWell
  <2> HIDE DEF row, k
  <2>4. /\ asking'[r] = row /\ holder'[k] = r
        /\ holder' \in [CheckoutKeys -> CheckoutRequests \union {NoSession}]
        /\ \A d \in CheckoutRequests \ {r} : \A j \in CheckoutKeys : holder[j] = d => holder'[j] = d
    BY <1>0, <2>1, <2>3
  <2>5. AskingWell(r)'
    BY <2>1, <2>2, <2>3, <2>4 DEF AskingWell
  <2> QED
    BY <1>0, <2>1, <2>2, <2>4, <2>5, OneAsksPage
<1>5. CASE Respond(r)
  <2> DEFINE p == Page(asking[r].key, asking[r].session)
  <2>1. /\ asking' = [asking EXCEPT ![r] = Quiet] /\ pages' = pages \union {p}
        /\ asking[r].at = "respond"
        /\ UNCHANGED <<inForce, holder, checkout, transactions, paid, credited, portal, portals>>
    BY <1>5 DEF Respond, Becomes, CheckoutAt
  <2>2. PageWell(p)
    <3>1. /\ asking[r].key \in CheckoutKeys
          /\ checkout[asking[r].key] = [offer |-> asking[r].offer, transaction |-> asking[r].session]
      BY <1>0, <2>1 DEF AskingWell
    <3>2. checkout[asking[r].key] # NoSession
      <4>1. asking[r].offer \in Offers /\ asking[r].session \in Nat
        BY <1>0, <2>1 DEF AskingWell, CheckoutsTyped
      <4> QED
        BY <1>0, <3>1, <4>1 DEF CheckoutRows
    <3> QED
      BY <3>1, <3>2 DEF PageWell, Page
  <2> HIDE DEF p
  <2> QED
    BY <1>0, <1>1, <1>2, <2>1, <2>2, OneAsksPage
<1>6. CASE Abort(r)
  <2>1. /\ asking' = [asking EXCEPT ![r] = Quiet] /\ holder' = Freed(r)
        /\ UNCHANGED <<inForce, checkout, transactions, pages, paid, credited, portal, portals>>
    BY <1>6 DEF Abort, Becomes
  <2> QED
    BY <1>0, <1>1, <1>2, <2>1, FreedKeeps, OneAsksPage
<1>7. CASE CreatePortal(r)
  <2>1. /\ asking' = [asking EXCEPT ![r] = Quiet] /\ portals' = portals + 1 /\ portals < MaxPortals
        /\ portal' = [portal EXCEPT ![asking[r].key] = portals + 1]
        /\ UNCHANGED <<inForce, holder, checkout, transactions, pages, paid, credited>>
    BY <1>7 DEF CreatePortal, Becomes
  <2>2. portals' \in 0 .. MaxPortals /\ portals + 1 \in 1 .. MaxPortals
    BY <1>0, <2>1
  <2>3. portal' \in [CheckoutKeys -> 1 .. MaxPortals \union {NoSession}]
    BY <1>0, <2>1, <2>2
  <2> QED
    BY <1>0, <1>1, <1>2, <2>1, <2>2, <2>3, OneAsksPage
<1>8. ASSUME NEW k \in CheckoutKeys, BeginPortal(r, k) PROVE CheckoutInv'
  <2> DEFINE row == [Quiet EXCEPT !.at = "portal", !.key = k]
  <2>1. /\ asking' = [asking EXCEPT ![r] = row]
        /\ UNCHANGED <<inForce, holder, checkout, transactions, pages, paid, credited, portal, portals>>
    BY <1>8 DEF BeginPortal, Becomes
  <2>2. row \in AskingRows /\ row.at = "portal" /\ row.key = k
    BY DEF Quiet, AskingRows
  <2> HIDE DEF row
  <2>3. AskingWell(r)'
    BY <1>0, <2>1, <2>2 DEF AskingWell
  <2> QED
    BY <1>0, <2>1, <2>2, <2>3, OneAsksPage
<1>9. ASSUME NEW k \in CheckoutKeys, NEW o \in Offers, BeginCheckout(r, k, o) PROVE CheckoutInv'
  <2>1. UNCHANGED <<inForce, holder, checkout, transactions, paid, credited, portal, portals>>
    BY <1>9 DEF BeginCheckout
  <2>2. CASE checkout[k] # NoSession
    <3> DEFINE p == Page(k, checkout[k].transaction)
    <3>1. pages' = pages \union {p} /\ asking' = [asking EXCEPT ![r] = asking[r]]
      BY <1>0, <1>9, <2>2 DEF BeginCheckout
    <3>2. PageWell(p)
      BY <2>2 DEF PageWell, Page
    <3>3. AskingWell(r)'
      BY <1>0, <2>1, <3>1 DEF AskingWell
    <3> HIDE DEF p
    <3> QED
      BY <1>0, <2>1, <3>1, <3>2, <3>3, OneAsksPage
  <2>3. CASE checkout[k] = NoSession
    <3> DEFINE row == [Quiet EXCEPT !.at = "insert", !.key = k, !.offer = o]
    <3>1. asking' = [asking EXCEPT ![r] = row] /\ UNCHANGED pages
      BY <1>9, <2>3 DEF BeginCheckout, Becomes
    <3>2. row \in AskingRows /\ row.at = "insert" /\ row.key = k /\ row.offer = o
      BY DEF Quiet, AskingRows
    <3> HIDE DEF row
    <3>3. AskingWell(r)'
      BY <1>0, <3>1, <3>2 DEF AskingWell
    <3> QED
      BY <1>0, <2>1, <3>1, <3>2, <3>3, OneAsksPage
  <2> QED
    BY <2>2, <2>3
<1> QED
  BY <1>3, <1>4, <1>5, <1>6, <1>7, <1>8, <1>9

LEMMA CreateTransactionKeeps ==
  ASSUME CheckoutInv, NEW r \in CheckoutRequests, CreateTransaction(r)
  PROVE  CheckoutInv'
<1> DEFINE t == Cardinality(DOMAIN transactions) + 1
           offer == asking[r].offer
           row == [asking[r] EXCEPT !.at = "commit", !.session = t]
<1>0. CheckoutsTyped /\ AskingWell(r) /\ asking[r] \in AskingRows
  BY DEF CheckoutInv, CheckoutsTyped
<1>1. /\ asking[r].at = "provider"
      /\ transactions' = [u \in 1 .. t |-> IF u = t THEN offer ELSE transactions[u]]
      /\ \/ asking' = [asking EXCEPT ![r] = row] /\ UNCHANGED holder
         \/ asking' = [asking EXCEPT ![r] = Quiet] /\ holder' = Freed(r)
      /\ UNCHANGED <<inForce, checkout, pages, paid, credited, portal, portals>>
  BY DEF CreateTransaction, CheckoutAt, Becomes
<1>2. transactions \in Seq(Offers) /\ Len(transactions) \in Nat /\ DOMAIN transactions = 1 .. Len(transactions)
  BY <1>0 DEF CheckoutsTyped
<1>3. Cardinality(DOMAIN transactions) = Len(transactions)
  <2> DEFINE n == Len(transactions)
  <2>1. Cardinality(1 .. n) = IF 1 > n THEN 0 ELSE n - 1 + 1
    BY <1>2, FS_Interval
  <2> HIDE DEF n
  <2> QED
    BY <1>2, <2>1 DEF n
<1>4. t \in Nat \ {0} /\ t = Len(transactions) + 1
  BY <1>2, <1>3
<1>5. /\ asking[r].key \in CheckoutKeys /\ offer \in Offers
      /\ holder[asking[r].key] = r /\ checkout[asking[r].key] = NoSession
  BY <1>0, <1>1 DEF AskingWell
<1>6. /\ row \in AskingRows /\ row.at = "commit" /\ row.key = asking[r].key /\ row.offer = offer
      /\ row.session = t
  BY <1>0, <1>4 DEF AskingRows
<1> HIDE DEF t, offer, row
<1>7. /\ transactions' \in Seq(Offers) /\ DOMAIN transactions' = 1 .. t
      /\ DOMAIN transactions \subseteq DOMAIN transactions' /\ transactions'[t] = offer /\ t \in 1 .. t
      /\ \A u \in DOMAIN transactions : transactions'[u] = transactions[u]
  <2>1. \A u \in 1 .. t : (IF u = t THEN offer ELSE transactions[u]) \in Offers
    BY <1>2, <1>4, <1>5
  <2>2. transactions' \in [1 .. t -> Offers]
    BY <1>1, <2>1
  <2>3. transactions' \in Seq(Offers)
    BY <1>4, <2>2
  <2>4. \A u \in DOMAIN transactions : u \in 1 .. t /\ u # t
    BY <1>2, <1>4
  <2> QED
    BY <1>1, <1>4, <2>3, <2>4
<1>8. /\ asking'[r] \in {row, Quiet} /\ asking' \in [CheckoutRequests -> AskingRows]
      /\ \A d \in CheckoutRequests \ {r} : asking'[d] = asking[d]
  BY <1>0, <1>1, <1>6, QuietCall DEF CheckoutsTyped
<1>9. /\ holder' \in [CheckoutKeys -> CheckoutRequests \union {NoSession}]
      /\ \A d \in CheckoutRequests \ {r} : \A k \in CheckoutKeys : holder[k] = d => holder'[k] = d
      /\ asking'[r] = Quiet \/ holder' = holder
  <2>1. CASE asking' = [asking EXCEPT ![r] = row] /\ UNCHANGED holder
    BY <1>0, <2>1 DEF CheckoutsTyped
  <2>2. CASE asking' = [asking EXCEPT ![r] = Quiet] /\ holder' = Freed(r)
    BY <1>0, <2>2, FreedKeeps DEF CheckoutsTyped
  <2> QED
    BY <1>1, <2>1, <2>2
<1>10. CheckoutsTyped'
  BY <1>0, <1>1, <1>7, <1>8, <1>9 DEF CheckoutsTyped
<1>11. AskingWell(r)'
  <2>1. CASE asking'[r] = Quiet
    BY <2>1, QuietCall DEF AskingWell
  <2>2. CASE asking'[r] = row /\ holder' = holder
    BY <1>1, <1>5, <1>6, <1>7, <2>2 DEF AskingWell
  <2> QED
    BY <1>8, <1>9, <2>1, <2>2
<1>12. ASSUME NEW d \in CheckoutRequests, d # r PROVE AskingWell(d)'
  <2>1. AskingWell(d) /\ asking'[d] = asking[d]
    BY <1>8, <1>12 DEF CheckoutInv
  <2> QED
    BY <1>1, <1>7, <1>9, <1>12, <2>1 DEF AskingWell
<1>13. \A k \in CheckoutKeys : CheckoutWell(k)'
  BY <1>1, <1>7 DEF CheckoutInv, CheckoutWell
<1>14. \A p \in pages' : PageWell(p)'
  BY <1>1 DEF CheckoutInv, PageWell
<1> QED
  BY <1>10, <1>11, <1>12, <1>13, <1>14 DEF CheckoutInv

\* The key that is committed had no checkout, so no page and no other call is about it.
LEMMA CommitCheckoutKeeps ==
  ASSUME CheckoutInv, NEW r \in CheckoutRequests, CommitCheckout(r)
  PROVE  CheckoutInv'
<1> DEFINE k == asking[r].key
           offer == asking[r].offer
           t == asking[r].session
           new == [offer |-> offer, transaction |-> t]
           row == [asking[r] EXCEPT !.at = "respond"]
<1>0. CheckoutsTyped /\ AskingWell(r) /\ asking[r] \in AskingRows /\ NoSession \notin CheckoutRows
      /\ NoSession \notin CheckoutRequests
  BY NoSessionApart DEF CheckoutInv, CheckoutsTyped
<1>1. /\ asking[r].at = "commit" /\ checkout' = [checkout EXCEPT ![k] = new]
      /\ holder' = Freed(r) /\ asking' = [asking EXCEPT ![r] = row]
      /\ UNCHANGED <<inForce, transactions, pages, paid, credited, portal, portals>>
  BY DEF CommitCheckout, CheckoutAt, Becomes
<1>2. /\ k \in CheckoutKeys /\ offer \in Offers /\ holder[k] = r /\ checkout[k] = NoSession
      /\ t \in DOMAIN transactions /\ transactions[t] = offer
  BY <1>0, <1>1 DEF AskingWell
<1>3. new \in CheckoutRows /\ new.offer = offer /\ new.transaction = t
  BY <1>0, <1>2 DEF CheckoutsTyped, CheckoutRows
<1>4. /\ row \in AskingRows /\ row.at = "respond" /\ row.key = k /\ row.offer = offer /\ row.session = t
  BY <1>0 DEF AskingRows
<1>5. new = [offer |-> offer, transaction |-> t] /\ new # NoSession
  BY <1>0, <1>3
<1> HIDE DEF new, row, k, offer, t
<1>6. /\ asking'[r] = row /\ asking' \in [CheckoutRequests -> AskingRows]
      /\ \A d \in CheckoutRequests \ {r} : asking'[d] = asking[d]
      /\ checkout' \in [CheckoutKeys -> CheckoutRows \union {NoSession}] /\ checkout'[k] = new
      /\ \A j \in CheckoutKeys : j # k => checkout'[j] = checkout[j]
  BY <1>0, <1>1, <1>2, <1>3, <1>4 DEF CheckoutsTyped
<1>7. /\ holder' \in [CheckoutKeys -> CheckoutRequests \union {NoSession}]
      /\ \A d \in CheckoutRequests \ {r} : \A j \in CheckoutKeys : holder[j] = d => holder'[j] = d
  BY <1>1, FreedKeeps
<1>8. CheckoutsTyped'
  BY <1>0, <1>1, <1>6, <1>7 DEF CheckoutsTyped
<1>9. AskingWell(r)'
  BY <1>1, <1>2, <1>4, <1>5, <1>6 DEF AskingWell
<1>10. ASSUME NEW d \in CheckoutRequests, d # r PROVE AskingWell(d)'
  <2>1. AskingWell(d) /\ asking'[d] = asking[d] /\ asking[d] \in AskingRows
    BY <1>0, <1>6, <1>10 DEF CheckoutInv, CheckoutsTyped
  <2>2. asking[d].at \in {"provider", "commit"} => asking[d].key # k
    BY <1>2, <1>10, <2>1 DEF AskingWell
  <2>3. asking[d].at = "respond" => asking[d].key # k
    <3>1. asking[d].at = "respond" =>
            [offer |-> asking[d].offer, transaction |-> asking[d].session] \in CheckoutRows
      BY <1>0, <2>1 DEF AskingWell, CheckoutsTyped, CheckoutRows
    <3> QED
      BY <1>0, <1>2, <2>1, <3>1 DEF AskingWell
  <2> QED
    BY <1>1, <1>6, <1>7, <1>10, <2>1, <2>2, <2>3 DEF AskingWell
<1>11. ASSUME NEW j \in CheckoutKeys PROVE CheckoutWell(j)'
  <2>1. CASE j = k
    BY <1>1, <1>2, <1>3, <1>6, <2>1 DEF CheckoutWell
  <2>2. CASE j # k
    BY <1>1, <1>6, <2>2 DEF CheckoutInv, CheckoutWell
  <2> QED
    BY <2>1, <2>2
<1>12. \A p \in pages' : PageWell(p)'
  BY <1>1, <1>2, <1>6 DEF CheckoutInv, PageWell
<1> QED
  BY <1>8, <1>9, <1>10, <1>11, <1>12 DEF CheckoutInv

LEMMA PaymentsKeep ==
  ASSUME CheckoutInv, NextCatalog \/ Pay \/ \E t \in paid : ProcessPayment(t)
  PROVE  CheckoutInv'
<1>0. CheckoutsTyped
  BY DEF CheckoutInv
<1>1. UNCHANGED <<asking, holder, checkout, transactions, pages, portal, portals>>
  BY DEF NextCatalog, Pay, ProcessPayment
<1>2. inForce' \in Offers /\ credited' \subseteq paid' /\ paid' \subseteq DOMAIN transactions
  <2>1. CASE NextCatalog
    BY <1>0, <2>1 DEF NextCatalog, CheckoutsTyped
  <2>2. CASE Pay
    <3>1. PICK p \in pages : paid' = paid \union {p.transaction} /\ UNCHANGED <<inForce, credited>>
      BY <2>2 DEF Pay
    <3>2. p.transaction \in DOMAIN transactions
      BY DEF CheckoutInv, PageWell, CheckoutWell
    <3> QED
      BY <1>0, <3>1, <3>2 DEF CheckoutsTyped
  <2>3. CASE \E t \in paid : ProcessPayment(t)
    BY <1>0, <2>3 DEF ProcessPayment, CheckoutsTyped
  <2> QED
    BY <2>1, <2>2, <2>3
<1>3. CheckoutsTyped'
  BY <1>0, <1>1, <1>2 DEF CheckoutsTyped
<1> QED
  BY <1>1, <1>3 DEF CheckoutInv, AskingWell, CheckoutWell, PageWell

LEMMA CheckoutKeeps ==
  ASSUME CheckoutInv, [CheckoutNext]_checkoutVars
  PROVE  CheckoutInv'
<1>1. CASE CheckoutNext
  BY <1>1, CallsKeep, CreateTransactionKeeps, CommitCheckoutKeeps, PaymentsKeep DEF CheckoutNext
<1>2. CASE UNCHANGED checkoutVars
  <2>1. UNCHANGED <<inForce, asking, holder, checkout, transactions, pages, paid, credited, portal, portals>>
    BY <1>2 DEF checkoutVars
  <2> QED
    BY <2>1 DEF CheckoutInv, CheckoutsTyped, AskingWell, CheckoutWell, PageWell
<1> QED
  BY <1>1, <1>2

LEMMA CheckoutInvMeans ==
  ASSUME CheckoutInv
  PROVE  CheckoutTypeOK /\ PaymentsFindTheirCheckout
<1>0. CheckoutsTyped
  BY DEF CheckoutInv
<1>1. PaymentsFindTheirCheckout
  BY DEF CheckoutInv, PageWell, CheckoutWell, PaymentsFindTheirCheckout
<1>2. DOMAIN transactions = 1 .. Cardinality(DOMAIN transactions)
  <2> DEFINE n == Len(transactions)
  <2>1. n \in Nat /\ DOMAIN transactions = 1 .. n
    BY <1>0 DEF CheckoutsTyped
  <2> HIDE DEF n
  <2>2. Cardinality(1 .. n) = IF 1 > n THEN 0 ELSE n - 1 + 1
    BY <2>1, FS_Interval
  <2>3. Cardinality(1 .. n) = n
    BY <2>1, <2>2
  <2> QED
    BY <2>1, <2>3
<1>3. \A r \in CheckoutRequests : asking[r] \in AskingRows
  BY <1>0 DEF CheckoutsTyped
<1>4. \A k \in CheckoutKeys : checkout[k] = NoSession \/ checkout[k].offer \in Offers
  <2>1. \A k \in CheckoutKeys : checkout[k] = NoSession \/ checkout[k] \in CheckoutRows
    BY <1>0 DEF CheckoutsTyped
  <2> QED
    BY <2>1 DEF CheckoutRows
<1>5. \A p \in pages : p.key \in CheckoutKeys /\ p.transaction \in DOMAIN transactions
  BY DEF CheckoutInv, PageWell, CheckoutWell
<1>6. CheckoutTypeOK
  BY <1>0, <1>2, <1>3, <1>4, <1>5 DEF CheckoutsTyped, CheckoutTypeOK, AskingRows
<1> QED
  BY <1>1, <1>6

-----------------------------------------------------------------------------
(* Requests that cost credits.                                             *)

AnalysisRows == [parent : Nat, attempt : Nat, status : {"queued", "completed", "failed"}, held : {0, Cost}]
ClientRows == [at : {"idle", "claim", "check", "reserve", "commit"}, op : Operations,
               key : WorkKeys \union {NoTicket}, attempt : Nat]

WorkTyped ==
  /\ cvActive \in BOOLEAN
  /\ analyses \in Seq(AnalysisRows) /\ Len(analyses) <= MaxAnalyses
  /\ \A i \in DOMAIN analyses :
       /\ analyses[i].parent \in 0 .. i - 1 /\ analyses[i].attempt \in 1 .. i
       /\ analyses[i].status = "queued" => analyses[i].held = Cost
  /\ interviews \in 0 .. MaxInterviews /\ outbox = DOMAIN analyses
  /\ ticket \in [Tickets -> Nat \union {NoTicket}]
  /\ claimed \in [Tickets -> Clients \union {NoTicket}]
  /\ client \in [Clients -> ClientRows]
  /\ account \in Clients \union {NoTicket} /\ credits \in Nat

\* A request past its claim is the only one with its record, and has the account and the
\* credits when it is to hold some.
ClientWell(c) ==
  /\ client[c].op[2] \in 0 .. Len(analyses) /\ client[c].attempt <= Len(analyses) + 1
  /\ client[c].at # "idle" => client[c].key \in WorkKeys
  /\ client[c].at \in {"check", "reserve", "commit"} =>
       claimed[TicketOf(c)] = c /\ ticket[TicketOf(c)] = NoTicket
  /\ client[c].at = "reserve" => client[c].op[1] # "interview"
  /\ client[c].at \in {"reserve", "commit"} => client[c].attempt >= 1
  /\ client[c].at = "commit" /\ client[c].op[1] # "interview" /\ Cost > 0 =>
       account = c /\ credits >= Cost

\* The records that name analyses name each once.
TicketsAnswered ==
  /\ \A t \in Tickets :
       t[1][1] # "interview" /\ ticket[t] # NoTicket => ticket[t] \in DOMAIN analyses
  /\ \A i \in DOMAIN analyses : \E t \in Tickets : t[1][1] # "interview" /\ ticket[t] = i
  /\ \A t, u \in Tickets :
       t[1][1] # "interview" /\ u[1][1] # "interview" /\ ticket[t] = ticket[u] /\ ticket[t] # NoTicket =>
         t = u

InterviewTickets == {t \in Tickets : t[1][1] = "interview" /\ ticket[t] # NoTicket}
InterviewsAnswered == IsFiniteSet(InterviewTickets) /\ interviews = Cardinality(InterviewTickets)

PaidFor == {i \in DOMAIN analyses : analyses[i].status \in {"queued", "completed"}}
CreditsLeft == credits + Cost * Cardinality(PaidFor) = Funds

WorkInv ==
  /\ WorkTyped /\ \A c \in Clients : ClientWell(c)
  /\ TicketsAnswered /\ InterviewsAnswered /\ CreditsLeft

LEMMA OperationPairs ==
  /\ \A op \in Operations : op = <<op[1], op[2]>> /\ op[2] \in 0 .. MaxAnalyses
                            /\ (op[1] # "retry" => op[2] = 0)
  /\ MaxAnalyses \in Nat /\ MaxInterviews \in Nat /\ Cost \in Nat /\ Funds \in Nat
  /\ NoTicket \notin Clients /\ NoTicket \notin Nat
BY WorkAssumption DEF Operations

LEMMA IdleClient ==
  /\ NoWork \in ClientRows /\ NoWork.at = "idle" /\ NoWork.op[2] = 0 /\ NoWork.attempt = 0
BY DEF NoWork, ClientRows, Operations

LEMMA WorkStarts ==
  ASSUME WorkInit
  PROVE  WorkInv
<1>0. MaxAnalyses \in Nat /\ MaxInterviews \in Nat /\ Cost \in Nat /\ Funds \in Nat
  BY OperationPairs
<1>1. analyses = <<>> /\ DOMAIN analyses = {} /\ Len(analyses) = 0
  BY DEF WorkInit
<1>2. WorkTyped
  BY <1>0, <1>1, IdleClient DEF WorkInit, WorkTyped
<1>3. ASSUME NEW c \in Clients PROVE ClientWell(c)
  <2>1. client[c] = NoWork
    BY DEF WorkInit
  <2> QED
    BY <1>1, <2>1, IdleClient DEF ClientWell
<1>4. TicketsAnswered
  BY <1>1 DEF WorkInit, TicketsAnswered
<1>5. InterviewsAnswered
  <2>1. InterviewTickets = {}
    BY DEF WorkInit, InterviewTickets
  <2> QED
    BY <2>1, FS_EmptySet DEF InterviewsAnswered, WorkInit
<1>6. CreditsLeft
  <2>1. PaidFor = {}
    BY <1>1 DEF PaidFor
  <2>2. Cardinality(PaidFor) = 0 /\ credits = Funds
    BY <2>1, FS_EmptySet DEF WorkInit
  <2> QED
    BY <1>0, <2>2 DEF CreditsLeft
<1> QED
  BY <1>2, <1>3, <1>4, <1>5, <1>6 DEF WorkInv

\* A step of one client before its commit, or its last one.
LEMMA OneWorks ==
  ASSUME WorkInv, NEW c \in Clients, NEW row \in ClientRows,
         client' = [client EXCEPT ![c] = row],
         UNCHANGED <<cvActive, analyses, interviews, outbox, ticket, credits>>,
         claimed' \in [Tickets -> Clients \union {NoTicket}],
         \A d \in Clients \ {c} : \A t \in Tickets : claimed[t] = d => claimed'[t] = d,
         account' \in Clients \union {NoTicket},
         \A d \in Clients \ {c} : account = d => account' = d,
         ClientWell(c)'
  PROVE  WorkInv'
<1>1. WorkTyped /\ client'[c] = row /\ \A d \in Clients \ {c} : client'[d] = client[d]
  BY DEF WorkInv, WorkTyped
<1>2. WorkTyped'
  BY <1>1 DEF WorkTyped
<1>3. ASSUME NEW d \in Clients, d # c PROVE ClientWell(d)'
  <2>1. ClientWell(d) /\ client'[d] = client[d] /\ client[d].op \in Operations
    BY <1>1, <1>3 DEF WorkInv, WorkTyped, ClientRows
  <2>2. client[d].at # "idle" => TicketOf(d) \in Tickets
    BY <2>1 DEF ClientWell, TicketOf, Tickets
  <2>3. TicketOf(d)' = TicketOf(d)
    BY <2>1 DEF TicketOf
  <2>4. client[d].at \in {"check", "reserve", "commit"} => claimed'[TicketOf(d)] = d
    BY <1>3, <2>1, <2>2 DEF ClientWell
  <2> QED
    BY <1>3, <2>1, <2>3, <2>4 DEF ClientWell
<1>4. TicketsAnswered' /\ InterviewsAnswered' /\ CreditsLeft'
  BY DEF WorkInv, TicketsAnswered, InterviewsAnswered, InterviewTickets, CreditsLeft, PaidFor
<1> QED
  BY <1>2, <1>3, <1>4 DEF WorkInv

\* The last attempt is one of the analyses', or none.
LEMMA LastAttemptBounded ==
  ASSUME WorkInv
  PROVE  LastAttempt \in 0 .. Len(analyses)
<1> DEFINE T == {analyses[i].attempt : i \in DOMAIN analyses}
           Right(n) == /\ \A i \in DOMAIN analyses : analyses[i].attempt <= n
                       /\ n # 0 => \E i \in DOMAIN analyses : analyses[i].attempt = n
<1>1. /\ Len(analyses) \in Nat /\ DOMAIN analyses = 1 .. Len(analyses) /\ Len(analyses) <= MaxAnalyses
      /\ MaxAnalyses \in Nat
      /\ \A i \in DOMAIN analyses : analyses[i].attempt \in 1 .. Len(analyses)
  BY OperationPairs DEF WorkInv, WorkTyped
<1>2. \E n \in 0 .. MaxAnalyses : Right(n)
  <2>1. CASE DOMAIN analyses = {}
    BY <1>1, <2>1
  <2>2. CASE DOMAIN analyses # {}
    <3>1. T \subseteq 0 .. Len(analyses) /\ T # {}
      BY <1>1, <2>2
    <3> HIDE DEF T
    <3>2. PICK n \in T : \A m \in T : m <= n
      BY <1>1, <3>1, GreatestNat
    <3>3. n \in 0 .. MaxAnalyses
      BY <1>1, <3>1
    <3> QED
      BY <3>2, <3>3 DEF T
  <2> QED
    BY <2>1, <2>2
<1>3. LastAttempt = CHOOSE n \in 0 .. MaxAnalyses : Right(n)
  BY DEF LastAttempt
<1>4. LastAttempt \in 0 .. MaxAnalyses /\ Right(LastAttempt)
  <2> HIDE DEF Right
  <2> QED
    BY <1>2, <1>3
<1>5. LastAttempt # 0 => \E i \in DOMAIN analyses : analyses[i].attempt = LastAttempt
  BY <1>4
<1> QED
  BY <1>1, <1>4, <1>5

LEMMA RequestsMove ==
  ASSUME WorkInv, NEW c \in Clients,
         \/ Claim(c) \/ CheckCv(c) \/ Reserve(c) \/ UndoWork(c)
         \/ \E op \in Operations, k \in WorkKeys : AskFor(c, op, k)
  PROVE  WorkInv'
<1>0. /\ WorkTyped /\ ClientWell(c) /\ client[c] \in ClientRows /\ client \in [Clients -> ClientRows]
      /\ claimed \in [Tickets -> Clients \union {NoTicket}] /\ account \in Clients \union {NoTicket}
      /\ Len(analyses) \in Nat /\ client[c].op \in Operations /\ client[c].attempt \in Nat
      /\ NoTicket \notin Clients
  <2>1. WorkTyped /\ ClientWell(c)
    BY DEF WorkInv
  <2>2. /\ client \in [Clients -> ClientRows] /\ claimed \in [Tickets -> Clients \union {NoTicket}]
        /\ account \in Clients \union {NoTicket} /\ analyses \in Seq(AnalysisRows)
    BY <2>1 DEF WorkTyped
  <2>3. client[c] \in ClientRows
    BY <2>2
  <2>4. client[c].op \in Operations /\ client[c].attempt \in Nat
    BY <2>3 DEF ClientRows
  <2>5. Len(analyses) \in Nat
    BY <2>2
  <2> QED
    BY <2>1, <2>2, <2>3, <2>4, <2>5, OperationPairs
<1>1. ASSUME UNCHANGED analyses, client' = [client EXCEPT ![c] = NoWork] PROVE ClientWell(c)'
  <2>1. client'[c] = NoWork
    BY <1>0, <1>1
  <2> QED
    BY <1>0, <1>1, <2>1, IdleClient DEF ClientWell
<1>2. ASSUME NEW op \in Operations, NEW k \in WorkKeys, AskFor(c, op, k) PROVE WorkInv'
  <2> DEFINE row == [at |-> "claim", op |-> op, key |-> k, attempt |-> 0]
  <2>1. row \in ClientRows /\ row.at = "claim" /\ row.op = op /\ row.key = k /\ row.attempt = 0
    BY DEF ClientRows
  <2>2. /\ client' = [client EXCEPT ![c] = row]
        /\ UNCHANGED <<cvActive, analyses, interviews, outbox, ticket, claimed, account, credits>>
        /\ op[1] = "retry" => op[2] \in DOMAIN analyses
    BY <1>2 DEF AskFor
  <2>3. op[2] \in 0 .. Len(analyses)
    <3>1. op[1] # "retry" => op[2] = 0
      BY OperationPairs
    <3>2. DOMAIN analyses \subseteq 0 .. Len(analyses)
      BY <1>0 DEF WorkTyped
    <3> QED
      BY <1>0, <2>2, <3>1, <3>2
  <2> HIDE DEF row
  <2>4. client'[c] = row
    BY <1>0, <2>2
  <2>5. ClientWell(c)'
    BY <1>0, <2>1, <2>2, <2>3, <2>4 DEF ClientWell
  <2> QED
    BY <1>0, <2>1, <2>2, <2>5, OneWorks
<1>3. CASE Claim(c) /\ StillFree(c)
  <2> DEFINE row == [client[c] EXCEPT !.at = "check"]
  <2>1. /\ row \in ClientRows /\ row.at = "check" /\ row.op = client[c].op /\ row.key = client[c].key
        /\ row.attempt = client[c].attempt
    BY <1>0 DEF ClientRows
  <2>2. /\ client' = [client EXCEPT ![c] = row] /\ claimed' = [claimed EXCEPT ![TicketOf(c)] = c]
        /\ UNCHANGED <<cvActive, analyses, interviews, outbox, ticket, account, credits>>
        /\ client[c].at = "claim" /\ claimed[TicketOf(c)] = NoTicket /\ ticket[TicketOf(c)] = NoTicket
    BY <1>3 DEF Claim, Doing, MovesTo, StillFree
  <2> HIDE DEF row
  <2>3. client'[c] = row
    BY <1>0, <2>2
  <2>4. TicketOf(c) \in Tickets /\ TicketOf(c)' = TicketOf(c)
    BY <1>0, <2>1, <2>2, <2>3 DEF ClientWell, TicketOf, Tickets
  <2>5. /\ claimed' \in [Tickets -> Clients \union {NoTicket}] /\ claimed'[TicketOf(c)] = c
        /\ \A d \in Clients \ {c} : \A t \in Tickets : claimed[t] = d => claimed'[t] = d
    BY <1>0, <2>2, <2>4
  <2>6. ClientWell(c)'
    BY <1>0, <2>1, <2>2, <2>3, <2>4, <2>5 DEF ClientWell
  <2> QED
    BY <1>0, <2>1, <2>2, <2>5, <2>6, OneWorks
<1>4. CASE Claim(c) /\ ~StillFree(c)
  <2>1. /\ client' = [client EXCEPT ![c] = NoWork]
        /\ UNCHANGED <<cvActive, analyses, interviews, outbox, ticket, claimed, account, credits>>
    BY <1>4 DEF Claim
  <2> QED
    BY <1>0, <1>1, <2>1, IdleClient, OneWorks
<1>5. CASE CheckCv(c)
  <2> DEFINE row == [client[c] EXCEPT !.at = IF client[c].op[1] = "interview" THEN "commit" ELSE "reserve",
                                      !.attempt = IF client[c].op[1] = "retry" THEN LastAttempt + 1 ELSE 1]
  <2>1. /\ client' = [client EXCEPT ![c] = row] /\ client[c].at = "check"
        /\ UNCHANGED <<cvActive, analyses, interviews, outbox, ticket, claimed, account, credits>>
    BY <1>5 DEF CheckCv, Doing
  <2>2. LastAttempt \in 0 .. Len(analyses)
    BY LastAttemptBounded
  <2>3. /\ row \in ClientRows /\ row.op = client[c].op /\ row.key = client[c].key
        /\ row.at = IF client[c].op[1] = "interview" THEN "commit" ELSE "reserve"
        /\ row.attempt \in 1 .. Len(analyses) + 1
    <3> DEFINE attempt == IF client[c].op[1] = "retry" THEN LastAttempt + 1 ELSE 1
               at == IF client[c].op[1] = "interview" THEN "commit" ELSE "reserve"
    <3>1. attempt \in 1 .. Len(analyses) + 1 /\ attempt \in Nat /\ at \in {"commit", "reserve"}
      BY <1>0, <2>2
    <3> HIDE DEF attempt, at
    <3>2. [client[c] EXCEPT !.at = at, !.attempt = attempt] \in ClientRows
      BY <1>0, <3>1 DEF ClientRows
    <3> QED
      BY <1>0, <3>1, <3>2 DEF ClientRows, at, attempt
  <2> HIDE DEF row
  <2>4. client'[c] = row
    BY <1>0, <2>1
  <2>5. TicketOf(c)' = TicketOf(c)
    BY <2>3, <2>4 DEF TicketOf
  <2>6. ClientWell(c)'
    BY <1>0, <2>1, <2>3, <2>4, <2>5 DEF ClientWell
  <2> QED
    BY <1>0, <2>1, <2>3, <2>6, OneWorks
<1>6. CASE Reserve(c)
  <2> DEFINE row == [client[c] EXCEPT !.at = "commit"]
  <2>1. /\ row \in ClientRows /\ row.at = "commit" /\ row.op = client[c].op /\ row.key = client[c].key
        /\ row.attempt = client[c].attempt
    BY <1>0 DEF ClientRows
  <2>2. /\ client' = [client EXCEPT ![c] = row] /\ client[c].at = "reserve"
        /\ UNCHANGED <<cvActive, analyses, interviews, outbox, ticket, claimed, credits>>
        /\ IF Cost = 0 THEN UNCHANGED account ELSE account = NoTicket /\ credits >= Cost /\ account' = c
    BY <1>6 DEF Reserve, Doing, MovesTo
  <2> HIDE DEF row
  <2>3. client'[c] = row
    BY <1>0, <2>2
  <2>4. TicketOf(c)' = TicketOf(c)
    BY <2>1, <2>3 DEF TicketOf
  <2>5. /\ account' \in Clients \union {NoTicket} /\ \A d \in Clients \ {c} : account = d => account' = d
        /\ Cost > 0 => account' = c /\ credits' >= Cost
    BY <1>0, <2>2, OperationPairs
  <2>6. ClientWell(c)'
    BY <1>0, <2>1, <2>2, <2>3, <2>4, <2>5 DEF ClientWell
  <2> QED
    BY <1>0, <2>1, <2>2, <2>5, <2>6, OneWorks
<1>7. CASE UndoWork(c)
  <2>1. /\ client' = [client EXCEPT ![c] = NoWork]
        /\ UNCHANGED <<cvActive, analyses, interviews, outbox, ticket, credits>>
        /\ claimed' = [t \in Tickets |-> IF claimed[t] = c THEN NoTicket ELSE claimed[t]]
        /\ account' = IF account = c THEN NoTicket ELSE account
    BY <1>7 DEF UndoWork, Unclaimed, Unlocked
  <2>2. /\ claimed' \in [Tickets -> Clients \union {NoTicket}]
        /\ \A d \in Clients \ {c} : \A t \in Tickets : claimed[t] = d => claimed'[t] = d
        /\ account' \in Clients \union {NoTicket} /\ \A d \in Clients \ {c} : account = d => account' = d
    BY <1>0, <2>1
  <2> QED
    BY <1>1, <2>1, <2>2, IdleClient, OneWorks
<1> QED
  BY <1>2, <1>3, <1>4, <1>5, <1>6, <1>7

LEMMA ArchiveKeeps ==
  ASSUME WorkInv, ArchiveCv
  PROVE  WorkInv'
BY DEF WorkInv, WorkTyped, ClientWell, TicketOf, TicketsAnswered, InterviewsAnswered, InterviewTickets,
       CreditsLeft, PaidFor, ArchiveCv

\* Who has claimed another record, or has the account, is not disturbed by a commit.
LEMMA OthersKeepWorking ==
  ASSUME WorkInv, NEW c \in Clients, client[c].at = "commit",
         client' = [client EXCEPT ![c] = NoWork],
         claimed' = [t \in Tickets |-> IF claimed[t] = c THEN NoTicket ELSE claimed[t]],
         NEW n, ticket' = [ticket EXCEPT ![TicketOf(c)] = n],
         \/ UNCHANGED <<account, credits>>
         \/ /\ client[c].op[1] # "interview" /\ credits' = credits - Cost
            /\ account' = IF account = c THEN NoTicket ELSE account,
         Len(analyses') \in Nat, Len(analyses') >= Len(analyses)
  PROVE  \A d \in Clients : ClientWell(d)'
<1>0. WorkTyped /\ Len(analyses) \in Nat
  BY DEF WorkInv, WorkTyped
<1>1. client'[c] = NoWork /\ \A d \in Clients \ {c} : client'[d] = client[d]
  BY <1>0 DEF WorkTyped
<1>2. ClientWell(c)'
  BY <1>1, IdleClient DEF ClientWell
<1>3. ASSUME NEW d \in Clients, d # c PROVE ClientWell(d)'
  <2>1. /\ ClientWell(d) /\ ClientWell(c) /\ client'[d] = client[d]
        /\ client[d] \in ClientRows /\ client[c] \in ClientRows
    BY <1>0, <1>1, <1>3 DEF WorkInv, WorkTyped
  <2>2. client[d].op \in Operations /\ client[c].op \in Operations /\ client[d].attempt \in Nat
    BY <2>1 DEF ClientRows
  <2>3. TicketOf(c) \in Tickets /\ (client[d].at # "idle" => TicketOf(d) \in Tickets)
    BY <2>1, <2>2 DEF ClientWell, TicketOf, Tickets
  <2>4. TicketOf(d)' = TicketOf(d)
    BY <2>1 DEF TicketOf
  <2>5. client[d].at \in {"check", "reserve", "commit"} =>
          claimed'[TicketOf(d)] = d /\ ticket'[TicketOf(d)] = NoTicket
    <3> SUFFICES ASSUME client[d].at \in {"check", "reserve", "commit"}
                 PROVE  claimed'[TicketOf(d)] = d /\ ticket'[TicketOf(d)] = NoTicket
      OBVIOUS
    <3>1. claimed[TicketOf(d)] = d /\ ticket[TicketOf(d)] = NoTicket /\ claimed[TicketOf(c)] = c
      BY <2>1 DEF ClientWell
    <3>2. TicketOf(d) # TicketOf(c) /\ TicketOf(d) \in Tickets
      BY <1>3, <2>3, <3>1
    <3> QED
      BY <1>0, <1>3, <3>1, <3>2 DEF WorkTyped
  <2>6. client[d].at = "commit" /\ client[d].op[1] # "interview" /\ Cost > 0 =>
          account' = d /\ credits' >= Cost
    BY <1>3, <2>1, OperationPairs DEF ClientWell
  <2>7. client[d].op[2] \in 0 .. Len(analyses') /\ client[d].attempt <= Len(analyses') + 1
    <3>1. client[d].op[2] \in 0 .. Len(analyses) /\ client[d].attempt <= Len(analyses) + 1
          /\ Len(analyses) \in Nat
      BY <1>0, <2>1 DEF ClientWell, WorkInv
    <3> QED
      BY <2>2, <3>1
  <2> QED
    BY <2>1, <2>4, <2>5, <2>6, <2>7 DEF ClientWell
<1> QED
  BY <1>2, <1>3

LEMMA OnceMore ==
  ASSUME NEW k \in Nat, NEW n \in Nat
  PROVE  k * (n + 1) = k * n + k /\ k * n \in Nat
OBVIOUS

LEMMA PaidForIsFinite ==
  ASSUME WorkInv
  PROVE  IsFiniteSet(PaidFor) /\ Cardinality(PaidFor) \in Nat
<1>1. Len(analyses) \in Nat /\ PaidFor \subseteq 1 .. Len(analyses)
  BY DEF WorkInv, WorkTyped, PaidFor
<1>2. IsFiniteSet(1 .. Len(analyses))
  BY <1>1, FS_Interval
<1> QED
  BY <1>1, <1>2, FS_Subset, FS_CardinalityType

LEMMA CommitAnalysisKeeps ==
  ASSUME WorkInv, NEW c \in Clients, CommitAnalysis(c)
  PROVE  WorkInv'
<1> DEFINE q == client[c]
           n == Len(analyses) + 1
           row == [parent |-> q.op[2], attempt |-> q.attempt, status |-> "queued", held |-> Cost]
           t == TicketOf(c)
<1>0. WorkTyped /\ ClientWell(c) /\ TicketsAnswered /\ InterviewsAnswered /\ CreditsLeft /\ q \in ClientRows
  BY DEF WorkInv, WorkTyped
<1>1. /\ q.at = "commit" /\ q.op[1] # "interview" /\ Len(analyses) < MaxAnalyses
      /\ analyses' = Append(analyses, row)
      /\ outbox' = outbox \union {n}
      /\ credits' = credits - Cost
      /\ ticket' = [ticket EXCEPT ![t] = n]
      /\ client' = [client EXCEPT ![c] = NoWork]
      /\ claimed' = [u \in Tickets |-> IF claimed[u] = c THEN NoTicket ELSE claimed[u]]
      /\ account' = IF account = c THEN NoTicket ELSE account
      /\ UNCHANGED <<cvActive, interviews>>
  BY DEF CommitAnalysis, Doing, Unclaimed, Unlocked
<1>2. /\ MaxAnalyses \in Nat /\ Cost \in Nat /\ Funds \in Nat /\ NoTicket \notin Nat /\ NoTicket \notin Clients
      /\ analyses \in Seq(AnalysisRows) /\ Len(analyses) \in Nat /\ credits \in Nat
  BY <1>0, OperationPairs DEF WorkTyped
<1>3. /\ q.op \in Operations /\ q.key \in WorkKeys /\ q.op[2] \in 0 .. Len(analyses)
      /\ q.attempt \in 1 .. n /\ ticket[t] = NoTicket /\ credits >= Cost
  <2>1. q.op \in Operations /\ q.attempt \in Nat
    BY <1>0 DEF ClientRows
  <2>2. /\ q.key \in WorkKeys /\ q.op[2] \in 0 .. Len(analyses) /\ q.attempt <= n /\ q.attempt >= 1
        /\ ticket[t] = NoTicket /\ (Cost > 0 => credits >= Cost)
    BY <1>0, <1>1 DEF ClientWell
  <2> HIDE DEF q, t
  <2> QED
    BY <1>2, <2>1, <2>2
<1>4. t \in Tickets /\ t[1][1] # "interview"
  BY <1>1, <1>3 DEF TicketOf, Tickets
<1>5. /\ row \in AnalysisRows /\ row.parent = q.op[2] /\ row.attempt = q.attempt
      /\ row.status = "queued" /\ row.held = Cost
  BY <1>2, <1>3 DEF AnalysisRows
<1> HIDE DEF row, t, q
<1>6. /\ analyses' \in Seq(AnalysisRows) /\ Len(analyses') = n /\ DOMAIN analyses' = DOMAIN analyses \union {n}
      /\ n \notin DOMAIN analyses /\ n \in Nat /\ n <= MaxAnalyses /\ analyses'[n] = row
      /\ \A i \in DOMAIN analyses : analyses'[i] = analyses[i]
  BY <1>1, <1>2, <1>5
<1>7. credits' \in Nat
  BY <1>1, <1>2, <1>3
<1>8. ticket' \in [Tickets -> Nat \union {NoTicket}] /\ ticket'[t] = n
      /\ \A u \in Tickets : u # t => ticket'[u] = ticket[u]
  BY <1>0, <1>1, <1>4, <1>6 DEF WorkTyped
<1>9. n - 1 = Len(analyses)
  BY <1>2
<1> HIDE DEF n
<1>10. WorkTyped'
  <2>1. /\ client' \in [Clients -> ClientRows] /\ claimed' \in [Tickets -> Clients \union {NoTicket}]
        /\ account' \in Clients \union {NoTicket}
    BY <1>0, <1>1, IdleClient DEF WorkTyped
  <2>2. ASSUME NEW i \in DOMAIN analyses'
        PROVE  /\ analyses'[i].parent \in 0 .. i - 1 /\ analyses'[i].attempt \in 1 .. i
               /\ analyses'[i].status = "queued" => analyses'[i].held = Cost
    <3>1. CASE i = n
      BY <1>3, <1>5, <1>6, <1>9, <3>1
    <3>2. CASE i # n
      BY <1>0, <1>6, <3>2 DEF WorkTyped
    <3> QED
      BY <3>1, <3>2
  <2>3. outbox' = DOMAIN analyses'
    BY <1>0, <1>1, <1>6 DEF WorkTyped
  <2> QED
    BY <1>0, <1>1, <1>6, <1>7, <1>8, <2>1, <2>2, <2>3 DEF WorkTyped
<1>11. \A d \in Clients : ClientWell(d)'
  <2>1. Len(analyses') \in Nat /\ Len(analyses') >= Len(analyses)
    BY <1>2, <1>6, <1>9
  <2> QED
    BY <1>1, <2>1, OthersKeepWorking DEF q, t
<1>12. TicketsAnswered'
  <2>1. \A u \in Tickets :
          u[1][1] # "interview" /\ ticket'[u] # NoTicket => ticket'[u] \in DOMAIN analyses'
    BY <1>0, <1>6, <1>8 DEF TicketsAnswered
  <2>2. ASSUME NEW i \in DOMAIN analyses' PROVE \E u \in Tickets : u[1][1] # "interview" /\ ticket'[u] = i
    <3>1. CASE i = n
      BY <1>4, <1>8, <3>1
    <3>2. CASE i # n
      <4>1. PICK u \in Tickets : u[1][1] # "interview" /\ ticket[u] = i
        BY <1>0, <1>6, <3>2 DEF TicketsAnswered
      <4>2. u # t
        <5>1. i \in Nat
          BY <1>0, <1>6, <3>2 DEF WorkTyped
        <5> QED
          BY <1>2, <1>3, <4>1, <5>1
      <4> QED
        BY <1>8, <4>1, <4>2
    <3> QED
      BY <3>1, <3>2
  <2>3. ASSUME NEW u \in Tickets, NEW w \in Tickets, u[1][1] # "interview", w[1][1] # "interview",
               ticket'[u] = ticket'[w], ticket'[u] # NoTicket
        PROVE  u = w
    <3>1. \A x \in Tickets : x # t /\ x[1][1] # "interview" => ticket'[x] # n
      BY <1>0, <1>2, <1>6, <1>8 DEF TicketsAnswered
    <3> QED
      BY <1>0, <1>8, <2>3, <3>1 DEF TicketsAnswered
  <2> QED
    BY <2>1, <2>2, <2>3 DEF TicketsAnswered
<1>13. InterviewsAnswered'
  <2>1. InterviewTickets' = InterviewTickets
    BY <1>4, <1>8 DEF InterviewTickets
  <2> QED
    BY <1>0, <1>1, <2>1 DEF InterviewsAnswered
<1>14. CreditsLeft'
  <2>1. PaidFor' = PaidFor \union {n} /\ n \notin PaidFor
    BY <1>5, <1>6 DEF PaidFor
  <2>2. Cardinality(PaidFor') = Cardinality(PaidFor) + 1 /\ Cardinality(PaidFor) \in Nat
    BY <2>1, PaidForIsFinite, OneMore
  <2> DEFINE m == Cardinality(PaidFor)
  <2>3. credits + Cost * m = Funds /\ Cardinality(PaidFor') = m + 1 /\ m \in Nat
    BY <1>0, <2>2 DEF CreditsLeft
  <2> HIDE DEF m
  <2>4. Cost * (m + 1) = Cost * m + Cost /\ Cost * m \in Nat
    BY <1>2, <2>3, OnceMore
  <2> DEFINE p == Cost * m
             r == Cost * (m + 1)
  <2>5. credits' + r = Funds
    <3>1. credits + p = Funds /\ r = p + Cost /\ p \in Nat
      BY <2>3, <2>4
    <3> HIDE DEF p, r
    <3> QED
      BY <1>1, <1>2, <3>1
  <2> QED
    BY <2>3, <2>5 DEF CreditsLeft
<1> QED
  BY <1>10, <1>11, <1>12, <1>13, <1>14 DEF WorkInv

LEMMA CommitInterviewKeeps ==
  ASSUME WorkInv, NEW c \in Clients, CommitInterview(c)
  PROVE  WorkInv'
<1> DEFINE t == TicketOf(c)
           n == interviews + 1
<1>0. WorkTyped /\ ClientWell(c) /\ TicketsAnswered /\ InterviewsAnswered /\ CreditsLeft /\ client[c] \in ClientRows
  BY DEF WorkInv, WorkTyped
<1>1. /\ client[c].at = "commit" /\ client[c].op[1] = "interview" /\ interviews < MaxInterviews
      /\ interviews' = n
      /\ ticket' = [ticket EXCEPT ![t] = n]
      /\ client' = [client EXCEPT ![c] = NoWork]
      /\ claimed' = [u \in Tickets |-> IF claimed[u] = c THEN NoTicket ELSE claimed[u]]
      /\ UNCHANGED <<cvActive, analyses, outbox, account, credits>>
  BY DEF CommitInterview, Doing, Unclaimed
<1>2. /\ MaxInterviews \in Nat /\ NoTicket \notin Nat /\ NoTicket \notin Clients /\ Len(analyses) \in Nat
      /\ interviews \in 0 .. MaxInterviews
  BY <1>0, OperationPairs DEF WorkTyped
<1>3. t \in Tickets /\ t[1][1] = "interview" /\ ticket[t] = NoTicket
  <2>1. client[c].op \in Operations
    BY <1>0 DEF ClientRows
  <2>2. client[c].key \in WorkKeys /\ ticket[t] = NoTicket
    BY <1>0, <1>1 DEF ClientWell
  <2> QED
    BY <1>1, <2>1, <2>2 DEF TicketOf, Tickets
<1>4. n \in 0 .. MaxInterviews /\ n \in Nat /\ n # NoTicket
  BY <1>1, <1>2
<1>5. \A d \in Clients : ClientWell(d)'
  <2>1. Len(analyses') \in Nat /\ Len(analyses') >= Len(analyses)
    BY <1>1, <1>2
  <2> HIDE DEF n
  <2> QED
    BY <1>1, <2>1, OthersKeepWorking
<1> HIDE DEF t
<1>6. /\ ticket' \in [Tickets -> Nat \union {NoTicket}] /\ ticket'[t] = n
      /\ \A u \in Tickets : u # t => ticket'[u] = ticket[u]
  BY <1>0, <1>1, <1>3, <1>4 DEF WorkTyped
<1>7. WorkTyped'
  BY <1>0, <1>1, <1>4, <1>6, IdleClient DEF WorkTyped
<1>8. TicketsAnswered'
  <2>1. \A u \in Tickets : u[1][1] # "interview" => ticket'[u] = ticket[u]
    BY <1>3, <1>6
  <2> QED
    BY <1>0, <1>1, <2>1 DEF TicketsAnswered
<1>9. InterviewsAnswered'
  <2>1. InterviewTickets' = InterviewTickets \union {t} /\ t \notin InterviewTickets
    BY <1>3, <1>4, <1>6 DEF InterviewTickets
  <2> QED
    BY <1>0, <1>1, <2>1, OneMore DEF InterviewsAnswered
<1>10. CreditsLeft'
  BY <1>0, <1>1 DEF CreditsLeft, PaidFor
<1> QED
  BY <1>5, <1>7, <1>8, <1>9, <1>10 DEF WorkInv

LEMMA EndAnalysisKeeps ==
  ASSUME WorkInv, NEW i \in DOMAIN analyses, EndAnalysis(i)
  PROVE  WorkInv'
<1>0. WorkTyped /\ TicketsAnswered /\ InterviewsAnswered /\ CreditsLeft /\ \A c \in Clients : ClientWell(c)
  BY DEF WorkInv
<1>1. PICK outcome \in {"completed", "failed"} :
        /\ analyses[i].status = "queued"
        /\ analyses' = [analyses EXCEPT ![i].status = outcome, ![i].held = 0]
        /\ credits' = IF outcome = "failed" THEN credits + analyses[i].held ELSE credits
        /\ UNCHANGED <<cvActive, interviews, outbox, ticket, claimed, client, account>>
  BY DEF EndAnalysis
<1> DEFINE row == [analyses[i] EXCEPT !.status = outcome, !.held = 0]
<1>2. /\ analyses \in Seq(AnalysisRows) /\ analyses[i] \in AnalysisRows /\ analyses[i].held = Cost
      /\ Cost \in Nat /\ Funds \in Nat /\ credits \in Nat
  BY <1>0, <1>1, OperationPairs DEF WorkTyped
<1>3. /\ row \in AnalysisRows /\ row.parent = analyses[i].parent /\ row.attempt = analyses[i].attempt
      /\ row.status = outcome
  BY <1>2 DEF AnalysisRows
<1>4. analyses' = [analyses EXCEPT ![i] = row]
  BY <1>1
<1> HIDE DEF row
<1>5. /\ analyses' \in Seq(AnalysisRows) /\ Len(analyses') = Len(analyses) /\ DOMAIN analyses' = DOMAIN analyses
      /\ analyses'[i] = row /\ \A j \in DOMAIN analyses : j # i => analyses'[j] = analyses[j]
  BY <1>2, <1>3, <1>4
<1>6. WorkTyped'
  <2>1. credits' \in Nat
    BY <1>1, <1>2
  <2>2. ASSUME NEW j \in DOMAIN analyses'
        PROVE  /\ analyses'[j].parent \in 0 .. j - 1 /\ analyses'[j].attempt \in 1 .. j
               /\ analyses'[j].status = "queued" => analyses'[j].held = Cost
    <3>1. CASE j = i
      BY <1>0, <1>3, <1>5, <3>1 DEF WorkTyped
    <3>2. CASE j # i
      BY <1>0, <1>5, <3>2 DEF WorkTyped
    <3> QED
      BY <3>1, <3>2
  <2> QED
    BY <1>0, <1>1, <1>5, <2>1, <2>2 DEF WorkTyped
<1>7. ASSUME NEW c \in Clients PROVE ClientWell(c)'
  <2>1. credits' \in Nat /\ credits' >= credits
    BY <1>1, <1>2
  <2>2. credits >= Cost => credits' >= Cost
    BY <1>2, <2>1
  <2> QED
    BY <1>0, <1>1, <1>5, <2>2 DEF ClientWell, TicketOf
<1>8. TicketsAnswered' /\ InterviewsAnswered'
  BY <1>0, <1>1, <1>5 DEF TicketsAnswered, InterviewsAnswered, InterviewTickets
<1>9. CreditsLeft'
  <2>1. CASE outcome = "completed"
    <3>1. PaidFor' = PaidFor /\ credits' = credits
      BY <1>1, <1>3, <1>5, <2>1 DEF PaidFor
    <3> QED
      BY <1>0, <3>1 DEF CreditsLeft
  <2>2. CASE outcome = "failed"
    <3>1. PaidFor = PaidFor' \union {i} /\ i \notin PaidFor'
      BY <1>1, <1>3, <1>5, <2>2 DEF PaidFor
    <3>2. IsFiniteSet(PaidFor')
      BY <3>1, PaidForIsFinite, FS_Subset
    <3> DEFINE m == Cardinality(PaidFor')
    <3>3. Cardinality(PaidFor) = m + 1 /\ m \in Nat
      BY <3>1, <3>2, OneMore
    <3>4. credits + Cost * (m + 1) = Funds
      BY <1>0, <3>3 DEF CreditsLeft
    <3>5. credits' = credits + Cost
      BY <1>1, <1>2, <2>2
    <3> HIDE DEF m
    <3>6. Cost * (m + 1) = Cost * m + Cost /\ Cost * m \in Nat
      BY <1>2, <3>3, OnceMore
    <3> DEFINE p == Cost * m
               r == Cost * (m + 1)
    <3>7. credits' + p = Funds
      <4>1. credits + r = Funds /\ r = p + Cost /\ p \in Nat
        BY <3>4, <3>6
      <4> HIDE DEF p, r
      <4> QED
        BY <1>2, <3>5, <4>1
    <3> QED
      BY <3>7 DEF CreditsLeft, m
  <2> QED
    BY <2>1, <2>2
<1> QED
  BY <1>6, <1>7, <1>8, <1>9 DEF WorkInv

LEMMA WorkKeeps ==
  ASSUME WorkInv, [WorkNext]_workVars
  PROVE  WorkInv'
<1>1. CASE WorkNext
  BY <1>1, RequestsMove, ArchiveKeeps, CommitAnalysisKeeps, CommitInterviewKeeps, EndAnalysisKeeps DEF WorkNext
<1>2. CASE UNCHANGED workVars
  <2>1. UNCHANGED <<cvActive, analyses, interviews, outbox, ticket, claimed, client, account, credits>>
    BY <1>2 DEF workVars
  <2> QED
    BY <2>1 DEF WorkInv, WorkTyped, ClientWell, TicketOf, TicketsAnswered, InterviewsAnswered,
                InterviewTickets, CreditsLeft, PaidFor
<1> QED
  BY <1>1, <1>2

LEMMA WorkInvMeans ==
  ASSUME WorkInv
  PROVE  WorkTypeOK /\ WorkIsPaidOnce
<1>0. /\ WorkTyped /\ TicketsAnswered /\ InterviewsAnswered /\ CreditsLeft
      /\ \A c \in Clients : ClientWell(c)
      /\ MaxAnalyses \in Nat /\ Cost \in Nat /\ Funds \in Nat /\ NoTicket \notin Nat
  BY OperationPairs DEF WorkInv
<1>1. /\ Len(analyses) \in Nat /\ Len(analyses) <= MaxAnalyses /\ credits \in Nat
      /\ DOMAIN analyses = 1 .. Len(analyses)
      /\ \A i \in DOMAIN analyses : analyses[i] \in AnalysisRows
  BY <1>0 DEF WorkTyped
<1>2. credits + Cost * Cardinality(PaidFor) = Funds /\ Cardinality(PaidFor) \in Nat
  BY <1>0, PaidForIsFinite DEF CreditsLeft
<1>3. credits \in 0 .. Funds
  <2> DEFINE p == Cost * Cardinality(PaidFor)
  <2>1. p \in Nat
    BY <1>0, <1>2, OnceMore
  <2>2. credits + p = Funds
    BY <1>2
  <2> HIDE DEF p
  <2> QED
    BY <1>0, <1>1, <2>1, <2>2
<1>4. WorkTypeOK
  <2>1. ASSUME NEW i \in DOMAIN analyses
        PROVE  /\ analyses[i].parent \in 0 .. (i - 1) /\ analyses[i].attempt \in 1 .. MaxAnalyses
               /\ analyses[i].status \in {"queued", "completed", "failed"}
               /\ analyses[i].held \in {0, Cost}
    <3>1. analyses[i] \in AnalysisRows
      BY <1>1
    <3>2. analyses[i].status \in {"queued", "completed", "failed"} /\ analyses[i].held \in {0, Cost}
      BY <3>1 DEF AnalysisRows
    <3>3. analyses[i].parent \in 0 .. (i - 1) /\ analyses[i].attempt \in 1 .. i
      BY <1>0 DEF WorkTyped
    <3> QED
      BY <1>0, <1>1, <3>2, <3>3
  <2>2. ASSUME NEW c \in Clients
        PROVE  /\ client[c].at \in {"idle", "claim", "check", "reserve", "commit"}
               /\ client[c].op \in Operations /\ client[c].key \in WorkKeys \union {NoTicket}
               /\ client[c].attempt \in 0 .. MaxAnalyses + 1
    <3>1. client[c] \in ClientRows /\ client[c].attempt <= Len(analyses) + 1
      BY <1>0 DEF WorkTyped, ClientWell
    <3>2. /\ client[c].at \in {"idle", "claim", "check", "reserve", "commit"}
          /\ client[c].op \in Operations /\ client[c].key \in WorkKeys \union {NoTicket}
          /\ client[c].attempt \in Nat
      BY <3>1 DEF ClientRows
    <3> QED
      BY <1>0, <1>1, <3>1, <3>2
  <2> QED
    BY <1>0, <1>3, <2>1, <2>2 DEF WorkTypeOK, WorkTyped
<1>5. WorkIsPaidOnce
  <2>1. ASSUME NEW i \in DOMAIN analyses
        PROVE  Cardinality({t \in Tickets : t[1][1] # "interview" /\ ticket[t] = i}) = 1
    <3>1. i # NoTicket
      BY <1>0, <1>1
    <3>2. PICK t \in Tickets : t[1][1] # "interview" /\ ticket[t] = i
      BY <1>0 DEF TicketsAnswered
    <3>3. {u \in Tickets : u[1][1] # "interview" /\ ticket[u] = i} = {t}
      BY <1>0, <3>1, <3>2 DEF TicketsAnswered
    <3> QED
      BY <3>3, FS_Singleton
  <2>2. AnalysesEnded("queued") \union AnalysesEnded("completed") = PaidFor
    BY DEF AnalysesEnded, PaidFor
  <2>3. interviews = Cardinality({t \in Tickets : t[1][1] = "interview" /\ ticket[t] # NoTicket})
    BY <1>0 DEF InterviewsAnswered, InterviewTickets
  <2> QED
    BY <1>0, <1>2, <2>1, <2>2, <2>3 DEF WorkIsPaidOnce, WorkTyped
<1> QED
  BY <1>4, <1>5

-----------------------------------------------------------------------------
(* The rollout of models.                                                  *)

ModelRows == [status : {"none", "draft", "active", "canary", "retired"}, share : Shares \union {0}]
RolloutCalls == [at : {"none", "locked", "found"}, id : Configurations \union {0},
                 share : Shares \union {0}, found : SUBSET Configurations]

RolloutTyped ==
  /\ model \in [Configurations -> ModelRows]
  /\ reports \subseteq Configurations \X {"passed", "failed"}
  /\ rollout \in [Admins -> RolloutCalls]

\* The share of a row follows from its status; what is deployed has passed.
SharesFit(written) ==
  \A c \in Configurations :
    /\ written[c].share = IF written[c].status = "active" THEN 100
                       ELSE IF written[c].status = "canary" THEN 50 ELSE 0
    /\ written[c].status \in {"active", "canary"} => <<c, "passed">> \in reports

\* One active row and one canary at most, and no canary alone.
OneOfEach(written) ==
  \A c, d \in Configurations :
    written[c].status = written[d].status /\ written[c].status \in {"active", "canary"} => c = d

BaselineServes(written) ==
  (\E c \in Configurations : written[c].status = "canary") =>
    \E b \in Configurations : written[b].status = "active"

CallsHavePassed ==
  \A a \in Admins : rollout[a].at # "none" =>
    rollout[a].id \in Configurations /\ rollout[a].share \in Shares /\ <<rollout[a].id, "passed">> \in reports

RolloutInv ==
  /\ RolloutTyped /\ SharesFit(model) /\ OneOfEach(model) /\ BaselineServes(model)
  /\ CallsHavePassed

LEMMA RolloutStarts ==
  ASSUME RolloutInit
  PROVE  RolloutInv
<1>1. \A c \in Configurations : model[c] = [status |-> "none", share |-> 0]
  BY DEF RolloutInit
<1>2. RolloutTyped
  BY DEF RolloutInit, RolloutTyped, ModelRows, RolloutCalls, NotCalling
<1>3. SharesFit(model) /\ OneOfEach(model) /\ BaselineServes(model)
  BY <1>1 DEF SharesFit, OneOfEach, BaselineServes
<1>4. CallsHavePassed
  BY DEF RolloutInit, CallsHavePassed, NotCalling
<1> QED
  BY <1>2, <1>3, <1>4 DEF RolloutInv

\* A finite set of numbers has an upper bound.
LEMMA FiniteIsBounded ==
  ASSUME NEW S, S \subseteq Nat, IsFiniteSet(S)
  PROVE  \E b \in Nat : S \subseteq 0 .. b
<1>0. PICK n \in Nat : ExistsSurjection(1 .. n, S)
  BY FS_NatSurjection
<1>1. PICK f \in [1 .. n -> S] : \A x \in S : \E i \in 1 .. n : f[i] = x
  BY <1>0 DEF ExistsSurjection, Surjection
<1> DEFINE U == {k \in 0 .. n : \A b \in Nat : \E i \in 1 .. k : f[i] > b}
<1>2. U = {}
  <2> SUFFICES ASSUME U # {} PROVE FALSE
    OBVIOUS
  <2>1. U \subseteq Nat
    BY <1>1
  <2> HIDE DEF U
  <2>2. PICK k \in U : \A l \in U : k <= l
    BY <2>1, LeastNat
  <2>3. k \in 0 .. n /\ \A b \in Nat : \E i \in 1 .. k : f[i] > b
    BY <2>2 DEF U
  <2>4. k # 0
    <3> SUFFICES ASSUME k = 0 PROVE FALSE
      OBVIOUS
    <3>1. \E i \in 1 .. k : f[i] > 0
      BY <2>3
    <3> QED
      BY <3>1
  <2>5. k - 1 \in 0 .. n /\ k - 1 \notin U /\ k \in 1 .. n
    BY <2>2, <2>3, <2>4
  <2>6. PICK b \in Nat : \A i \in 1 .. k - 1 : ~(f[i] > b)
    BY <2>5 DEF U
  <2>7. f[k] \in Nat
    BY <1>1, <2>5
  <2>8. PICK c \in Nat : c >= b /\ c >= f[k]
    <3>1. CASE f[k] >= b
      BY <2>7, <3>1
    <3>2. CASE ~(f[k] >= b)
      BY <2>7, <3>2
    <3> QED
      BY <3>1, <3>2
  <2>9. PICK i \in 1 .. k : f[i] > c
    BY <2>3
  <2>10. f[i] \in Nat /\ (i = k \/ i \in 1 .. k - 1)
    <3>1. i \in 1 .. n /\ (i = k \/ i \in 1 .. k - 1)
      BY <1>0, <2>3, <2>5, <2>9
    <3> QED
      BY <1>1, <3>1
  <2> QED
    BY <2>6, <2>7, <2>8, <2>9, <2>10
<1>3. PICK b \in Nat : \A i \in 1 .. n : ~(f[i] > b)
  <2>1. n \notin U
    BY <1>2
  <2>2. n \in 0 .. n
    BY <1>0
  <2> QED
    BY <2>1, <2>2
<1>4. ASSUME NEW x \in S PROVE x \in 0 .. b
  <2>1. PICK i \in 1 .. n : f[i] = x
    BY <1>1
  <2>2. x \in Nat /\ ~(x > b)
    BY <1>3, <2>1
  <2> QED
    BY <2>2
<1> QED
  BY <1>4

\* Two elements make two.
LEMMA AtMostOne ==
  ASSUME NEW S, IsFiniteSet(S), ~(Cardinality(S) > 1), NEW x \in S, NEW y \in S
  PROVE  x = y
<1> SUFFICES ASSUME x # y PROVE FALSE
  OBVIOUS
<1>1. IsFiniteSet({x}) /\ Cardinality({x}) = 1
  BY FS_Singleton
<1>2. IsFiniteSet({x} \union {y}) /\ Cardinality({x} \union {y}) = 2
  <2>1. y \notin {x}
    OBVIOUS
  <2>2. IsFiniteSet({x} \union {y}) /\ Cardinality({x} \union {y}) = Cardinality({x}) + 1
    BY <1>1, <2>1, OneMore
  <2> QED
    BY <1>1, <2>2
<1>3. Cardinality({x} \union {y}) <= Cardinality(S) /\ Cardinality(S) \in Nat
  BY <1>2, FS_Subset, FS_CardinalityType
<1> QED
  BY <1>2, <1>3

\* The indexes are checked with the last row too, so what they let pass is in order.
LEMMA IndexesHold ==
  ASSUME NEW a \in Admins, ~HitsIndex(a), RolledOut(a) \in [Configurations -> ModelRows]
  PROVE  OneOfEach(RolledOut(a))
<1> DEFINE new == RolledOut(a)
<1> SUFFICES ASSUME NEW c \in Configurations, NEW d \in Configurations,
                    new[c].status = new[d].status, new[c].status \in {"active", "canary"}
             PROVE  c = d
  BY DEF OneOfEach
<1>1. Configurations \subseteq Nat /\ IsFiniteSet(Configurations) /\ Configurations # {}
  BY RolloutAssumption
<1>2. PICK b \in Nat : Configurations \subseteq 0 .. b
  BY <1>1, FiniteIsBounded
<1>3. PICK last \in Configurations : \A e \in Configurations : e <= last
  BY <1>1, <1>2, GreatestNat
<1> DEFINE written == [e \in Configurations |-> IF e <= last THEN RolledOut(a)[e] ELSE model[e]]
<1>4. ~(Cardinality(With(written, "active")) > 1) /\ ~(Cardinality(With(written, "canary")) > 1)
  BY DEF HitsIndex
<1>5. written = new
  BY <1>3
<1> HIDE DEF written, new
<1>6. \A s : With(new, s) \subseteq Configurations
  BY DEF With
<1>7. \A s : IsFiniteSet(With(new, s))
  BY <1>1, <1>6, FS_Subset
<1> DEFINE s == new[c].status
<1>8. c \in With(new, s) /\ d \in With(new, s)
  BY DEF With
<1>9. ~(Cardinality(With(new, s)) > 1)
  BY <1>4, <1>5
<1> HIDE DEF s
<1> QED
  BY <1>7, <1>8, <1>9, AtMostOne

\* A step of one call that changes no row.
LEMMA CallMoves ==
  ASSUME RolloutInv, NEW a \in Admins, NEW row \in RolloutCalls,
         rollout' = [rollout EXCEPT ![a] = row], UNCHANGED <<model, reports>>,
         row.at # "none" =>
           row.id \in Configurations /\ row.share \in Shares /\ <<row.id, "passed">> \in reports
  PROVE  RolloutInv'
<1>1. RolloutTyped'
  BY DEF RolloutInv, RolloutTyped
<1>2. CallsHavePassed'
  BY DEF RolloutInv, RolloutTyped, CallsHavePassed
<1> QED
  BY <1>1, <1>2 DEF RolloutInv, SharesFit, OneOfEach, BaselineServes

LEMMA IdleCall ==
  NotCalling \in RolloutCalls /\ NotCalling.at = "none"
BY DEF NotCalling, RolloutCalls

LEMMA ActivateKeeps ==
  ASSUME RolloutInv, NEW a \in Admins, Activate(a)
  PROVE  RolloutInv'
<1> DEFINE new == RolledOut(a)
           id == rollout[a].id
           share == rollout[a].share
<1>0. RolloutTyped /\ SharesFit(model) /\ OneOfEach(model) /\ BaselineServes(model) /\ CallsHavePassed
  BY DEF RolloutInv
<1>1. rollout[a].at = "found" /\ rollout' = [rollout EXCEPT ![a] = NotCalling] /\ UNCHANGED reports
  BY DEF Activate
<1>2. id \in Configurations /\ share \in {50, 100} /\ <<id, "passed">> \in reports
  BY <1>0, <1>1 DEF CallsHavePassed, Shares
<1>3. CASE UNCHANGED model
  BY <1>1, <1>3, IdleCall, CallMoves
<1>4. CASE model' = new /\ ~HitsIndex(a) /\ ~(share < 100 /\ ~HasBaseline(a))
  <2>1. \A c \in Configurations :
          new[c] = IF c = id THEN [status |-> IF share = 100 THEN "active" ELSE "canary", share |-> share]
                   ELSE IF c \in Retired(a) THEN [status |-> "retired", share |-> 0]
                   ELSE model[c]
    BY DEF RolledOut, Retired, RetiredShare
  <2>2. new \in [Configurations -> ModelRows]
    <3>1. \A c \in Configurations : new[c] \in ModelRows
      BY <1>0, <1>2, <2>1 DEF RolloutTyped, ModelRows, Shares
    <3>2. new = [c \in Configurations |-> new[c]]
      BY DEF RolledOut
    <3> HIDE DEF new
    <3> QED
      BY <3>1, <3>2
  <2>3. OneOfEach(new)
    BY <1>4, <2>2, IndexesHold
  <2>4. share = 50 => \E b \in Configurations : b # id /\ model[b].status = "active"
    BY <1>2, <1>4 DEF HasBaseline, StillDeployed, Deployed
  <2>5. \A c \in Retired(a) : share = 100 \/ model[c].status = "canary"
    BY DEF Retired
  <2> HIDE DEF new, id, share
  <2>6. SharesFit(new)
    <3> SUFFICES ASSUME NEW c \in Configurations
                 PROVE  /\ new[c].share = IF new[c].status = "active" THEN 100
                                          ELSE IF new[c].status = "canary" THEN 50 ELSE 0
                        /\ new[c].status \in {"active", "canary"} => <<c, "passed">> \in reports
      BY DEF SharesFit
    <3>1. CASE c = id
      BY <1>2, <2>1, <3>1
    <3>2. CASE c # id /\ c \in Retired(a)
      BY <2>1, <3>2
    <3>3. CASE c # id /\ c \notin Retired(a)
      BY <1>0, <2>1, <3>3 DEF SharesFit
    <3> QED
      BY <3>1, <3>2, <3>3
  <2>7. BaselineServes(new)
    <3>1. CASE share = 100
      BY <1>2, <2>1, <3>1 DEF BaselineServes
    <3>2. CASE share = 50
      <4>1. PICK b \in Configurations : b # id /\ model[b].status = "active"
        BY <2>4, <3>2
      <4>2. new[b] = model[b]
        BY <2>1, <2>5, <3>2, <4>1
      <4> QED
        BY <4>1, <4>2 DEF BaselineServes
    <3> QED
      BY <1>2, <3>1, <3>2
  <2>8. RolloutTyped' /\ CallsHavePassed'
    BY <1>0, <1>1, <1>4, <2>2, IdleCall DEF RolloutTyped, CallsHavePassed
  <2>9. SharesFit(model)' /\ OneOfEach(model)' /\ BaselineServes(model)'
    BY <1>1, <1>4, <2>3, <2>6, <2>7 DEF SharesFit, OneOfEach, BaselineServes
  <2> QED
    BY <2>8, <2>9 DEF RolloutInv
<1> QED
  BY <1>3, <1>4 DEF Activate

LEMMA RolloutKeeps ==
  ASSUME RolloutInv, [RolloutNext]_rolloutVars
  PROVE  RolloutInv'
<1>0. RolloutTyped /\ CallsHavePassed
  BY DEF RolloutInv
<1>1. ASSUME NEW c \in Configurations, CreateConfiguration(c) PROVE RolloutInv'
  <2> DEFINE row == [model[c] EXCEPT !.status = "draft"]
  <2>1. /\ model[c].status = "none" /\ model' = [model EXCEPT ![c] = row] /\ UNCHANGED <<reports, rollout>>
    BY <1>1 DEF CreateConfiguration
  <2>2. row \in ModelRows /\ row.status = "draft" /\ row.share = model[c].share
    BY <1>0 DEF RolloutTyped, ModelRows
  <2> HIDE DEF row
  <2>3. model' \in [Configurations -> ModelRows] /\ model'[c] = row
        /\ \A d \in Configurations : d # c => model'[d] = model[d]
    BY <1>0, <2>1, <2>2 DEF RolloutTyped
  <2>4. RolloutTyped' /\ CallsHavePassed'
    BY <1>0, <2>1, <2>3 DEF RolloutTyped, CallsHavePassed
  <2>5. SharesFit(model)'
    BY <2>1, <2>2, <2>3 DEF RolloutInv, SharesFit
  <2>6. OneOfEach(model)'
    BY <2>2, <2>3 DEF RolloutInv, OneOfEach
  <2>7. BaselineServes(model)'
    BY <2>1, <2>2, <2>3 DEF RolloutInv, BaselineServes
  <2> QED
    BY <2>4, <2>5, <2>6, <2>7 DEF RolloutInv
<1>2. ASSUME NEW c \in Configurations, NEW verdict \in {"passed", "failed"}, CreateReport(c, verdict)
      PROVE  RolloutInv'
  BY <1>2 DEF CreateReport, RolloutInv, RolloutTyped, CallsHavePassed, SharesFit, OneOfEach, BaselineServes
<1>3. ASSUME NEW a \in Admins, NEW c \in Configurations, NEW share \in Shares, LockRecord(a, c, share)
      PROVE  RolloutInv'
  <2> DEFINE row == [NotCalling EXCEPT !.at = "locked", !.id = c, !.share = share]
  <2>1. row \in RolloutCalls /\ row.id = c /\ row.share = share
    BY DEF NotCalling, RolloutCalls
  <2>2. <<c, "passed">> \in reports /\ rollout' = [rollout EXCEPT ![a] = row] /\ UNCHANGED <<model, reports>>
    BY <1>3 DEF LockRecord
  <2> HIDE DEF row
  <2> QED
    BY <2>1, <2>2, CallMoves
<1>4. ASSUME NEW a \in Admins, FindDeployed(a) PROVE RolloutInv'
  <2> DEFINE row == [rollout[a] EXCEPT !.at = "found", !.found = Deployed]
  <2>1. rollout[a].at = "locked" /\ rollout' = [rollout EXCEPT ![a] = row] /\ UNCHANGED <<model, reports>>
    BY <1>4 DEF FindDeployed
  <2>2. row \in RolloutCalls /\ row.id = rollout[a].id /\ row.share = rollout[a].share
    BY <1>0 DEF RolloutTyped, RolloutCalls, Deployed
  <2>3. row.id \in Configurations /\ row.share \in Shares /\ <<row.id, "passed">> \in reports
    BY <1>0, <2>1, <2>2 DEF CallsHavePassed
  <2> HIDE DEF row
  <2> QED
    BY <2>1, <2>2, <2>3, CallMoves
<1>5. ASSUME NEW a \in Admins, AbortRollout(a) PROVE RolloutInv'
  BY <1>5, IdleCall, CallMoves DEF AbortRollout
<1>6. CASE UNCHANGED rolloutVars
  BY <1>6 DEF rolloutVars, RolloutInv, RolloutTyped, CallsHavePassed, SharesFit, OneOfEach, BaselineServes
<1> QED
  BY <1>1, <1>2, <1>3, <1>4, <1>5, <1>6, ActivateKeeps DEF RolloutNext

\* A bucket is served by the active row, or by the canary if it is in its half.
LEMMA CallsAreServed ==
  ASSUME RolloutInv
  PROVE  /\ With(model, "active") = {} =>
              With(model, "canary") = {} /\ \A bucket \in {0, 99} : Served(bucket) = {Environment}
         /\ With(model, "active") # {} =>
              /\ Served(99) = With(model, "active")
              /\ Served(0) = IF With(model, "canary") # {} THEN With(model, "canary")
                             ELSE With(model, "active")
<1>1. \A c \in With(model, "canary") : model[c].share = 50
  BY DEF RolloutInv, SharesFit, With
<1>2. With(model, "active") = {} => With(model, "canary") = {}
  BY DEF RolloutInv, BaselineServes, With
<1>3. /\ {c \in With(model, "canary") : 99 < model[c].share} = {}
      /\ {c \in With(model, "canary") : 0 < model[c].share} = With(model, "canary")
  BY <1>1
<1> QED
  BY <1>2, <1>3 DEF Served

LEMMA RolloutInvMeans ==
  ASSUME RolloutInv
  PROVE  RolloutTypeOK /\ CanaryHasBaseline
<1>1. RolloutTypeOK
  <2>1. ASSUME NEW c \in Configurations
        PROVE  /\ model[c].status \in {"none", "draft", "active", "canary", "retired"}
               /\ model[c].share \in Shares \union {0}
               /\ model[c].share # 0 <=> c \in Deployed
    <3>1. /\ model[c] \in ModelRows
          /\ model[c].share = IF model[c].status = "active" THEN 100
                               ELSE IF model[c].status = "canary" THEN 50 ELSE 0
      BY DEF RolloutInv, RolloutTyped, SharesFit
    <3>2. model[c].share # 0 <=> model[c].status \in {"active", "canary"}
      BY <3>1
    <3> QED
      BY <3>1, <3>2 DEF ModelRows, Deployed
  <2>2. \A a \in Admins : rollout[a].at \in {"none", "locked", "found"}
    BY DEF RolloutInv, RolloutTyped, RolloutCalls
  <2> QED
    BY <2>1, <2>2 DEF RolloutInv, RolloutTyped, RolloutTypeOK
<1>2. CanaryHasBaseline
  <2> DEFINE A == With(model, "active")
             C == With(model, "canary")
  <2>1. /\ A = {} => C = {} /\ \A bucket \in {0, 99} : Served(bucket) = {Environment}
        /\ A # {} => /\ Served(99) = A
                     /\ Served(0) = IF C # {} THEN C ELSE A
    BY CallsAreServed
  <2>2. \A c \in A \union C : c \in Configurations /\ <<c, "passed">> \in reports
    BY DEF RolloutInv, SharesFit, With
  <2>3. /\ \A c, d \in A : c = d
        /\ \A c, d \in C : c = d
    BY DEF RolloutInv, OneOfEach, With
  <2>4. Deployed # {} => A # {}
    BY DEF Deployed, With, RolloutInv, BaselineServes
  <2> HIDE DEF A, C
  <2>5. /\ A # {} => Cardinality(A) = 1
        /\ C # {} => Cardinality(C) = 1
        /\ Cardinality({Environment}) = 1
    <3>1. A # {} => \E x : A = {x}
      BY <2>3
    <3>2. C # {} => \E x : C = {x}
      BY <2>3
    <3> QED
      BY <3>1, <3>2, FS_Singleton
  <2>6. \A bucket \in {0, 99} : Served(bucket) \in {{Environment}} \/ (Served(bucket) \in {A, C} /\ Served(bucket) # {})
    BY <2>1
  <2>7. \A bucket \in {0, 99} : Cardinality(Served(bucket)) = 1
    BY <2>5, <2>6
  <2>8. \A bucket \in {0, 99} : \A c \in Served(bucket) \ {Environment} : <<c, "passed">> \in reports
    BY <2>2, <2>6
  <2> QED
    BY <2>1, <2>4, <2>7, <2>8 DEF CanaryHasBaseline, A
<1> QED
  BY <1>1, <1>2

-----------------------------------------------------------------------------
(* Operational jobs.                                                       *)

JobStatuses == {"queued", "running", "succeeded", "failed", "dead_letter"}
JobRows == [status : JobStatuses, attempt : 0 .. MaxAttempts, parent : Nat]

JobsTyped ==
  /\ jobs \in Seq(JobRows) /\ Len(jobs) \in 1 .. MaxJobs
  /\ \A i \in DOMAIN jobs : jobs[i].parent \in 0 .. i - 1
  /\ dispatches \in [Ids -> {"none", "pending", "published"}]
  /\ sent \in [Ids -> 0 .. MaxSends] /\ broker \in [Ids -> Nat]
  /\ publisher \in [Publishers -> Ids \union {Unsent}]
  /\ runner \in [JobWorkers -> Ids \union {0}]
  /\ commands \subseteq [by : Operators, of : Ids, key : RetryKeys, child : Ids]

\* A message that was sent waits, is executed, or is done with.
ExecutorsOf(i) == {w \in JobWorkers : runner[w] = i}
MessagesFlow ==
  \A i \in Ids : IsFiniteSet(ExecutorsOf(i)) /\ broker[i] + Cardinality(ExecutorsOf(i)) <= sent[i]

\* Nothing is sent, read or executed but a job, and a dispatch is one of a job.
MessagesHaveJobs ==
  /\ \A i \in Ids : sent[i] > 0 \/ dispatches[i] # "none" => i \in DOMAIN jobs
  /\ \A w \in JobWorkers : runner[w] # 0 => sent[runner[w]] > 0
  /\ \A p \in Publishers : publisher[p] # Unsent => dispatches[publisher[p]] # "none"
  /\ \A i \in Ids : dispatches[i] = "published" => sent[i] > 0
  /\ \A i \in DOMAIN jobs : jobs[i].status # "queued" => sent[i] > 0

RetriesHaveCommands ==
  /\ trail = [n \in 1 .. Len(jobs) - 1 |-> n + 1]
  /\ \A i \in DOMAIN jobs \ {1} :
       dispatches[i] # "none" /\ \E c \in commands : c.child = i /\ c.of = jobs[i].parent
  /\ \A c, d \in commands : c.by = d.by /\ c.of = d.of /\ c.key = d.key => c = d

JobInv == JobsTyped /\ MessagesFlow /\ MessagesHaveJobs /\ RetriesHaveCommands

LEMMA JobStarts ==
  ASSUME OperationalJobInit
  PROVE  JobInv
<1> DEFINE row == [status |-> "queued", attempt |-> 0, parent |-> 0]
<1>1. row \in JobRows /\ row.status = "queued" /\ row.parent = 0
  BY OperationalJobAssumption DEF JobRows, JobStatuses
<1>2. jobs = <<row>>
  BY DEF OperationalJobInit
<1> HIDE DEF row
<1>3. jobs \in Seq(JobRows) /\ Len(jobs) = 1 /\ DOMAIN jobs = {1} /\ jobs[1] = row
  BY <1>1, <1>2
<1>4. 1 \in Ids /\ 1 <= MaxJobs /\ 1 <= MaxSends /\ MaxSends \in Nat /\ MaxJobs \in Nat
  BY OperationalJobAssumption DEF Ids
<1>5. JobsTyped
  BY <1>1, <1>3, <1>4 DEF OperationalJobInit, JobsTyped, Unsent
<1>6. MessagesFlow
  <2> SUFFICES ASSUME NEW i \in Ids
               PROVE  IsFiniteSet(ExecutorsOf(i)) /\ broker[i] + Cardinality(ExecutorsOf(i)) <= sent[i]
    BY DEF MessagesFlow
  <2>1. i # 0 /\ broker[i] = sent[i] /\ sent[i] \in Nat
    BY DEF Ids, OperationalJobInit
  <2>2. ExecutorsOf(i) = {}
    BY <2>1 DEF ExecutorsOf, OperationalJobInit
  <2> QED
    BY <2>1, <2>2, FS_EmptySet
<1>7. MessagesHaveJobs
  BY <1>1, <1>3 DEF MessagesHaveJobs, OperationalJobInit, Unsent
<1>8. RetriesHaveCommands
  <2>1. [n \in 1 .. Len(jobs) - 1 |-> n + 1] = <<>>
    BY <1>3
  <2> QED
    BY <1>3, <2>1 DEF RetriesHaveCommands, OperationalJobInit
<1> QED
  BY <1>5, <1>6, <1>7, <1>8 DEF JobInv

\* A signal, of which the row of the job keeps the status or nothing.
LEMMA SignalKeeps ==
  ASSUME JobInv, NEW i \in Ids, sent[i] > 0, NEW status \in JobStatuses,
         jobs' = jobs \/ Marked(i, status),
         UNCHANGED <<dispatches, sent, publisher, commands, trail>>,
         broker' \in [Ids -> Nat], runner' \in [JobWorkers -> Ids \union {0}], MessagesFlow',
         \A w \in JobWorkers : runner'[w] # 0 => sent[runner'[w]] > 0
  PROVE  JobInv'
<1>1. /\ JobsTyped /\ MessagesHaveJobs /\ RetriesHaveCommands
      /\ i \in DOMAIN jobs
  BY DEF JobInv, MessagesHaveJobs
<1>2. /\ jobs' \in Seq(JobRows) /\ Len(jobs') = Len(jobs) /\ DOMAIN jobs' = DOMAIN jobs
      /\ \A j \in DOMAIN jobs : jobs'[j].parent = jobs[j].parent
      /\ \A j \in DOMAIN jobs : j # i => jobs'[j] = jobs[j]
  <2>1. CASE jobs' = jobs
    BY <1>1, <2>1 DEF JobsTyped
  <2>2. CASE jobs' = [jobs EXCEPT ![i].status = status]
    <3> DEFINE row == [jobs[i] EXCEPT !.status = status]
    <3>1. jobs[i] \in JobRows /\ jobs \in Seq(JobRows)
      BY <1>1 DEF JobsTyped
    <3>2. row \in JobRows /\ row.parent = jobs[i].parent
      BY <3>1 DEF JobRows
    <3>3. jobs' = [jobs EXCEPT ![i] = row]
      BY <2>2
    <3> HIDE DEF row
    <3> QED
      BY <1>1, <3>1, <3>2, <3>3
  <2> QED
    BY <2>1, <2>2 DEF Marked
<1>3. JobsTyped'
  BY <1>1, <1>2 DEF JobsTyped
<1>4. MessagesHaveJobs'
  BY <1>1, <1>2 DEF MessagesHaveJobs
<1>5. RetriesHaveCommands'
  BY <1>1, <1>2 DEF RetriesHaveCommands
<1> QED
  BY <1>3, <1>4, <1>5 DEF JobInv

LEMMA PrerunKeeps ==
  ASSUME JobInv, NEW w \in JobWorkers, Prerun(w)
  PROVE  JobInv'
<1>1. PICK i \in Ids :
        /\ runner[w] = 0 /\ broker[i] > 0
        /\ broker' = [broker EXCEPT ![i] = @ - 1]
        /\ runner' = [runner EXCEPT ![w] = i]
        /\ Marked(i, "running")
        /\ UNCHANGED <<dispatches, sent, publisher, commands, trail>>
  BY DEF Prerun
<1>2. JobsTyped /\ MessagesFlow /\ MessagesHaveJobs
  BY DEF JobInv
<1>3. /\ broker \in [Ids -> Nat] /\ sent \in [Ids -> 0 .. MaxSends] /\ MaxSends \in Nat
      /\ runner \in [JobWorkers -> Ids \union {0}] /\ i # 0
  BY <1>2, OperationalJobAssumption DEF JobsTyped, Ids
<1>4. broker' \in [Ids -> Nat] /\ runner' \in [JobWorkers -> Ids \union {0}]
  BY <1>1, <1>3
<1>5. ASSUME NEW j \in Ids
      PROVE  IsFiniteSet(ExecutorsOf(j)') /\ broker'[j] + Cardinality(ExecutorsOf(j)') <= sent'[j]
  <2>1. /\ IsFiniteSet(ExecutorsOf(j)) /\ broker[j] + Cardinality(ExecutorsOf(j)) <= sent[j]
        /\ broker[j] \in Nat /\ sent[j] \in Nat
    BY <1>2, <1>3 DEF MessagesFlow
  <2>2. CASE j = i
    <3>1. ExecutorsOf(j)' = ExecutorsOf(j) \union {w} /\ w \notin ExecutorsOf(j)
      BY <1>1, <1>3, <2>2 DEF ExecutorsOf
    <3>2. broker'[j] = broker[j] - 1 /\ sent'[j] = sent[j]
      BY <1>1, <1>3, <2>2
    <3>3. /\ IsFiniteSet(ExecutorsOf(j)') /\ Cardinality(ExecutorsOf(j)) \in Nat
          /\ Cardinality(ExecutorsOf(j)') = Cardinality(ExecutorsOf(j)) + 1
      BY <2>1, <3>1, OneMore
    <3> QED
      BY <2>1, <3>2, <3>3
  <2>3. CASE j # i
    <3>1. ExecutorsOf(j)' = ExecutorsOf(j)
      BY <1>1, <1>3, <2>3 DEF ExecutorsOf, Ids
    <3>2. broker'[j] = broker[j] /\ sent'[j] = sent[j]
      BY <1>1, <1>3, <2>3
    <3> QED
      BY <2>1, <3>1, <3>2
  <2> QED
    BY <2>2, <2>3
<1>6. sent[i] > 0
  <2>1. /\ IsFiniteSet(ExecutorsOf(i)) /\ broker[i] + Cardinality(ExecutorsOf(i)) <= sent[i]
        /\ broker[i] \in Nat /\ sent[i] \in Nat
    BY <1>2, <1>3 DEF MessagesFlow
  <2>2. Cardinality(ExecutorsOf(i)) \in Nat
    BY <2>1, FS_CardinalityType
  <2> QED
    BY <1>1, <2>1, <2>2
<1>7. \A v \in JobWorkers : runner'[v] # 0 => sent[runner'[v]] > 0
  BY <1>1, <1>2, <1>3, <1>6 DEF MessagesHaveJobs
<1>8. MessagesFlow'
  BY <1>5 DEF MessagesFlow
<1> QED
  BY <1>1, <1>4, <1>6, <1>7, <1>8, SignalKeeps DEF JobStatuses

\* The end of an execution, by the task or with its process.
LEMMA EndsKeeps ==
  ASSUME JobInv, NEW w \in JobWorkers, Postrun(w) \/ JobWorkerDies(w)
  PROVE  JobInv'
<1> DEFINE i == runner[w]
<1>1. /\ i # 0 /\ runner' = [runner EXCEPT ![w] = 0]
      /\ UNCHANGED <<dispatches, sent, publisher, commands, trail>>
      /\ broker' = broker \/ broker' = [broker EXCEPT ![i] = @ + 1]
  BY DEF Postrun, JobWorkerDies
<1>2. JobsTyped /\ MessagesFlow /\ MessagesHaveJobs
  BY DEF JobInv
<1>3. /\ broker \in [Ids -> Nat] /\ sent \in [Ids -> 0 .. MaxSends] /\ MaxSends \in Nat
      /\ runner \in [JobWorkers -> Ids \union {0}] /\ i \in Ids
  BY <1>1, <1>2, OperationalJobAssumption DEF JobsTyped
<1>4. broker' \in [Ids -> Nat] /\ runner' \in [JobWorkers -> Ids \union {0}]
  BY <1>1, <1>3
<1>5. \E status \in JobStatuses : jobs' = jobs \/ Marked(i, status)
  BY DEF Postrun, JobWorkerDies, FailedStatus, JobStatuses
<1>6. i = runner[w]
  OBVIOUS
<1> HIDE DEF i
<1>7. ASSUME NEW j \in Ids
      PROVE  IsFiniteSet(ExecutorsOf(j)') /\ broker'[j] + Cardinality(ExecutorsOf(j)') <= sent'[j]
  <2>1. /\ IsFiniteSet(ExecutorsOf(j)) /\ broker[j] + Cardinality(ExecutorsOf(j)) <= sent[j]
        /\ broker[j] \in Nat /\ sent[j] \in Nat
    BY <1>2, <1>3 DEF MessagesFlow
  <2>2. CASE j = i
    <3>1. ExecutorsOf(j) = ExecutorsOf(j)' \union {w} /\ w \notin ExecutorsOf(j)'
      BY <1>1, <1>3, <1>6, <2>2 DEF ExecutorsOf
    <3>2. broker'[j] \in {broker[j], broker[j] + 1} /\ sent'[j] = sent[j]
      BY <1>1, <1>3, <2>2
    <3>3. IsFiniteSet(ExecutorsOf(j)')
      BY <2>1, <3>1, FS_Subset
    <3>4. /\ Cardinality(ExecutorsOf(j)') \in Nat
          /\ Cardinality(ExecutorsOf(j)) = Cardinality(ExecutorsOf(j)') + 1
      BY <3>1, <3>3, OneMore
    <3> QED
      BY <2>1, <3>2, <3>3, <3>4
  <2>3. CASE j # i
    <3>1. ExecutorsOf(j)' = ExecutorsOf(j)
      BY <1>1, <1>3, <1>6, <2>3 DEF ExecutorsOf, Ids
    <3>2. broker'[j] = broker[j] /\ sent'[j] = sent[j]
      BY <1>1, <1>3, <2>3
    <3> QED
      BY <2>1, <3>1, <3>2
  <2> QED
    BY <2>2, <2>3
<1>8. sent[i] > 0
  BY <1>1, <1>2, <1>6 DEF MessagesHaveJobs
<1>9. \A v \in JobWorkers : runner'[v] # 0 => sent[runner'[v]] > 0
  BY <1>1, <1>2, <1>3 DEF MessagesHaveJobs
<1>10. MessagesFlow'
  BY <1>7 DEF MessagesFlow
<1> QED
  BY <1>1, <1>3, <1>4, <1>5, <1>8, <1>9, <1>10, SignalKeeps

LEMMA RetryJobKeeps ==
  ASSUME JobInv, NEW a \in Operators, NEW i \in Ids, NEW k \in RetryKeys, RetryJob(a, i, k)
  PROVE  JobInv'
<1> DEFINE child == Len(jobs) + 1
           row == [status |-> "queued", attempt |-> jobs[i].attempt + 1, parent |-> i]
           retried == [by |-> a, of |-> i, key |-> k, child |-> child]
<1>1. JobsTyped /\ MessagesFlow /\ MessagesHaveJobs /\ RetriesHaveCommands
  BY DEF JobInv
<1>2. /\ i \in DOMAIN jobs /\ child \in Ids /\ NewKey(a, i, k)
      /\ jobs[i].attempt < MaxAttempts
      /\ jobs' = Append(jobs, row)
      /\ dispatches' = [dispatches EXCEPT ![child] = "pending"]
      /\ commands' = commands \union {retried}
      /\ trail' = Append(trail, child)
      /\ UNCHANGED <<sent, broker, publisher, runner>>
  BY DEF RetryJob, Retryable
<1>3. /\ jobs \in Seq(JobRows) /\ Len(jobs) \in Nat \ {0} /\ jobs[i] \in JobRows /\ MaxJobs \in Nat
      /\ MaxAttempts \in Nat
  BY <1>1, <1>2, OperationalJobAssumption DEF JobsTyped
<1>4. row \in JobRows /\ row.parent = i /\ row.status = "queued"
  BY <1>2, <1>3 DEF JobRows, JobStatuses, Ids
<1> HIDE DEF row
<1>5. /\ jobs' \in Seq(JobRows) /\ Len(jobs') = child /\ child \in 2 .. MaxJobs
      /\ DOMAIN jobs' = DOMAIN jobs \union {child} /\ child \notin DOMAIN jobs
      /\ \A j \in DOMAIN jobs : jobs'[j] = jobs[j] /\ j \in Ids
      /\ jobs'[child] = row /\ i \in 0 .. child - 1
  BY <1>2, <1>3, <1>4 DEF Ids
<1>6. /\ retried \in [by : Operators, of : Ids, key : RetryKeys, child : Ids]
      /\ retried.child = child /\ retried.of = i /\ retried.by = a /\ retried.key = k
  BY <1>2
<1>7. child = Len(jobs) + 1
  OBVIOUS
<1> HIDE DEF retried, child
<1>8. JobsTyped'
  <2>1. Len(jobs') \in 1 .. MaxJobs
    BY <1>3, <1>5
  <2>2. \A j \in DOMAIN jobs' : jobs'[j].parent \in 0 .. j - 1
    BY <1>1, <1>4, <1>5 DEF JobsTyped
  <2>3. dispatches' \in [Ids -> {"none", "pending", "published"}]
    BY <1>1, <1>2 DEF JobsTyped
  <2>4. commands' \subseteq [by : Operators, of : Ids, key : RetryKeys, child : Ids]
    BY <1>1, <1>2, <1>6 DEF JobsTyped
  <2> QED
    BY <1>1, <1>2, <1>5, <2>1, <2>2, <2>3, <2>4 DEF JobsTyped
<1>9. MessagesFlow'
  BY <1>1, <1>2 DEF MessagesFlow, ExecutorsOf
<1>10. MessagesHaveJobs'
  <2>1. /\ \A j \in Ids : j # child => dispatches'[j] = dispatches[j]
        /\ dispatches'[child] = "pending"
    BY <1>1, <1>2 DEF JobsTyped
  <2>2. \A j \in Ids : sent'[j] > 0 \/ dispatches'[j] # "none" => j \in DOMAIN jobs'
    BY <1>1, <1>2, <1>5, <2>1 DEF MessagesHaveJobs
  <2>3. \A p \in Publishers : publisher'[p] # Unsent => dispatches'[publisher'[p]] # "none"
    BY <1>1, <1>2, <2>1 DEF MessagesHaveJobs, JobsTyped
  <2>4. \A j \in Ids : dispatches'[j] = "published" => sent'[j] > 0
    BY <1>1, <1>2, <2>1 DEF MessagesHaveJobs
  <2>5. \A j \in DOMAIN jobs' : jobs'[j].status # "queued" => sent'[j] > 0
    BY <1>1, <1>2, <1>4, <1>5 DEF MessagesHaveJobs
  <2> QED
    BY <1>1, <1>2, <2>2, <2>3, <2>4, <2>5 DEF MessagesHaveJobs
<1>11. RetriesHaveCommands'
  <2>1. trail' = [n \in 1 .. Len(jobs') - 1 |-> n + 1]
    <3>1. trail = [n \in 1 .. Len(jobs) - 1 |-> n + 1]
      BY <1>1 DEF RetriesHaveCommands
    <3>2. Len(jobs) - 1 \in Nat /\ child = (Len(jobs) - 1) + 2
      BY <1>3, <1>7
    <3> DEFINE m == Len(jobs) - 1
    <3>3. trail \in Seq(Nat) /\ Len(trail) = m
      <4> HIDE DEF m
      <4>1. m \in Nat
        BY <3>2 DEF m
      <4>2. trail = [n \in 1 .. m |-> n + 1]
        BY <3>1 DEF m
      <4>3. \A n \in 1 .. m : n + 1 \in Nat
        BY <4>1
      <4>4. trail \in [1 .. m -> Nat]
        BY <4>2, <4>3
      <4> QED
        BY <4>1, <4>2, <4>4
    <3>4. trail' = [n \in 1 .. m + 1 |-> IF n = m + 1 THEN m + 2 ELSE trail[n]]
      BY <1>2, <3>2, <3>3
    <3>5. \A n \in 1 .. m + 1 : (IF n = m + 1 THEN m + 2 ELSE trail[n]) = n + 1
      BY <3>1, <3>2
    <3>6. Len(jobs') - 1 = m + 1
      BY <1>3, <1>5, <1>7
    <3> HIDE DEF m
    <3> QED
      BY <3>4, <3>5, <3>6
  <2>2. ASSUME NEW j \in DOMAIN jobs' \ {1}
        PROVE  dispatches'[j] # "none" /\ \E c \in commands' : c.child = j /\ c.of = jobs'[j].parent
    <3>1. CASE j = child
      BY <1>1, <1>2, <1>4, <1>5, <1>6, <3>1 DEF JobsTyped
    <3>2. CASE j # child
      <4>1. j \in DOMAIN jobs \ {1} /\ jobs'[j] = jobs[j] /\ j \in Ids
        BY <1>5, <3>2
      <4>2. dispatches'[j] = dispatches[j]
        BY <1>1, <1>2, <3>2, <4>1 DEF JobsTyped
      <4>3. dispatches[j] # "none" /\ \E c \in commands : c.child = j /\ c.of = jobs[j].parent
        BY <1>1, <4>1 DEF RetriesHaveCommands
      <4> QED
        BY <1>2, <4>1, <4>2, <4>3
    <3> QED
      BY <3>1, <3>2
  <2>3. \A c \in commands : ~(c.by = retried.by /\ c.of = retried.of /\ c.key = retried.key)
    BY <1>2, <1>6 DEF NewKey
  <2>4. \A c, d \in commands' : c.by = d.by /\ c.of = d.of /\ c.key = d.key => c = d
    BY <1>1, <1>2, <2>3 DEF RetriesHaveCommands
  <2> QED
    BY <2>1, <2>2, <2>4 DEF RetriesHaveCommands
<1> QED
  BY <1>8, <1>9, <1>10, <1>11 DEF JobInv

LEMMA ReadDispatchKeeps ==
  ASSUME JobInv, NEW p \in Publishers, ReadDispatch(p)
  PROVE  JobInv'
<1>1. PICK i \in Ids : dispatches[i] = "pending" /\ publisher' = [publisher EXCEPT ![p] = i]
  BY DEF ReadDispatch
<1>2. UNCHANGED <<jobs, dispatches, sent, broker, runner, commands, trail>>
  BY DEF ReadDispatch
<1>3. JobsTyped /\ MessagesFlow /\ MessagesHaveJobs /\ RetriesHaveCommands
  BY DEF JobInv
<1>4. JobsTyped'
  BY <1>1, <1>2, <1>3 DEF JobsTyped
<1>5. MessagesHaveJobs'
  BY <1>1, <1>2, <1>3 DEF JobsTyped, MessagesHaveJobs
<1>6. MessagesFlow' /\ RetriesHaveCommands'
  BY <1>2, <1>3 DEF MessagesFlow, ExecutorsOf, RetriesHaveCommands
<1> QED
  BY <1>4, <1>5, <1>6 DEF JobInv

LEMMA PublishRetryKeeps ==
  ASSUME JobInv, NEW p \in Publishers, PublishRetry(p)
  PROVE  JobInv'
<1> DEFINE i == publisher[p]
<1>0. JobsTyped /\ MessagesFlow /\ MessagesHaveJobs /\ RetriesHaveCommands
  BY DEF JobInv
<1>1. /\ i # Unsent /\ publisher' = [publisher EXCEPT ![p] = Unsent]
      /\ UNCHANGED <<jobs, runner, commands, trail>>
  BY DEF PublishRetry
<1>2. \/ /\ sent[i] < MaxSends
         /\ sent' = [sent EXCEPT ![i] = @ + 1]
         /\ broker' = [broker EXCEPT ![i] = @ + 1]
         /\ dispatches' \in {dispatches, [dispatches EXCEPT ![i] = "published"]}
      \/ /\ dispatches' = [dispatches EXCEPT ![i] = dispatches[i]]
         /\ UNCHANGED <<sent, broker>>
  BY DEF PublishRetry, StatusAfterFailure
<1>3. i \in Ids /\ dispatches[i] # "none"
  BY <1>0, <1>1 DEF JobsTyped, MessagesHaveJobs
<1>4. /\ sent \in [Ids -> 0 .. MaxSends] /\ broker \in [Ids -> Nat] /\ MaxSends \in Nat
      /\ dispatches \in [Ids -> {"none", "pending", "published"}]
      /\ publisher \in [Publishers -> Ids \union {Unsent}]
  BY <1>0, OperationalJobAssumption DEF JobsTyped
<1> HIDE DEF i
<1>5. publisher' \in [Publishers -> Ids \union {Unsent}] /\ \A q \in Publishers : publisher'[q] \in {publisher[q], Unsent}
  BY <1>1, <1>4
<1>6. CASE /\ sent[i] < MaxSends
           /\ sent' = [sent EXCEPT ![i] = @ + 1]
           /\ broker' = [broker EXCEPT ![i] = @ + 1]
           /\ dispatches' \in {dispatches, [dispatches EXCEPT ![i] = "published"]}
  <2>1. /\ sent' \in [Ids -> 0 .. MaxSends] /\ broker' \in [Ids -> Nat]
        /\ dispatches' \in [Ids -> {"none", "pending", "published"}]
        /\ \A j \in Ids : j # i => sent'[j] = sent[j] /\ broker'[j] = broker[j] /\ dispatches'[j] = dispatches[j]
        /\ sent'[i] = sent[i] + 1 /\ broker'[i] = broker[i] + 1 /\ dispatches'[i] # "none"
        /\ sent[i] \in Nat /\ broker[i] \in Nat
    BY <1>3, <1>4, <1>6
  <2>2. JobsTyped'
    BY <1>0, <1>1, <1>5, <2>1 DEF JobsTyped
  <2>3. MessagesFlow'
    <3> SUFFICES ASSUME NEW j \in Ids
                 PROVE  IsFiniteSet(ExecutorsOf(j)) /\ broker'[j] + Cardinality(ExecutorsOf(j)) <= sent'[j]
      BY <1>1 DEF MessagesFlow, ExecutorsOf
    <3>1. /\ IsFiniteSet(ExecutorsOf(j)) /\ broker[j] + Cardinality(ExecutorsOf(j)) <= sent[j]
          /\ broker[j] \in Nat /\ sent[j] \in Nat
      BY <1>0, <1>4 DEF MessagesFlow
    <3>2. Cardinality(ExecutorsOf(j)) \in Nat
      BY <3>1, FS_CardinalityType
    <3> QED
      BY <2>1, <3>1, <3>2
  <2>4. \A j \in Ids : sent[j] > 0 => sent'[j] > 0
    BY <1>4, <2>1
  <2>5. sent'[i] > 0 /\ i \in DOMAIN jobs /\ DOMAIN jobs \subseteq Ids
    <3>1. DOMAIN jobs \subseteq Ids
      BY <1>0, OperationalJobAssumption DEF JobsTyped, Ids
    <3> QED
      BY <1>0, <1>3, <2>1, <3>1 DEF MessagesHaveJobs
  <2>6. MessagesHaveJobs'
    <3>1. \A j \in Ids : sent'[j] > 0 \/ dispatches'[j] # "none" => j \in DOMAIN jobs'
      BY <1>0, <1>1, <2>1, <2>5 DEF MessagesHaveJobs
    <3>2. \A w \in JobWorkers : runner'[w] # 0 => sent'[runner'[w]] > 0
      BY <1>0, <1>1, <2>4 DEF MessagesHaveJobs, JobsTyped
    <3>3. \A q \in Publishers : publisher'[q] # Unsent => dispatches'[publisher'[q]] # "none"
      BY <1>0, <1>4, <1>5, <2>1 DEF MessagesHaveJobs
    <3>4. \A j \in Ids : dispatches'[j] = "published" => sent'[j] > 0
      BY <1>0, <2>1, <2>5 DEF MessagesHaveJobs
    <3>5. \A j \in DOMAIN jobs' : jobs'[j].status # "queued" => sent'[j] > 0
      BY <1>0, <1>1, <2>4, <2>5 DEF MessagesHaveJobs
    <3> QED
      BY <3>1, <3>2, <3>3, <3>4, <3>5 DEF MessagesHaveJobs
  <2>7. RetriesHaveCommands'
    <3>1. \A j \in DOMAIN jobs \ {1} : dispatches'[j] # "none"
      BY <1>0, <2>1, <2>5 DEF RetriesHaveCommands
    <3> QED
      BY <1>0, <1>1, <3>1 DEF RetriesHaveCommands
  <2> QED
    BY <2>2, <2>3, <2>6, <2>7 DEF JobInv
<1>7. CASE dispatches' = [dispatches EXCEPT ![i] = dispatches[i]] /\ UNCHANGED <<sent, broker>>
  <2>1. dispatches' = dispatches /\ UNCHANGED <<sent, broker>>
    BY <1>3, <1>4, <1>7
  <2>2. JobsTyped' /\ MessagesFlow' /\ RetriesHaveCommands'
    BY <1>0, <1>1, <1>5, <2>1 DEF JobsTyped, MessagesFlow, ExecutorsOf, RetriesHaveCommands
  <2>3. MessagesHaveJobs'
    BY <1>0, <1>1, <1>5, <2>1 DEF MessagesHaveJobs
  <2> QED
    BY <2>2, <2>3 DEF JobInv
<1> QED
  BY <1>2, <1>6, <1>7

LEMMA JobKeeps ==
  ASSUME JobInv, [OperationalJobNext]_operationalJobVars
  PROVE  JobInv'
<1>1. CASE OperationalJobNext
  BY <1>1, PrerunKeeps, EndsKeeps, RetryJobKeeps, ReadDispatchKeeps, PublishRetryKeeps DEF OperationalJobNext
<1>2. CASE UNCHANGED operationalJobVars
  <2>1. UNCHANGED <<jobs, dispatches, sent, broker, publisher, runner, commands, trail>>
    BY <1>2 DEF operationalJobVars
  <2> QED
    BY <2>1 DEF JobInv, JobsTyped, MessagesFlow, ExecutorsOf, MessagesHaveJobs, RetriesHaveCommands
<1> QED
  BY <1>1, <1>2

LEMMA JobInvMeans ==
  ASSUME JobInv
  PROVE  OperationalJobTypeOK /\ RetriesAccounted
<1>0. JobsTyped /\ MessagesFlow /\ MessagesHaveJobs /\ RetriesHaveCommands
  BY DEF JobInv
<1>1. /\ jobs \in Seq(JobRows) /\ Len(jobs) \in Nat \ {0} /\ Len(jobs) <= MaxJobs /\ MaxJobs \in Nat
      /\ MaxSends \in Nat /\ MaxAttempts \in Nat
  BY <1>0, OperationalJobAssumption DEF JobsTyped
<1>2. DOMAIN jobs \subseteq Ids /\ \A i \in DOMAIN jobs : jobs[i] \in JobRows
  BY <1>1 DEF Ids
<1>3. \A i \in DOMAIN jobs : jobs[i].status \in JobStatuses /\ jobs[i].attempt \in 0 .. MaxAttempts
  BY <1>2 DEF JobRows
<1>4. OperationalJobTypeOK
  <2>1. ASSUME NEW i \in Ids PROVE broker[i] \in 0 .. MaxSends
    <3>1. /\ IsFiniteSet(ExecutorsOf(i)) /\ broker[i] + Cardinality(ExecutorsOf(i)) <= sent[i]
          /\ broker[i] \in Nat /\ sent[i] \in Nat /\ sent[i] <= MaxSends
      BY <1>0, <1>1 DEF MessagesFlow, JobsTyped
    <3>2. Cardinality(ExecutorsOf(i)) \in Nat
      BY <3>1, FS_CardinalityType
    <3> QED
      BY <1>1, <3>1, <3>2
  <2>2. trail \in Seq(Ids)
    <3> DEFINE m == Len(jobs) - 1
    <3>1. trail = [n \in 1 .. m |-> n + 1] /\ m \in Nat /\ m + 1 <= MaxJobs
      BY <1>0, <1>1 DEF RetriesHaveCommands
    <3> HIDE DEF m
    <3>2. \A n \in 1 .. m : n + 1 \in Ids
      BY <1>1, <3>1 DEF Ids
    <3>3. trail \in [1 .. m -> Ids]
      BY <3>1, <3>2
    <3> QED
      BY <3>1, <3>3
  <2>3. broker \in [Ids -> 0 .. MaxSends]
    BY <1>0, <2>1 DEF JobsTyped
  <2> QED
    BY <1>0, <1>3, <2>2, <2>3 DEF JobsTyped, OperationalJobTypeOK, JobStatuses
<1>5. RetriesAccounted
  <2>1. \A c, d \in commands : [c EXCEPT !.child = 0] = [d EXCEPT !.child = 0] => c = d
    <3> SUFFICES ASSUME NEW c \in commands, NEW d \in commands, [c EXCEPT !.child = 0] = [d EXCEPT !.child = 0]
                 PROVE  c = d
      OBVIOUS
    <3>1. /\ c \in [by : Operators, of : Ids, key : RetryKeys, child : Ids]
          /\ d \in [by : Operators, of : Ids, key : RetryKeys, child : Ids]
      BY <1>0 DEF JobsTyped
    <3>2. c.by = d.by /\ c.of = d.of /\ c.key = d.key
      <4>1. /\ [c EXCEPT !.child = 0].by = c.by /\ [d EXCEPT !.child = 0].by = d.by
            /\ [c EXCEPT !.child = 0].of = c.of /\ [d EXCEPT !.child = 0].of = d.of
            /\ [c EXCEPT !.child = 0].key = c.key /\ [d EXCEPT !.child = 0].key = d.key
        BY <3>1
      <4> QED
        BY <4>1
    <3> QED
      BY <1>0, <3>2 DEF RetriesHaveCommands
  <2>2. \A i \in DOMAIN jobs \ {1} : dispatches[i] = "pending" \/ sent[i] > 0
    BY <1>0, <1>2 DEF RetriesHaveCommands, MessagesHaveJobs, JobsTyped
  <2>3. \A i \in DOMAIN jobs : jobs[i].attempt <= MaxAttempts
    BY <1>1, <1>3
  <2> QED
    BY <1>0, <2>1, <2>2, <2>3 DEF RetriesAccounted, RetriesHaveCommands, MessagesHaveJobs
<1> QED
  BY <1>4, <1>5

-----------------------------------------------------------------------------
(* Accounts.                                                               *)

NewStatuses == {"active", "locked", "disabled"}
VisitRows == [step : Steps, login : Logins \union {<<>>}, target : Accounts \union {Nobody},
              key : CommandKeys \union {Nobody}, to : NewStatuses \union {"none"},
              from : Standing \union {"none"}, was : BOOLEAN]
AccountEvents == [user : Accounts, from : Standing, to : Standing]
AuditRows == [number : Nat, after : Nat, action : {"update", "read"}]

AccountTyped ==
  /\ accountStatus \in [Accounts -> Standing] /\ enabled \in [Accounts -> BOOLEAN]
  /\ logins \in [Logins -> {"none", "open", "revoked"}] /\ shut \subseteq Logins
  /\ visit \in [Visits -> VisitRows]
  /\ userRow \in [Accounts -> Visits \union {Nobody}] /\ headRow \in Visits \union {Nobody}
  /\ events \in Seq(AccountEvents) /\ audits \in Seq(AuditRows)
  /\ head \in Nat /\ IsFiniteSet(privileged)

\* A command under way has the rows it has locked, has not been carried out before, and
\* knows what the rows hold.
VisitWell(v) ==
  /\ visit[v].step # "out" => visit[v].login \in Logins
  /\ visit[v].step \in {"self", "target", "head"} =>
       /\ visit[v].target \in Accounts /\ visit[v].to \in NewStatuses
       /\ userRow[Me(v)] = v
       /\ \A c \in privileged :
            ~(c.actor = Me(v) /\ c.target = visit[v].target /\ c.key = visit[v].key)
       /\ visit[v].target = Me(v) => visit[v].to = "active"
  /\ visit[v].step \in {"target", "head"} =>
       /\ userRow[visit[v].target] = v
       /\ visit[v].from = accountStatus[visit[v].target]
       /\ visit[v].target # Me(v) => visit[v].was = enabled[visit[v].target]
  /\ visit[v].step = "head" => headRow = v

AccountInv ==
  /\ AccountTyped /\ \A v \in Visits : VisitWell(v)
  /\ AccountStory /\ AuditChain

LEMMA OwnersAreAccounts ==
  ASSUME NEW l \in Logins
  PROVE  Owner(l) \in Accounts
BY AccountAssumption DEF Owner

LEMMA AwayIsWell ==
  /\ Away \in VisitRows /\ Away.step = "out"
BY DEF Away, VisitRows, Steps

LEMMA AccountStarts ==
  ASSUME AccountInit
  PROVE  AccountInv
<1>1. events = <<>> /\ audits = <<>> /\ DOMAIN events = {} /\ DOMAIN audits = {} /\ Len(events) = 0
      /\ Len(audits) = 0
  BY DEF AccountInit
<1>2. AccountTyped
  BY <1>1, AwayIsWell, FS_EmptySet DEF AccountInit, AccountTyped, Standing
<1>3. \A v \in Visits : VisitWell(v)
  BY AwayIsWell DEF AccountInit, VisitWell
<1>4. AccountStory
  <2>1. \A u : LeftIn(u, 0, "active")
    BY DEF LeftIn
  <2>2. \A u \in Accounts : accountStatus[u] = "active"
    BY DEF AccountInit
  <2> QED
    BY <1>1, <2>1, <2>2 DEF AccountStory, AccountInit
<1>5. AuditChain
  <2>1. {i \in DOMAIN audits : audits[i].action = "update"} = {} /\ privileged = {} /\ head = 0
    BY <1>1 DEF AccountInit
  <2> QED
    BY <1>1, <2>1 DEF AuditChain
<1> QED
  BY <1>2, <1>3, <1>4, <1>5 DEF AccountInv

\* What a request knows stays true when it keeps its locks and what they protect.
LEMMA OthersStay ==
  ASSUME NEW w \in Visits, AccountTyped, VisitWell(w), visit'[w] = visit[w],
         \A a \in Accounts : userRow[a] = w =>
           userRow'[a] = w /\ accountStatus'[a] = accountStatus[a] /\ enabled'[a] = enabled[a],
         headRow = w => headRow' = w,
         \A c \in privileged' \ privileged : c.actor \in Accounts /\ userRow[c.actor] # w
  PROVE  VisitWell(w)'
<1>1. visit[w].step # "out" => Me(w) \in Accounts
  BY OwnersAreAccounts DEF VisitWell, Me
<1>2. Me(w)' = Me(w)
  BY DEF Me
<1>3. visit'[w].step \in {"self", "target", "head"} =>
        \A c \in privileged' :
            ~(c.actor = Me(w) /\ c.target = visit[w].target /\ c.key = visit[w].key)
  BY DEF VisitWell
<1>4. visit'[w].step \in {"self", "target", "head"} => userRow'[Me(w)] = w
  BY <1>1 DEF VisitWell
<1>5. visit'[w].step \in {"target", "head"} =>
        /\ visit[w].target \in Accounts
        /\ userRow'[visit[w].target] = w
        /\ visit[w].from = accountStatus'[visit[w].target]
        /\ visit[w].target # Me(w) => visit[w].was = enabled'[visit[w].target]
  BY DEF VisitWell
<1> QED
  BY <1>2, <1>3, <1>4, <1>5 DEF VisitWell

\* A step that only moves a request and its locks.
LEMMA TablesStay ==
  ASSUME AccountInv, NEW v \in Visits, NEW row \in VisitRows, UNCHANGED tables,
         visit' = [visit EXCEPT ![v] = row],
         userRow' \in [Accounts -> Visits \union {Nobody}], headRow' \in Visits \union {Nobody},
         \A w \in Visits \ {v} : /\ \A a \in Accounts : userRow[a] = w => userRow'[a] = w
                                 /\ headRow = w => headRow' = w,
         VisitWell(v)'
  PROVE  AccountInv'
<1>0. AccountTyped /\ UNCHANGED <<accountStatus, enabled, logins, events, audits, head, privileged, shut>>
  BY DEF AccountInv, tables
<1>1. AccountTyped'
  BY <1>0 DEF AccountTyped
<1>2. ASSUME NEW w \in Visits, w # v PROVE VisitWell(w)'
  <2>1. VisitWell(w) /\ visit'[w] = visit[w]
    BY <1>0, <1>2 DEF AccountInv, AccountTyped
  <2> QED
    BY <1>0, <1>2, <2>1, OthersStay
<1>3. AccountStory' /\ AuditChain'
  BY <1>0 DEF AccountInv, AccountStory, AuditChain, LeftIn
<1> QED
  BY <1>1, <1>2, <1>3 DEF AccountInv

\* What is released is what the request held.
LEMMA ReleasedKeeps ==
  ASSUME AccountInv, NEW v \in Visits, Released(v)
  PROVE  /\ userRow' \in [Accounts -> Visits \union {Nobody}] /\ headRow' \in Visits \union {Nobody}
         /\ \A w \in Visits \ {v} : /\ \A a \in Accounts : userRow[a] = w => userRow'[a] = w
                                    /\ headRow = w => headRow' = w
BY DEF AccountInv, AccountTyped, Released

LEMMA VisitsKeep ==
  ASSUME AccountInv, NEW v \in Visits,
         \/ FindSession(v) \/ LetIn(v) \/ Finish(v) \/ TakeTarget(v) \/ TakeHead(v) \/ Undo(v)
         \/ \E l \in Logins : SignIn(v, l)
         \/ \E target \in Accounts, key \in CommandKeys, to \in NewStatuses : Command(v, target, key, to)
  PROVE  AccountInv'
<1>0. /\ AccountTyped /\ VisitWell(v) /\ visit[v] \in VisitRows /\ DOMAIN visit = Visits
      /\ visit \in [Visits -> VisitRows]
      /\ userRow \in [Accounts -> Visits \union {Nobody}] /\ headRow \in Visits \union {Nobody}
      /\ accountStatus \in [Accounts -> Standing] /\ enabled \in [Accounts -> BOOLEAN]
      /\ Nobody \notin Visits
  BY AccountAssumption DEF AccountInv, AccountTyped
<1>1. Away \in VisitRows /\ Away.step = "out"
  BY AwayIsWell
<1>2. ASSUME visit' = [visit EXCEPT ![v] = Away] PROVE VisitWell(v)'
  BY <1>0, <1>1, <1>2 DEF VisitWell
<1>3. \A step \in Steps : LET row == [visit[v] EXCEPT !.step = step] IN
        /\ row \in VisitRows /\ row.step = step /\ row.login = visit[v].login
        /\ row.target = visit[v].target /\ row.key = visit[v].key /\ row.to = visit[v].to
        /\ row.from = visit[v].from /\ row.was = visit[v].was
  BY <1>0 DEF VisitRows
<1>4. ASSUME UNCHANGED <<tables, locks>>, visit[v].step # "out",
             \/ LeaveVisit(v) \/ \E step \in {"found", "in"} : GoTo(v, step)
      PROVE  AccountInv'
  <2>1. UNCHANGED tables /\ UNCHANGED <<userRow, headRow>>
    BY <1>4 DEF locks
  <2>2. CASE LeaveVisit(v)
    <3>1. visit' = [visit EXCEPT ![v] = Away]
      BY <2>2 DEF LeaveVisit
    <3> QED
      BY <1>0, <1>1, <1>2, <2>1, <3>1, TablesStay
  <2>3. ASSUME NEW step \in {"found", "in"}, GoTo(v, step) PROVE AccountInv'
    <3> DEFINE row == [visit[v] EXCEPT !.step = step]
    <3>1. visit' = [visit EXCEPT ![v] = row]
      BY <2>3 DEF GoTo
    <3>2. row \in VisitRows /\ row.step = step /\ row.login = visit[v].login
      BY <1>3 DEF Steps
    <3> HIDE DEF row
    <3>3. visit'[v] = row
      BY <1>0, <3>1
    <3>4. VisitWell(v)'
      BY <1>0, <1>4, <3>2, <3>3 DEF VisitWell
    <3> QED
      BY <1>0, <2>1, <3>1, <3>2, <3>4, TablesStay
  <2> QED
    BY <1>4, <2>2, <2>3
<1>5. CASE FindSession(v) \/ LetIn(v) \/ Finish(v)
  <2>1. /\ UNCHANGED <<tables, locks>> /\ visit[v].step # "out"
        /\ LeaveVisit(v) \/ \E step \in {"found", "in"} : GoTo(v, step)
    BY <1>5 DEF FindSession, LetIn, Finish, VisitAt
  <2> QED
    BY <1>4, <2>1
<1>6. ASSUME NEW l \in Logins, SignIn(v, l) PROVE AccountInv'
  <2> DEFINE row == [Away EXCEPT !.step = "known", !.login = l, !.was = TRUE]
  <2>1. row \in VisitRows /\ row.step = "known" /\ row.login = l
    BY DEF Away, VisitRows, Steps
  <2>2. visit' = [visit EXCEPT ![v] = row] /\ UNCHANGED tables /\ UNCHANGED <<userRow, headRow>>
    BY <1>6 DEF SignIn, locks
  <2> HIDE DEF row
  <2>3. visit'[v] = row
    BY <1>0, <2>2
  <2>4. VisitWell(v)'
    BY <2>1, <2>3 DEF VisitWell
  <2> QED
    BY <1>0, <2>1, <2>2, <2>4, TablesStay
<1>7. ASSUME NEW target \in Accounts, NEW key \in CommandKeys, NEW to \in NewStatuses,
             Command(v, target, key, to)
      PROVE  AccountInv'
  <2> DEFINE u == Me(v)
             row == [visit[v] EXCEPT !.step = "self", !.target = target, !.key = key, !.to = to]
  <2>1. /\ visit[v].step = "in" /\ userRow[u] = Nobody /\ UNCHANGED tables /\ UNCHANGED headRow
        /\ u \in Accounts
    BY <1>0, <1>7, OwnersAreAccounts DEF Command, VisitAt, VisitWell, Me
  <2>2. CASE Answered(u, target, key) # {} \/ (u = target /\ to # "active")
    <3>1. visit' = [visit EXCEPT ![v] = Away] /\ UNCHANGED userRow
      BY <1>7, <2>2 DEF Command, LeaveVisit
    <3> QED
      BY <1>0, <1>1, <1>2, <2>1, <3>1, TablesStay
  <2>3. CASE ~(Answered(u, target, key) # {} \/ (u = target /\ to # "active"))
    <3>1. visit' = [visit EXCEPT ![v] = row] /\ userRow' = [userRow EXCEPT ![u] = v]
      BY <1>7, <2>3 DEF Command
    <3>2. /\ row \in VisitRows /\ row.step = "self" /\ row.login = visit[v].login
          /\ row.target = target /\ row.key = key /\ row.to = to
      BY <1>0 DEF VisitRows, Steps
    <3>3. \A c \in privileged : ~(c.actor = u /\ c.target = target /\ c.key = key)
      BY <2>3 DEF Answered
    <3>4. Me(v)' = u
      BY <1>0, <3>1, <3>2 DEF Me
    <3> HIDE DEF row
    <3>5. visit'[v] = row /\ userRow'[u] = v /\ userRow' \in [Accounts -> Visits \union {Nobody}]
          /\ privileged' = privileged
      BY <1>0, <2>1, <3>1 DEF tables
    <3>6. \A w \in Visits \ {v} : \A a \in Accounts : userRow[a] = w => userRow'[a] = w
      BY <1>0, <2>1, <3>1
    <3>7. VisitWell(v)'
      <4>1. visit[v].login \in Logins
        BY <1>0, <2>1 DEF VisitWell
      <4> HIDE DEF u
      <4> QED
        BY <2>3, <3>2, <3>3, <3>4, <3>5, <4>1 DEF VisitWell
    <3> QED
      BY <1>0, <2>1, <3>1, <3>2, <3>5, <3>6, <3>7, TablesStay
  <2> QED
    BY <2>2, <2>3
<1>8. CASE TakeTarget(v)
  <2> DEFINE u == visit[v].target
             row == [visit[v] EXCEPT !.step = "target", !.from = accountStatus[u],
                                     !.was = IF u = Me(v) THEN @ ELSE enabled[u]]
  <2>1. /\ visit[v].step = "self" /\ userRow[u] \in {Nobody, v} /\ UNCHANGED tables /\ UNCHANGED headRow
        /\ userRow' = [userRow EXCEPT ![u] = IF @ = Nobody THEN v ELSE @]
        /\ visit' = [visit EXCEPT ![v] = row]
    BY <1>8 DEF TakeTarget, VisitAt, TargetFree
  <2>2. u \in Accounts /\ Me(v) \in Accounts
    BY <1>0, <2>1, OwnersAreAccounts DEF VisitWell, Me
  <2>3. /\ row \in VisitRows /\ row.step = "target" /\ row.login = visit[v].login
        /\ row.target = u /\ row.key = visit[v].key /\ row.to = visit[v].to
        /\ row.from = accountStatus[u] /\ (u # Me(v) => row.was = enabled[u])
    <3>1. accountStatus[u] \in Standing /\ enabled[u] \in BOOLEAN
      BY <1>0, <2>2
    <3> QED
      BY <1>0, <3>1 DEF VisitRows, Steps
  <2> HIDE DEF row
  <2>4. visit'[v] = row /\ userRow'[u] = v /\ userRow' \in [Accounts -> Visits \union {Nobody}]
    BY <1>0, <2>1, <2>2
  <2>5. \A w \in Visits \ {v} : \A a \in Accounts : userRow[a] = w => userRow'[a] = w
    BY <1>0, <2>1
  <2>6. userRow'[Me(v)] = v /\ Me(v)' = Me(v)
    <3>1. userRow[Me(v)] = v
      BY <1>0, <2>1 DEF VisitWell
    <3> QED
      BY <1>0, <2>1, <2>2, <2>3, <2>4, <3>1 DEF Me
  <2>7. VisitWell(v)'
    <3>1. /\ visit[v].login \in Logins /\ visit[v].to \in NewStatuses
          /\ \A c \in privileged : ~(c.actor = Me(v) /\ c.target = u /\ c.key = visit[v].key)
          /\ u = Me(v) => visit[v].to = "active"
      BY <1>0, <2>1 DEF VisitWell
    <3>2. privileged' = privileged /\ accountStatus' = accountStatus /\ enabled' = enabled
      BY <2>1 DEF tables
    <3> HIDE DEF u
    <3> QED
      BY <2>2, <2>3, <2>4, <2>6, <3>1, <3>2 DEF VisitWell
  <2> QED
    BY <1>0, <2>1, <2>3, <2>4, <2>5, <2>7, TablesStay
<1>9. CASE TakeHead(v)
  <2> DEFINE row == [visit[v] EXCEPT !.step = "head"]
  <2>1. /\ visit[v].step = "target" /\ headRow = Nobody /\ headRow' = v
        /\ visit' = [visit EXCEPT ![v] = row] /\ UNCHANGED tables /\ UNCHANGED userRow
    BY <1>9 DEF TakeHead, VisitAt, GoTo
  <2>2. /\ row \in VisitRows /\ row.step = "head" /\ row.login = visit[v].login
        /\ row.target = visit[v].target /\ row.key = visit[v].key /\ row.to = visit[v].to
        /\ row.from = visit[v].from /\ row.was = visit[v].was
    BY <1>3 DEF Steps
  <2> HIDE DEF row
  <2>3. visit'[v] = row /\ Me(v)' = Me(v)
    BY <1>0, <2>1, <2>2 DEF Me
  <2>4. VisitWell(v)'
    <3>1. privileged' = privileged /\ accountStatus' = accountStatus /\ enabled' = enabled
      BY <2>1 DEF tables
    <3> QED
      BY <1>0, <2>1, <2>2, <2>3, <3>1 DEF VisitWell
  <2> QED
    BY <1>0, <2>1, <2>2, <2>4, TablesStay
<1>10. CASE Undo(v)
  <2>1. Released(v) /\ visit' = [visit EXCEPT ![v] = Away] /\ UNCHANGED tables
    BY <1>10 DEF Undo, LeaveVisit
  <2> QED
    BY <1>1, <1>2, <2>1, ReleasedKeeps, TablesStay
<1> QED
  BY <1>5, <1>6, <1>7, <1>8, <1>9, <1>10

\* The step of a request that changes only the logins.
LEMMA LoginsKeep ==
  ASSUME AccountInv, NEW v \in Visits,
         WriteSession(v) \/ \E l \in Logins : Revoke(v, l)
  PROVE  AccountInv'
<1>0. AccountTyped /\ VisitWell(v) /\ visit[v] \in VisitRows
  BY DEF AccountInv, AccountTyped
<1>1. UNCHANGED <<accountStatus, enabled, events, audits, head, privileged, userRow, headRow>>
  BY DEF WriteSession, Revoke, locks
<1>2. PICK l \in Logins :
        \/ logins' = [logins EXCEPT ![l] = IF @ = "none" THEN "open" ELSE @] /\ shut' = shut
        \/ logins' = [logins EXCEPT ![l] = "revoked"] /\ shut' = shut \union {l}
  BY <1>0 DEF WriteSession, Revoke, VisitAt, VisitWell
<1>3. \E row \in VisitRows : /\ visit' = [visit EXCEPT ![v] = row]
                             /\ \/ row.step = "out"
                                \/ row.step = "written" /\ row.login \in Logins
  <2>1. CASE LeaveVisit(v)
    BY <2>1, AwayIsWell DEF LeaveVisit
  <2>2. CASE GoTo(v, "written") /\ visit[v].step = "found"
    <3> DEFINE row == [visit[v] EXCEPT !.step = "written"]
    <3>1. row \in VisitRows /\ row.step = "written" /\ row.login = visit[v].login
      BY <1>0 DEF VisitRows, Steps
    <3> QED
      BY <1>0, <2>2, <3>1 DEF GoTo, VisitWell
  <2> QED
    BY <2>1, <2>2 DEF WriteSession, Revoke, VisitAt
<1>4. PICK row \in VisitRows : /\ visit' = [visit EXCEPT ![v] = row]
                               /\ \/ row.step = "out"
                                  \/ row.step = "written" /\ row.login \in Logins
  BY <1>3
<1>5. visit'[v] = row /\ \A w \in Visits \ {v} : visit'[w] = visit[w]
  BY <1>0, <1>4 DEF AccountTyped
<1>6. AccountTyped'
  BY <1>0, <1>1, <1>2, <1>4 DEF AccountTyped
<1>7. ASSUME NEW w \in Visits PROVE VisitWell(w)'
  <2>1. CASE w = v
    BY <1>4, <1>5, <2>1 DEF VisitWell
  <2>2. CASE w # v
    <3>1. VisitWell(w) /\ visit'[w] = visit[w]
      BY <1>5, <2>2 DEF AccountInv
    <3> QED
      BY <1>0, <1>1, <3>1, OthersStay
  <2> QED
    BY <2>1, <2>2
<1>8. AuditChain'
  BY <1>1 DEF AccountInv, AuditChain
<1>9. AccountStory'
  <2>1. \A k \in shut' : logins'[k] = "revoked"
    BY <1>0, <1>2 DEF AccountInv, AccountStory, AccountTyped
  <2> QED
    BY <1>1, <2>1 DEF AccountInv, AccountStory, LeftIn
<1> QED
  BY <1>6, <1>7, <1>8, <1>9 DEF AccountInv

\* One event more: the story of its user ends in the new status, the others go on.
LEMMA StoryGoesOn ==
  ASSUME AccountInv, NEW u \in Accounts, NEW to \in Standing,
         events' = Append(events, [user |-> u, from |-> accountStatus[u], to |-> to]),
         accountStatus' = [accountStatus EXCEPT ![u] = to],
         enabled' \in [Accounts -> BOOLEAN],
         \A a \in Accounts \ {u} : enabled'[a] = enabled[a],
         to = "disabled" => ~enabled'[u],
         \A l \in shut' : logins'[l] = "revoked"
  PROVE  AccountStory' /\ events' \in Seq(AccountEvents)
<1> DEFINE row == [user |-> u, from |-> accountStatus[u], to |-> to]
           n == Len(events)
<1>0. AccountTyped /\ AccountStory
  BY DEF AccountInv
<1>1. /\ row \in AccountEvents /\ row.user = u /\ row.from = accountStatus[u] /\ row.to = to
      /\ accountStatus \in [Accounts -> Standing]
  BY <1>0 DEF AccountEvents, AccountTyped
<1>2. events \in Seq(AccountEvents) /\ events' = Append(events, row)
  BY <1>0 DEF AccountTyped
<1> HIDE DEF row
<1>3. /\ n \in Nat /\ DOMAIN events = 1 .. n /\ DOMAIN events' = 1 .. n + 1 /\ Len(events') = n + 1
      /\ \A i \in 1 .. n : events'[i] = events[i]
      /\ events'[n + 1] = row
      /\ events' \in Seq(AccountEvents)
  BY <1>1, <1>2
<1> HIDE DEF n
<1> DEFINE Told(b, m, st) == \/ \E i \in 1 .. m : /\ events'[i].user = b /\ events'[i].to = st
                                                 /\ \A k \in i + 1 .. m : events'[k].user # b
                             \/ st = "active" /\ \A i \in 1 .. m : events'[i].user # b
<1>4. ASSUME NEW a, NEW m \in 0 .. n, NEW s, LeftIn(a, m, s)
      PROVE  Told(a, m, s)
  <2>1. CASE \E i \in 1 .. m : /\ events[i].user = a /\ events[i].to = s
                               /\ \A k \in i + 1 .. m : events[k].user # a
    <3>1. PICK i \in 1 .. m : /\ events[i].user = a /\ events[i].to = s
                              /\ \A k \in i + 1 .. m : events[k].user # a
      BY <2>1
    <3>2. \A k \in i .. m : events'[k] = events[k]
      BY <1>3
    <3>3. events'[i] = events[i] /\ \A k \in i + 1 .. m : events'[k] = events[k]
      BY <1>3, <3>2
    <3> QED
      BY <3>1, <3>3
  <2>2. CASE s = "active" /\ \A i \in 1 .. m : events[i].user # a
    <3>1. \A i \in 1 .. m : events'[i] = events[i]
      BY <1>3
    <3> QED
      BY <2>2, <3>1
  <2> QED
    BY <1>4, <2>1, <2>2 DEF LeftIn
<1> HIDE DEF Told
<1>5. ASSUME NEW i \in DOMAIN events' PROVE LeftIn(events[i].user, i - 1, events[i].from)'
  <2>1. CASE i \in 1 .. n
    <3>1. LeftIn(events[i].user, i - 1, events[i].from) /\ i - 1 \in 0 .. n
      BY <1>0, <1>3, <2>1 DEF AccountStory
    <3>2. events'[i] = events[i]
      BY <1>3, <2>1
    <3> DEFINE a == events[i].user
               s == events[i].from
    <3>3. Told(a, i - 1, s)
      <4> HIDE DEF a, s
      <4>1. LeftIn(a, i - 1, s)
        BY <3>1 DEF a, s
      <4> QED
        BY <1>4, <3>1, <4>1
    <3> QED
      BY <3>2, <3>3 DEF LeftIn, Told
  <2>2. CASE i = n + 1
    <3> DEFINE s == accountStatus[u]
    <3>1. LeftIn(u, n, s) /\ i - 1 = n /\ n \in 0 .. n
      BY <1>0, <1>3, <2>2 DEF AccountStory, n
    <3>2. events'[i].user = u /\ events'[i].from = s
      BY <1>1, <1>3, <2>2
    <3>3. Told(u, n, s)
      <4> HIDE DEF s
      <4> QED
        BY <1>4, <3>1
    <3>4. i - 1 = n
      BY <3>1
    <3> HIDE DEF s
    <3>5. Told(u, i - 1, s)
      BY <3>3, <3>4
    <3> QED
      BY <3>2, <3>5 DEF LeftIn, Told
  <2> QED
    BY <1>3, <2>1, <2>2
<1>6. ASSUME NEW a \in Accounts
      PROVE  /\ LeftIn(a, Len(events), accountStatus[a])'
             /\ accountStatus'[a] = "disabled" => ~enabled'[a]
  <2>1. CASE a = u
    <3>1. accountStatus'[a] = to /\ events'[n + 1].user = a /\ events'[n + 1].to = to
      BY <1>1, <1>3, <2>1
    <3>2. n + 1 \in 1 .. n + 1 /\ \A k \in (n + 1) + 1 .. n + 1 : FALSE
      BY <1>3
    <3>3. LeftIn(a, Len(events), accountStatus[a])'
      BY <1>3, <3>1, <3>2 DEF LeftIn
    <3> QED
      BY <2>1, <3>1, <3>3
  <2>2. CASE a # u
    <3> DEFINE s == accountStatus[a]
    <3>1. accountStatus'[a] = s /\ enabled'[a] = enabled[a] /\ events'[n + 1].user # a
      BY <1>1, <1>3, <2>2
    <3>2. LeftIn(a, n, s) /\ (s = "disabled" => ~enabled[a]) /\ n \in 0 .. n
      BY <1>0, <1>3 DEF AccountStory, n
    <3>3. Told(a, n, s)
      <4> HIDE DEF s
      <4> QED
        BY <1>4, <3>2
    <3>4. Told(a, n + 1, s)
      <4>1. CASE \E j \in 1 .. n : /\ events'[j].user = a /\ events'[j].to = s
                                   /\ \A k \in j + 1 .. n : events'[k].user # a
        <5>1. PICK j \in 1 .. n : /\ events'[j].user = a /\ events'[j].to = s
                                  /\ \A k \in j + 1 .. n : events'[k].user # a
          BY <4>1
        <5>2. \A k \in j + 1 .. n + 1 : k \in j + 1 .. n \/ k = n + 1
          BY <1>3
        <5>3. j \in 1 .. n + 1
          BY <1>3
        <5> HIDE DEF s
        <5> QED
          BY <3>1, <5>1, <5>2, <5>3 DEF Told
      <4>2. CASE s = "active" /\ \A j \in 1 .. n : events'[j].user # a
        <5>1. \A k \in 1 .. n + 1 : k \in 1 .. n \/ k = n + 1
          BY <1>3
        <5> HIDE DEF s
        <5> QED
          BY <3>1, <4>2, <5>1 DEF Told
      <4> HIDE DEF s
      <4> QED
        BY <3>3, <4>1, <4>2 DEF Told
    <3>5. LeftIn(a, Len(events), accountStatus[a])'
      BY <1>3, <3>1, <3>4 DEF LeftIn, Told
    <3> QED
      BY <3>1, <3>2, <3>5
  <2> QED
    BY <2>1, <2>2
<1> QED
  BY <1>3, <1>5, <1>6 DEF AccountStory

LEMMA AskDeletionKeeps ==
  ASSUME AccountInv, NEW v \in Visits, AskDeletion(v)
  PROVE  AccountInv'
<1> DEFINE u == Me(v)
<1>0. AccountTyped /\ VisitWell(v) /\ Nobody \notin Visits
  BY AccountAssumption DEF AccountInv
<1>1. /\ visit[v].step = "in" /\ userRow[u] = Nobody
      /\ accountStatus' = [accountStatus EXCEPT ![u] = "pending_deletion"]
      /\ events' = Append(events, [user |-> u, from |-> accountStatus[u], to |-> "pending_deletion"])
      /\ visit' = [visit EXCEPT ![v] = Away]
      /\ UNCHANGED <<enabled, logins, audits, head, privileged, shut, userRow, headRow>>
  BY DEF AskDeletion, VisitAt, LeaveVisit, locks
<1>2. u \in Accounts
  BY <1>0, <1>1, OwnersAreAccounts DEF VisitWell, Me
<1> HIDE DEF u
<1>3. AccountStory' /\ events' \in Seq(AccountEvents)
  <2>1. "pending_deletion" \in Standing /\ "pending_deletion" # "disabled"
    BY DEF Standing
  <2>2. \A l \in shut' : logins'[l] = "revoked"
    BY <1>1 DEF AccountInv, AccountStory
  <2>3. enabled' \in [Accounts -> BOOLEAN] /\ \A a \in Accounts \ {u} : enabled'[a] = enabled[a]
    BY <1>0, <1>1 DEF AccountTyped
  <2> QED
    BY <1>1, <1>2, <2>1, <2>2, <2>3, StoryGoesOn
<1>4. AccountTyped'
  BY <1>0, <1>1, <1>2, <1>3, AwayIsWell DEF AccountTyped, Standing
<1>5. AuditChain'
  BY <1>1 DEF AccountInv, AuditChain
<1>6. ASSUME NEW w \in Visits PROVE VisitWell(w)'
  <2>1. CASE w = v
    BY <1>0, <1>1, <2>1, AwayIsWell DEF VisitWell, AccountTyped
  <2>2. CASE w # v
    <3>1. VisitWell(w) /\ visit'[w] = visit[w]
      BY <1>0, <1>1, <2>2 DEF AccountInv, AccountTyped
    <3>2. \A a \in Accounts : userRow[a] = w =>
            userRow'[a] = w /\ accountStatus'[a] = accountStatus[a] /\ enabled'[a] = enabled[a]
      BY <1>0, <1>1, <1>2 DEF AccountTyped
    <3> QED
      BY <1>0, <1>1, <3>1, <3>2, OthersStay
  <2> QED
    BY <2>1, <2>2
<1> QED
  BY <1>3, <1>4, <1>5, <1>6 DEF AccountInv

\* One entry more, numbered after the last one.
LEMMA ChainGoesOn ==
  ASSUME AccountInv, NEW action \in {"update", "read"},
         audits' = Append(audits, [number |-> head + 1, after |-> head, action |-> action]),
         head' = head + 1
  PROVE  /\ audits' \in Seq(AuditRows) /\ head' \in Nat
         /\ \A i \in DOMAIN audits' : audits'[i].number = i /\ audits'[i].after = i - 1
         /\ head' = Len(audits')
         /\ IF action = "update"
              THEN Cardinality({i \in DOMAIN audits' : audits'[i].action = "update"}) =
                     Cardinality({i \in DOMAIN audits : audits[i].action = "update"}) + 1
              ELSE Cardinality({i \in DOMAIN audits' : audits'[i].action = "update"}) =
                     Cardinality({i \in DOMAIN audits : audits[i].action = "update"})
<1> DEFINE row == [number |-> head + 1, after |-> head, action |-> action]
           U == {i \in DOMAIN audits : audits[i].action = "update"}
           V == {i \in DOMAIN audits' : audits'[i].action = "update"}
           n == Len(audits)
<1>0. AccountTyped /\ AuditChain
  BY DEF AccountInv
<1>1. head \in Nat /\ audits \in Seq(AuditRows) /\ head = n
  BY <1>0 DEF AccountTyped, AuditChain
<1>2. row \in AuditRows /\ row.number = n + 1 /\ row.after = n /\ row.action = action
  BY <1>1 DEF AuditRows
<1>3. audits' = Append(audits, row)
  OBVIOUS
<1> HIDE DEF row
<1>4. /\ n \in Nat /\ DOMAIN audits = 1 .. n /\ DOMAIN audits' = 1 .. n + 1 /\ Len(audits') = n + 1
      /\ \A i \in 1 .. n : audits'[i] = audits[i]
      /\ audits'[n + 1] = row /\ audits' \in Seq(AuditRows)
  BY <1>1, <1>2, <1>3
<1> HIDE DEF n
<1>5. \A i \in DOMAIN audits' : audits'[i].number = i /\ audits'[i].after = i - 1
  <2>1. \A i \in 1 .. n : audits'[i].number = i /\ audits'[i].after = i - 1
    BY <1>0, <1>4 DEF AuditChain
  <2> QED
    BY <1>2, <1>4, <2>1
<1>6. n + 1 \notin DOMAIN audits /\ DOMAIN audits' = DOMAIN audits \union {n + 1}
  BY <1>4
<1>7. V = IF action = "update" THEN U \union {n + 1} ELSE U
  BY <1>2, <1>4, <1>6
<1>8. IsFiniteSet(U) /\ n + 1 \notin U
  <2>1. IsFiniteSet(1 .. n)
    BY <1>4, FS_Interval
  <2>2. U \subseteq 1 .. n
    BY <1>4
  <2> QED
    BY <1>6, <2>1, <2>2, FS_Subset
<1> HIDE DEF U, V
<1>9. action = "update" => Cardinality(V) = Cardinality(U) + 1
  BY <1>7, <1>8, OneMore
<1>10. action # "update" => Cardinality(V) = Cardinality(U)
  BY <1>7
<1>11. head' \in Nat /\ head' = Len(audits')
  BY <1>1, <1>4
<1> QED
  BY <1>4, <1>5, <1>9, <1>10, <1>11 DEF U, V

LEMMA ReadKeeps ==
  ASSUME AccountInv, NEW v \in Visits, Read(v)
  PROVE  AccountInv'
<1>0. AccountTyped
  BY DEF AccountInv
<1>1. /\ audits' = Append(audits, [number |-> head + 1, after |-> head, action |-> "read"])
      /\ head' = head + 1 /\ visit' = [visit EXCEPT ![v] = Away]
      /\ UNCHANGED <<accountStatus, enabled, logins, events, privileged, shut, userRow, headRow>>
  BY DEF Read, LeaveVisit, locks
<1>2. /\ audits' \in Seq(AuditRows) /\ head' \in Nat
      /\ \A i \in DOMAIN audits' : audits'[i].number = i /\ audits'[i].after = i - 1
      /\ head' = Len(audits')
      /\ Cardinality({i \in DOMAIN audits' : audits'[i].action = "update"}) =
           Cardinality({i \in DOMAIN audits : audits[i].action = "update"})
  BY <1>1, ChainGoesOn
<1>3. AuditChain'
  BY <1>1, <1>2 DEF AccountInv, AuditChain
<1>4. AccountStory'
  BY <1>1 DEF AccountInv, AccountStory, LeftIn
<1>5. AccountTyped'
  BY <1>0, <1>1, <1>2, AwayIsWell DEF AccountTyped
<1>6. ASSUME NEW w \in Visits PROVE VisitWell(w)'
  <2>1. CASE w = v
    BY <1>0, <1>1, <2>1, AwayIsWell DEF VisitWell, AccountTyped
  <2>2. CASE w # v
    <3>1. VisitWell(w) /\ visit'[w] = visit[w]
      BY <1>0, <1>1, <2>2 DEF AccountInv, AccountTyped
    <3> QED
      BY <1>0, <1>1, <3>1, OthersStay
  <2> QED
    BY <2>1, <2>2
<1> QED
  BY <1>3, <1>4, <1>5, <1>6 DEF AccountInv

\* The locks make the command the only one to change its account and to have its key.
LEMMA CommitStatusKeeps ==
  ASSUME AccountInv, NEW v \in Visits, CommitStatus(v)
  PROVE  AccountInv'
<1> DEFINE t == visit[v].target
           to == visit[v].to
           ended == IF to = "active" THEN {} ELSE Ends(v)
           change == [actor |-> Me(v), target |-> t, key |-> visit[v].key, to |-> to]
<1>0. AccountTyped /\ VisitWell(v) /\ Nobody \notin Visits /\ AuditChain /\ AccountStory
  BY AccountAssumption DEF AccountInv
<1>1. /\ visit[v].step = "head"
      /\ accountStatus' = [accountStatus EXCEPT ![t] = to]
      /\ enabled' = [enabled EXCEPT ![t] = NowEnabled(v)]
      /\ logins' = [l \in Logins |-> IF l \in ended THEN "revoked" ELSE logins[l]]
      /\ shut' = shut \union ended
      /\ events' = Append(events, [user |-> t, from |-> visit[v].from, to |-> to])
      /\ privileged' = privileged \union {change}
      /\ audits' = Append(audits, [number |-> head + 1, after |-> head, action |-> "update"])
      /\ head' = head + 1
      /\ Released(v)
      /\ visit' = [visit EXCEPT ![v] = Away]
  BY DEF CommitStatus, VisitAt, LeaveVisit
<1>2. /\ t \in Accounts /\ to \in NewStatuses /\ Me(v) \in Accounts
      /\ userRow[Me(v)] = v /\ userRow[t] = v
      /\ \A c \in privileged : ~(c.actor = Me(v) /\ c.target = t /\ c.key = visit[v].key)
      /\ t = Me(v) => to = "active"
      /\ visit[v].from = accountStatus[t]
      /\ t # Me(v) => visit[v].was = enabled[t]
  BY <1>0, <1>1, OwnersAreAccounts DEF VisitWell, Me
<1>3. ended \subseteq Logins
  BY DEF Ends
<1>4. NowEnabled(v) \in BOOLEAN /\ (to = "disabled" => ~NowEnabled(v))
  <2>1. enabled[t] \in BOOLEAN
    BY <1>0, <1>2 DEF AccountTyped
  <2> QED
    BY <1>2, <2>1 DEF NowEnabled
<1>5. change.actor = Me(v) /\ change.target = t /\ change.key = visit[v].key
  OBVIOUS
<1> DEFINE key == visit[v].key
           me == Me(v)
<1> HIDE DEF ended, change, t, to, key, me
<1>6. AccountStory' /\ events' \in Seq(AccountEvents)
  <2>1. to \in Standing
    BY <1>2 DEF NewStatuses, Standing
  <2>2. \A l \in shut' : logins'[l] = "revoked"
    BY <1>0, <1>1, <1>3 DEF AccountStory, AccountTyped
  <2>3. /\ enabled' \in [Accounts -> BOOLEAN] /\ \A a \in Accounts \ {t} : enabled'[a] = enabled[a]
        /\ to = "disabled" => ~enabled'[t]
    BY <1>0, <1>1, <1>2, <1>4 DEF AccountTyped
  <2> QED
    BY <1>1, <1>2, <2>1, <2>2, <2>3, StoryGoesOn
<1>7. /\ audits' \in Seq(AuditRows) /\ head' \in Nat
      /\ \A i \in DOMAIN audits' : audits'[i].number = i /\ audits'[i].after = i - 1
      /\ head' = Len(audits')
      /\ Cardinality({i \in DOMAIN audits' : audits'[i].action = "update"}) =
           Cardinality({i \in DOMAIN audits : audits[i].action = "update"}) + 1
  BY <1>1, ChainGoesOn
<1>8. change \notin privileged
  BY <1>2, <1>5 DEF key, me
<1>9. IsFiniteSet(privileged') /\ Cardinality(privileged') = Cardinality(privileged) + 1
  BY <1>0, <1>1, <1>8, OneMore DEF AccountTyped
<1>10. AccountTyped'
  <2>1. /\ accountStatus' \in [Accounts -> Standing] /\ enabled' \in [Accounts -> BOOLEAN]
    BY <1>0, <1>1, <1>2, <1>4 DEF AccountTyped, NewStatuses, Standing
  <2>2. logins' \in [Logins -> {"none", "open", "revoked"}] /\ shut' \subseteq Logins
    BY <1>0, <1>1, <1>3 DEF AccountTyped
  <2>3. visit' \in [Visits -> VisitRows]
    BY <1>0, <1>1, AwayIsWell DEF AccountTyped
  <2>4. userRow' \in [Accounts -> Visits \union {Nobody}] /\ headRow' \in Visits \union {Nobody}
    BY <1>1, ReleasedKeeps
  <2> QED
    BY <1>6, <1>7, <1>9, <2>1, <2>2, <2>3, <2>4 DEF AccountTyped
<1>11. AuditChain'
  <2>1. \A c, d \in privileged' :
          c.actor = d.actor /\ c.target = d.target /\ c.key = d.key => c = d
    <3>1. \A c \in privileged :
            ~(c.actor = change.actor /\ c.target = change.target /\ c.key = change.key)
      BY <1>2, <1>5
    <3> QED
      BY <1>0, <1>1, <3>1 DEF AuditChain
  <2> QED
    BY <1>0, <1>7, <1>9, <2>1 DEF AuditChain
<1>12. ASSUME NEW w \in Visits PROVE VisitWell(w)'
  <2>1. CASE w = v
    BY <1>0, <1>1, <2>1, AwayIsWell DEF VisitWell, AccountTyped
  <2>2. CASE w # v
    <3>1. VisitWell(w) /\ visit'[w] = visit[w]
      BY <1>0, <1>1, <2>2 DEF AccountInv, AccountTyped
    <3>2. \A a \in Accounts : userRow[a] = w =>
            userRow'[a] = w /\ accountStatus'[a] = accountStatus[a] /\ enabled'[a] = enabled[a]
      <4> SUFFICES ASSUME NEW a \in Accounts, userRow[a] = w
                   PROVE  userRow'[a] = w /\ accountStatus'[a] = accountStatus[a] /\ enabled'[a] = enabled[a]
        OBVIOUS
      <4>1. a # t
        BY <1>2, <2>2
      <4>2. userRow'[a] = w
        BY <1>1, <2>2, ReleasedKeeps
      <4> QED
        BY <1>0, <1>1, <1>2, <4>1, <4>2 DEF AccountTyped
    <3>3. headRow = w => headRow' = w
      BY <1>1, <2>2, ReleasedKeeps
    <3>4. \A c \in privileged' \ privileged : c.actor \in Accounts /\ userRow[c.actor] # w
      BY <1>1, <1>2, <1>5, <2>2
    <3> QED
      BY <1>0, <3>1, <3>2, <3>3, <3>4, OthersStay
  <2> QED
    BY <2>1, <2>2
<1> QED
  BY <1>6, <1>10, <1>11, <1>12 DEF AccountInv

LEMMA AccountKeeps ==
  ASSUME AccountInv, [AccountNext]_accountVars
  PROVE  AccountInv'
<1>1. CASE AccountNext
  <2>1. PICK v \in Visits :
          \/ FindSession(v) \/ WriteSession(v) \/ LetIn(v) \/ Finish(v)
          \/ AskDeletion(v) \/ TakeTarget(v) \/ TakeHead(v) \/ CommitStatus(v) \/ Undo(v) \/ Read(v)
          \/ \E l \in Logins : SignIn(v, l) \/ Revoke(v, l)
          \/ \E target \in Accounts, key \in CommandKeys, to \in NewStatuses :
               Command(v, target, key, to)
    BY <1>1 DEF AccountNext, NewStatuses
  <2> QED
    BY <2>1, VisitsKeep, LoginsKeep, AskDeletionKeeps, ReadKeeps, CommitStatusKeeps
<1>2. CASE UNCHANGED accountVars
  <2>1. UNCHANGED <<accountStatus, enabled, logins, visit, userRow, headRow, events, audits,
                    head, privileged, shut>>
    BY <1>2 DEF accountVars
  <2> QED
    BY <2>1 DEF AccountInv, AccountTyped, VisitWell, Me, AccountStory, LeftIn, AuditChain
<1> QED
  BY <1>1, <1>2

LEMMA AccountInvMeans ==
  ASSUME AccountInv
  PROVE  AccountTypeOK /\ AccountsAreAccounted
<1>1. AccountTypeOK
  <2>1. \A i \in DOMAIN events : events[i] \in AccountEvents
    BY DEF AccountInv, AccountTyped
  <2>2. \A v \in Visits : visit[v] \in VisitRows
    BY DEF AccountInv, AccountTyped
  <2> QED
    BY <2>1, <2>2 DEF AccountInv, AccountTyped, AccountTypeOK, AccountEvents, VisitRows
<1>2. AccountsAreAccounted
  BY DEF AccountInv, AccountsAreAccounted
<1> QED
  BY <1>1, <1>2

-----------------------------------------------------------------------------
(* Consent.                                                                *)

DecisionRows == [version : PolicyVersions, status : ConsentAnswers, alone : BOOLEAN]
WritingRows == [at : {"rest", "claim", "read", "write", "answer"}, decision : Nat, saw : ConsentRows]

ConsentTyped ==
  /\ consents \in [PolicyVersions -> ConsentRows] /\ inUse \in PolicyVersions
  /\ decisions \in Seq(DecisionRows)
  /\ recorded \subseteq DOMAIN decisions /\ known \subseteq recorded
  /\ writing \in [ConsentCalls -> WritingRows]

\* The last decision on its version, made in the knowledge of those before it.
Governing(d) ==
  /\ d \in DOMAIN decisions /\ decisions[d].alone
  /\ \A e \in Made(decisions[d].version) : e <= d

\* What a request has in hand: a decision that is recorded only if the request is to answer,
\* and the row as it is if the decision is to govern.
WrittenWell(c) ==
  /\ writing[c].decision \in {0} \union DOMAIN decisions
  /\ writing[c].at # "rest" => writing[c].decision \in DOMAIN decisions
  /\ writing[c].at = "answer" => writing[c].decision \in recorded
  /\ writing[c].at \in {"read", "write"} => writing[c].decision \notin recorded
  /\ writing[c].at = "write" /\ Governing(writing[c].decision) =>
       writing[c].saw = consents[Deciding(c).version]

WritersApart ==
  \A c, o \in ConsentCalls :
    writing[c].at \in {"read", "write"} /\ writing[o].at \in {"read", "write"} /\ c # o =>
      writing[c].decision # writing[o].decision

ConsentSettled ==
  /\ \A v \in PolicyVersions : Made(v) = {} => consents[v] = NoConsent
  /\ \A d \in DOMAIN decisions :
       decisions[d].alone => \A e \in Made(decisions[d].version) : e < d => e \in known
  /\ \A d \in recorded :
       Governing(d) => consents[decisions[d].version] =
                         [status |-> decisions[d].status, withdrawn |-> decisions[d].status = "withdrawn"]

ConsentInv ==
  /\ ConsentTyped /\ \A c \in ConsentCalls : WrittenWell(c)
  /\ WritersApart /\ ConsentSettled
  /\ begun \subseteq PolicyVersions \X {"granted", "open"}

LEMMA ConsentStarts ==
  ASSUME ConsentInit
  PROVE  ConsentInv
<1>1. NoConsent \in ConsentRows /\ AtRest \in WritingRows /\ AtRest.at = "rest" /\ AtRest.decision = 0
  BY DEF NoConsent, ConsentRows, AtRest, WritingRows
<1>2. decisions = <<>> /\ DOMAIN decisions = {} /\ decisions \in Seq(DecisionRows)
  BY DEF ConsentInit
<1>3. ConsentTyped
  BY <1>1, <1>2, ConsentAssumption DEF ConsentInit, ConsentTyped, PolicyVersions
<1>4. \A c \in ConsentCalls : WrittenWell(c)
  BY <1>1 DEF ConsentInit, WrittenWell
<1>5. WritersApart
  BY <1>1 DEF ConsentInit, WritersApart
<1>6. ConsentSettled
  BY <1>2 DEF ConsentInit, ConsentSettled
<1> QED
  BY <1>3, <1>4, <1>5, <1>6 DEF ConsentInv, ConsentInit

\* The step of a request that writes no row of consents.
LEMMA OneAsks ==
  ASSUME ConsentInv, NEW c \in ConsentCalls, NEW row \in WritingRows,
         writing' = [writing EXCEPT ![c] = row],
         known' = known \/ (known' = known \union {writing[c].decision} /\ writing[c].at = "answer"),
         UNCHANGED <<consents, inUse, recorded, decisions, begun>>,
         row.decision \in {0} \union DOMAIN decisions,
         row.at # "rest" => row.decision \in DOMAIN decisions,
         row.at = "answer" => row.decision \in recorded,
         row.at \in {"read", "write"} =>
           /\ row.decision \notin recorded
           /\ \A o \in ConsentCalls \ {c} :
                writing[o].at \in {"read", "write"} => writing[o].decision # row.decision,
         row.at = "write" => row.saw = consents[decisions[row.decision].version]
  PROVE  ConsentInv'
<1>0. ConsentTyped /\ WritersApart /\ ConsentSettled /\ WrittenWell(c)
  BY DEF ConsentInv
<1>1. /\ writing'[c] = row /\ writing' \in [ConsentCalls -> WritingRows]
      /\ \A o \in ConsentCalls \ {c} : writing'[o] = writing[o]
  BY <1>0 DEF ConsentTyped
<1>2. known \subseteq known' /\ known' \subseteq recorded
  BY <1>0 DEF ConsentTyped, WrittenWell
<1>3. ConsentTyped'
  BY <1>0, <1>1, <1>2 DEF ConsentTyped
<1>4. WrittenWell(c)'
  BY <1>1 DEF WrittenWell, Deciding, Governing, Made
<1>5. ASSUME NEW o \in ConsentCalls, o # c PROVE WrittenWell(o)'
  <2>1. WrittenWell(o) /\ writing'[o] = writing[o]
    BY <1>1, <1>5 DEF ConsentInv
  <2> QED
    BY <2>1 DEF WrittenWell, Deciding, Governing, Made
<1>6. WritersApart'
  <2> SUFFICES ASSUME NEW o \in ConsentCalls, NEW e \in ConsentCalls, o # e,
                      writing'[o].at \in {"read", "write"}, writing'[e].at \in {"read", "write"}
               PROVE  writing'[o].decision # writing'[e].decision
    BY DEF WritersApart
  <2>1. CASE o = c
    BY <1>1, <2>1
  <2>2. CASE e = c
    BY <1>1, <2>2
  <2>3. CASE o # c /\ e # c
    BY <1>0, <1>1, <2>3 DEF WritersApart
  <2> QED
    BY <2>1, <2>2, <2>3
<1>7. ConsentSettled'
  BY <1>0, <1>2 DEF ConsentSettled, Governing, Made
<1> QED
  BY <1>3, <1>4, <1>5, <1>6, <1>7 DEF ConsentInv

LEMMA DecideConsentKeeps ==
  ASSUME ConsentInv, NEW v \in PolicyVersions, NEW s \in ConsentAnswers, DecideConsent(v, s)
  PROVE  ConsentInv'
<1> DEFINE d == Len(decisions) + 1
           row == [version |-> v, status |-> s, alone |-> Made(v) \subseteq known]
<1>0. ConsentTyped /\ WritersApart /\ ConsentSettled /\ \A c \in ConsentCalls : WrittenWell(c)
  BY DEF ConsentInv
<1>1. /\ decisions \in Seq(DecisionRows) /\ row \in DecisionRows
      /\ recorded \subseteq DOMAIN decisions /\ known \subseteq recorded
  BY <1>0 DEF ConsentTyped, DecisionRows
<1>2. /\ decisions' = Append(decisions, row)
      /\ UNCHANGED <<consents, inUse, recorded, writing, known, begun>>
  BY DEF DecideConsent
<1>r. row.version = v /\ row.alone = (Made(v) \subseteq known)
  OBVIOUS
<1> HIDE DEF row
<1>3. /\ decisions' \in Seq(DecisionRows) /\ DOMAIN decisions' = DOMAIN decisions \union {d}
      /\ d \notin DOMAIN decisions /\ decisions'[d] = row
      /\ \A e \in DOMAIN decisions : decisions'[e] = decisions[e] /\ e \in Nat /\ e < d
      /\ d \in Nat
  BY <1>1, <1>2
<1> HIDE DEF d
<1>4. \A u, e : e \in DOMAIN decisions' /\ decisions'[e].version = u
                   <=> (e \in DOMAIN decisions /\ decisions[e].version = u) \/ (e = d /\ u = v)
  BY <1>3, <1>r
<1>5. \A e \in DOMAIN decisions : Governing(e)' => Governing(e)
  <2> SUFFICES ASSUME NEW e \in DOMAIN decisions, Governing(e)' PROVE Governing(e)
    OBVIOUS
  <2> QED
    BY <1>3, <1>4 DEF Governing, Made
<1>6. ConsentTyped'
  BY <1>0, <1>2, <1>3 DEF ConsentTyped
<1>7. ASSUME NEW c \in ConsentCalls PROVE WrittenWell(c)'
  <2>1. WrittenWell(c) /\ writing'[c] = writing[c]
    BY <1>0, <1>2
  <2>2. writing[c].decision \in DOMAIN decisions =>
          decisions'[writing[c].decision] = decisions[writing[c].decision]
    BY <1>3
  <2> QED
    BY <1>2, <1>3, <1>5, <2>1, <2>2 DEF WrittenWell, Deciding
<1>8. WritersApart'
  BY <1>0, <1>2 DEF WritersApart
<1>9. ConsentSettled'
  <2>1. \A u \in PolicyVersions : Made(u)' = {} => consents'[u] = NoConsent
    BY <1>0, <1>2, <1>4 DEF ConsentSettled, Made
  <2>2. ASSUME NEW e \in DOMAIN decisions', decisions'[e].alone, NEW f \in DOMAIN decisions',
               decisions'[f].version = decisions'[e].version, f < e
        PROVE  f \in known'
    <3>1. CASE e = d
      <4>1. f \in Made(v)
        BY <1>3, <1>r, <2>2, <3>1 DEF Made
      <4> QED
        BY <1>2, <1>3, <1>r, <2>2, <3>1, <4>1
    <3>2. CASE e # d
      <4>1. e \in DOMAIN decisions /\ decisions'[e] = decisions[e]
        BY <1>3, <2>2, <3>2
      <4>2. f # d
        BY <1>3, <2>2, <4>1
      <4>3. f \in Made(decisions[e].version)
        BY <1>3, <2>2, <4>1, <4>2 DEF Made
      <4> QED
        BY <1>0, <1>2, <2>2, <4>1, <4>3 DEF ConsentSettled
    <3> QED
      BY <3>1, <3>2
  <2>3. \A e \in recorded' :
          Governing(e)' => consents'[decisions'[e].version] =
                 [status |-> decisions'[e].status, withdrawn |-> decisions'[e].status = "withdrawn"]
    BY <1>0, <1>1, <1>2, <1>3, <1>5 DEF ConsentSettled
  <2> QED
    BY <2>1, <2>2, <2>3 DEF ConsentSettled, Made
<1> QED
  BY <1>2, <1>6, <1>7, <1>8, <1>9 DEF ConsentInv

\* Whoever governs a version is the only one to write its row.
LEMMA WriteRowKeeps ==
  ASSUME ConsentInv, NEW c \in ConsentCalls, WriteRow(c)
  PROVE  ConsentInv'
<1> DEFINE k == writing[c].decision
           v == decisions[k].version
           new == WrittenOver(consents[v], writing[c].saw, decisions[k].status)
<1>0. ConsentTyped /\ WritersApart /\ ConsentSettled /\ \A o \in ConsentCalls : WrittenWell(o)
  BY DEF ConsentInv
<1>1. /\ writing[c].at = "write" /\ UNCHANGED <<inUse, decisions, known, begun>>
      /\ k \in DOMAIN decisions /\ k \notin recorded /\ writing[c] \in WritingRows
  BY <1>0 DEF WriteRow, WrittenWell, ConsentTyped
<1>2. /\ decisions[k] \in DecisionRows /\ v \in PolicyVersions /\ decisions[k].status \in ConsentAnswers
      /\ consents[v] \in ConsentRows /\ writing[c].saw \in ConsentRows
  <2>1. decisions[k] \in DecisionRows /\ consents \in [PolicyVersions -> ConsentRows]
    BY <1>0, <1>1 DEF ConsentTyped
  <2> QED
    BY <1>1, <2>1 DEF DecisionRows, WritingRows
<1>3. CASE writing[c].saw = NoConsent /\ consents[v] # NoConsent
  <2>1. writing' = [writing EXCEPT ![c] = AtRest] /\ UNCHANGED <<consents, recorded>>
    BY <1>3 DEF WriteRow, Deciding
  <2>2. AtRest \in WritingRows /\ AtRest.at = "rest" /\ AtRest.decision = 0
    BY DEF AtRest, WritingRows, NoConsent, ConsentRows
  <2> QED
    BY <1>1, <2>1, <2>2, OneAsks
<1>4. CASE ~(writing[c].saw = NoConsent /\ consents[v] # NoConsent)
  <2> DEFINE row == [writing[c] EXCEPT !.at = "answer"]
  <2>1. /\ consents' = [consents EXCEPT ![v] = new] /\ recorded' = recorded \union {k}
        /\ writing' = [writing EXCEPT ![c] = row]
    BY <1>4 DEF WriteRow, Deciding
  <2>2. new \in ConsentRows
    BY <1>2 DEF WrittenOver, ConsentRows
  <2>3. row \in WritingRows /\ row.at = "answer" /\ row.decision = k
    BY <1>1 DEF WritingRows
  <2>4. Governing(k) => new = [status |-> decisions[k].status, withdrawn |-> decisions[k].status = "withdrawn"]
    <3> SUFFICES ASSUME Governing(k)
                 PROVE  new = [status |-> decisions[k].status, withdrawn |-> decisions[k].status = "withdrawn"]
      OBVIOUS
    <3>1. writing[c].saw = consents[v]
      BY <1>0, <1>1 DEF WrittenWell, Deciding
    <3> QED
      BY <1>2, <3>1 DEF WrittenOver, ConsentRows, ConsentAnswers
  <2> HIDE DEF row, new
  <2>5. /\ writing'[c] = row /\ writing' \in [ConsentCalls -> WritingRows]
        /\ \A o \in ConsentCalls \ {c} : writing'[o] = writing[o]
        /\ consents'[v] = new /\ consents' \in [PolicyVersions -> ConsentRows]
        /\ \A u \in PolicyVersions \ {v} : consents'[u] = consents[u]
    BY <1>0, <1>2, <2>1, <2>2, <2>3 DEF ConsentTyped
  <2>6. ConsentTyped'
    BY <1>0, <1>1, <2>1, <2>5 DEF ConsentTyped
  <2>7. \A e : Governing(e)' = Governing(e)
    BY <1>1 DEF Governing, Made
  <2>8. \A u : Made(u)' = Made(u)
    BY <1>1 DEF Made
  <2>9. \A e \in DOMAIN decisions : Governing(e) /\ decisions[e].version = v /\ e # k =>
          e > k /\ k \in recorded
    <3> SUFFICES ASSUME NEW e \in DOMAIN decisions, Governing(e), decisions[e].version = v, e # k
                 PROVE  e > k /\ k \in recorded
      OBVIOUS
    <3>1. k \in Made(v) /\ k \in Nat /\ e \in Nat
      BY <1>0, <1>1 DEF Made, ConsentTyped
    <3>2. k <= e
      BY <3>1 DEF Governing
    <3>3. k \in known
      BY <1>0, <3>1, <3>2 DEF Governing, ConsentSettled
    <3> QED
      BY <1>0, <3>1, <3>2, <3>3 DEF ConsentTyped
  <2>10. ASSUME NEW o \in ConsentCalls PROVE WrittenWell(o)'
    <3>1. CASE o = c
      BY <1>0, <1>1, <2>1, <2>3, <2>5, <3>1 DEF WrittenWell, ConsentTyped
    <3>2. CASE o # c
      <4>1. writing'[o] = writing[o] /\ WrittenWell(o)
        BY <1>0, <2>5, <3>2
      <4>2. writing[o].at \in {"read", "write"} => writing[o].decision # k
        BY <1>0, <1>1, <3>2 DEF WritersApart
      <4>3. writing[o].at = "write" /\ Governing(writing[o].decision) =>
              /\ decisions[writing[o].decision].version \in PolicyVersions
              /\ decisions[writing[o].decision].version # v
        <5> SUFFICES ASSUME writing[o].at = "write", Governing(writing[o].decision)
                     PROVE  /\ decisions[writing[o].decision].version \in PolicyVersions
                            /\ decisions[writing[o].decision].version # v
          OBVIOUS
        <5>1. writing[o].decision \in DOMAIN decisions /\ writing[o].decision # k
          BY <4>1, <4>2 DEF WrittenWell
        <5>2. decisions[writing[o].decision] \in DecisionRows
          BY <1>0, <5>1 DEF ConsentTyped
        <5> QED
          BY <1>1, <2>9, <5>1, <5>2 DEF DecisionRows
      <4> QED
        BY <1>1, <2>1, <2>5, <4>1, <4>2, <4>3 DEF WrittenWell, Deciding, Governing, Made
    <3> QED
      BY <3>1, <3>2
  <2>11. WritersApart'
    BY <1>0, <2>3, <2>5 DEF WritersApart
  <2>12. ASSUME NEW u \in PolicyVersions, Made(u)' = {} PROVE consents'[u] = NoConsent
    <3>1. k \in Made(v)
      BY <1>1 DEF Made
    <3>2. u # v /\ Made(u) = {}
      BY <2>8, <2>12, <3>1
    <3> QED
      BY <1>0, <2>5, <3>2 DEF ConsentSettled
  <2>13. ASSUME NEW e \in recorded', Governing(e)'
         PROVE  consents'[decisions'[e].version] =
                  [status |-> decisions'[e].status, withdrawn |-> decisions'[e].status = "withdrawn"]
    <3>1. Governing(e) /\ decisions' = decisions /\ e \in recorded \union {k}
      BY <1>1, <2>1, <2>7, <2>13
    <3>2. CASE e = k
      BY <2>4, <2>5, <3>1, <3>2
    <3>3. CASE e # k
      <4>1. e \in recorded /\ e \in DOMAIN decisions
        BY <1>0, <3>1, <3>3 DEF ConsentTyped
      <4>2. decisions[e].version # v
        BY <1>1, <2>9, <3>1, <3>3, <4>1
      <4>3. decisions[e].version \in PolicyVersions
        <5>1. decisions[e] \in DecisionRows
          BY <1>0, <4>1 DEF ConsentTyped
        <5> QED
          BY <5>1 DEF DecisionRows
      <4> QED
        BY <1>0, <2>5, <3>1, <4>1, <4>2, <4>3 DEF ConsentSettled
    <3> QED
      BY <3>2, <3>3
  <2>14. ConsentSettled'
    BY <1>0, <1>1, <2>8, <2>12, <2>13 DEF ConsentSettled
  <2> QED
    BY <1>1, <2>6, <2>10, <2>11, <2>14 DEF ConsentInv
<1> QED
  BY <1>3, <1>4

LEMMA RequestKeeps ==
  ASSUME ConsentInv, NEW c \in ConsentCalls,
         \/ ClaimKey(c) \/ ReadRow(c) \/ AnswerUser(c) \/ AbandonWrite(c)
         \/ \E d \in DOMAIN decisions : Ask(c, d)
  PROVE  ConsentInv'
<1>0. /\ writing[c] \in WritingRows /\ WrittenWell(c) /\ WritersApart
      /\ consents \in [PolicyVersions -> ConsentRows]
      /\ \A d \in DOMAIN decisions : decisions[d] \in DecisionRows /\ d \in Nat
  BY DEF ConsentInv, ConsentTyped
<1>1. AtRest \in WritingRows /\ AtRest.at = "rest" /\ AtRest.decision = 0
  BY DEF AtRest, WritingRows, NoConsent, ConsentRows
<1>2. ASSUME NEW d \in DOMAIN decisions, Ask(c, d) PROVE ConsentInv'
  <2> DEFINE row == [AtRest EXCEPT !.at = IF AlreadyDone(d) THEN "answer" ELSE "claim", !.decision = d]
  <2>1. row \in WritingRows /\ row.decision = d /\ row.at \in {"answer", "claim"}
        /\ (row.at = "answer" => d \in recorded)
    BY <1>0, <1>1 DEF AtRest, WritingRows, AlreadyDone
  <2>2. writing' = [writing EXCEPT ![c] = row] /\ UNCHANGED <<consents, inUse, recorded, decisions, known, begun>>
    BY <1>2 DEF Ask
  <2> HIDE DEF row
  <2> QED
    BY <2>1, <2>2, OneAsks
<1>3. CASE ClaimKey(c) /\ AlreadyDone(writing[c].decision)
  <2>1. writing' = [writing EXCEPT ![c] = AtRest] /\ UNCHANGED <<consents, inUse, recorded, decisions, known, begun>>
    BY <1>3 DEF ClaimKey
  <2> QED
    BY <1>1, <2>1, OneAsks
<1>4. CASE ClaimKey(c) /\ ~AlreadyDone(writing[c].decision)
  <2> DEFINE row == [writing[c] EXCEPT !.at = "read"]
  <2>1. row \in WritingRows /\ row.decision = writing[c].decision /\ row.at = "read"
    BY <1>0 DEF WritingRows
  <2>2. /\ writing' = [writing EXCEPT ![c] = row]
        /\ UNCHANGED <<consents, inUse, recorded, decisions, known, begun>>
        /\ writing[c].at = "claim"
        /\ \A o \in ConsentCalls : writing[o].at \in {"read", "write"} => writing[o].decision # writing[c].decision
    BY <1>4 DEF ClaimKey
  <2>3. writing[c].decision \in DOMAIN decisions /\ writing[c].decision \notin recorded
    BY <1>0, <1>4, <2>2 DEF WrittenWell, AlreadyDone
  <2> HIDE DEF row
  <2> QED
    BY <2>1, <2>2, <2>3, OneAsks
<1>5. CASE ReadRow(c)
  <2> DEFINE row == [writing[c] EXCEPT !.at = "write", !.saw = consents[Deciding(c).version]]
  <2>1. /\ writing' = [writing EXCEPT ![c] = row] /\ writing[c].at = "read"
        /\ UNCHANGED <<consents, inUse, recorded, decisions, known, begun>>
    BY <1>5 DEF ReadRow
  <2>2. writing[c].decision \in DOMAIN decisions /\ writing[c].decision \notin recorded
    BY <1>0, <2>1 DEF WrittenWell
  <2>3. row \in WritingRows /\ row.decision = writing[c].decision /\ row.at = "write"
        /\ row.saw = consents[decisions[writing[c].decision].version]
    BY <1>0, <2>2 DEF WritingRows, DecisionRows, Deciding
  <2>4. \A o \in ConsentCalls \ {c} : writing[o].at \in {"read", "write"} => writing[o].decision # writing[c].decision
    BY <1>0, <2>1 DEF WritersApart
  <2> HIDE DEF row
  <2> QED
    BY <2>1, <2>2, <2>3, <2>4, OneAsks
<1>6. CASE AnswerUser(c)
  BY <1>1, <1>6, OneAsks DEF AnswerUser
<1>7. CASE AbandonWrite(c)
  BY <1>1, <1>7, OneAsks DEF AbandonWrite
<1> QED
  BY <1>2, <1>3, <1>4, <1>5, <1>6, <1>7

\* The last word on a version is that of the last decision on it.
LEMMA LastWordIs ==
  ASSUME ConsentInv, NEW v \in PolicyVersions, Made(v) # {}
  PROVE  \E d \in Made(v) :
           /\ \A e \in Made(v) : e <= d
           /\ LastWord(v) = IF decisions[d].alone /\ d \in known THEN decisions[d].status ELSE "open"
<1>1. decisions \in Seq(DecisionRows) /\ Len(decisions) \in Nat
      /\ Made(v) \subseteq 0 .. Len(decisions)
  BY DEF ConsentInv, ConsentTyped, Made
<1>2. PICK d \in Made(v) : \A e \in Made(v) : e <= d
  BY <1>1, GreatestNat
<1> DEFINE m == CHOOSE x \in Made(v) : \A e \in Made(v) : e <= x
<1>3. m \in Made(v) /\ \A e \in Made(v) : e <= m
  BY <1>2
<1>4. LastWord(v) = IF decisions[m].alone /\ m \in known THEN decisions[m].status ELSE "open"
  BY DEF LastWord
<1> QED
  BY <1>3, <1>4

\* What LastWord says of the row.
LEMMA LastWordGoverns ==
  ASSUME ConsentInv, NEW v \in PolicyVersions
  PROVE  /\ LastWord(v) \in ConsentAnswers \union {"none", "open"}
         /\ LastWord(v) = "none" => consents[v] = NoConsent
         /\ LastWord(v) \in ConsentAnswers =>
              consents[v] = [status |-> LastWord(v), withdrawn |-> LastWord(v) = "withdrawn"]
<1>1. CASE Made(v) = {}
  BY <1>1 DEF LastWord, ConsentInv, ConsentSettled, ConsentAnswers
<1>2. CASE Made(v) # {}
  <2>1. PICK d \in Made(v) :
          /\ \A e \in Made(v) : e <= d
          /\ LastWord(v) = IF decisions[d].alone /\ d \in known THEN decisions[d].status ELSE "open"
    BY <1>2, LastWordIs
  <2>2. d \in DOMAIN decisions /\ decisions[d].version = v /\ decisions[d].status \in ConsentAnswers
    <3>1. d \in DOMAIN decisions /\ decisions[d].version = v /\ decisions[d] \in DecisionRows
      BY DEF Made, ConsentInv, ConsentTyped
    <3> QED
      BY <3>1 DEF DecisionRows
  <2>3. decisions[d].alone => Governing(d)
    BY <2>1, <2>2 DEF Governing
  <2>4. known \subseteq recorded
    BY DEF ConsentInv, ConsentTyped
  <2>5. CASE decisions[d].alone /\ d \in known
    <3>1. LastWord(v) = decisions[d].status
      BY <2>1, <2>5
    <3>2. consents[v] = [status |-> decisions[d].status, withdrawn |-> decisions[d].status = "withdrawn"]
      BY <2>2, <2>3, <2>4, <2>5 DEF ConsentInv, ConsentSettled
    <3> QED
      BY <2>2, <3>1, <3>2 DEF ConsentAnswers
  <2>6. CASE ~(decisions[d].alone /\ d \in known)
    <3>1. LastWord(v) = "open"
      BY <2>1, <2>6
    <3> QED
      BY <3>1 DEF ConsentAnswers
  <2> QED
    BY <2>5, <2>6
<1> QED
  BY <1>1, <1>2

LEMMA BeginWorkKeeps ==
  ASSUME ConsentInv, BeginWork \/ Deploy
  PROVE  ConsentInv'
<1>1. UNCHANGED <<consents, recorded, writing, decisions, known>>
  BY DEF BeginWork, Deploy
<1>2. ConsentTyped'
  BY <1>1 DEF ConsentInv, ConsentTyped, BeginWork, Deploy
<1>3. (\A c \in ConsentCalls : WrittenWell(c)') /\ WritersApart' /\ ConsentSettled'
  BY <1>1 DEF ConsentInv, WrittenWell, WritersApart, ConsentSettled, Deciding, Governing, Made
<1>4. begun' \subseteq PolicyVersions \X {"granted", "open"}
  <2>1. CASE BeginWork
    <3>1. inUse \in PolicyVersions /\ begun \subseteq PolicyVersions \X {"granted", "open"}
      BY DEF ConsentInv, ConsentTyped
    <3>2. consents[inUse].status = "granted" /\ begun' = begun \union {<<inUse, LastWord(inUse)>>}
      BY <2>1 DEF BeginWork, Permitted
    <3>3. LastWord(inUse) \in {"granted", "open"}
      <4>1. /\ LastWord(inUse) \in ConsentAnswers \union {"none", "open"}
            /\ LastWord(inUse) = "none" => consents[inUse] = NoConsent
            /\ LastWord(inUse) \in ConsentAnswers => consents[inUse].status = LastWord(inUse)
        <5>1. /\ LastWord(inUse) \in ConsentAnswers \union {"none", "open"}
              /\ LastWord(inUse) = "none" => consents[inUse] = NoConsent
              /\ LastWord(inUse) \in ConsentAnswers =>
                   consents[inUse] = [status |-> LastWord(inUse), withdrawn |-> LastWord(inUse) = "withdrawn"]
          BY <3>1, LastWordGoverns
        <5> QED
          BY <5>1
      <4>2. NoConsent.status = "none"
        BY DEF NoConsent
      <4> QED
        BY <3>2, <4>1, <4>2 DEF ConsentAnswers
    <3> QED
      BY <3>1, <3>2, <3>3
  <2>2. CASE Deploy
    BY <2>2 DEF Deploy, ConsentInv
  <2> QED
    BY <2>1, <2>2
<1> QED
  BY <1>2, <1>3, <1>4 DEF ConsentInv

LEMMA ConsentKeeps ==
  ASSUME ConsentInv, [ConsentNext]_consentVars
  PROVE  ConsentInv'
<1>1. CASE ConsentNext
  BY <1>1, DecideConsentKeeps, WriteRowKeeps, RequestKeeps, BeginWorkKeeps DEF ConsentNext
<1>2. CASE UNCHANGED consentVars
  <2>1. UNCHANGED <<consents, inUse, recorded, writing, decisions, known, begun>>
    BY <1>2 DEF consentVars
  <2> QED
    BY <2>1 DEF ConsentInv, ConsentTyped, WrittenWell, WritersApart, ConsentSettled, Deciding, Governing, Made
<1> QED
  BY <1>1, <1>2

LEMMA ConsentInvMeans ==
  ASSUME ConsentInv
  PROVE  ConsentTypeOK /\ ConsentGoverns
<1>1. ConsentTypeOK
  <2>1. ASSUME NEW c \in ConsentCalls
        PROVE  /\ writing[c].at \in {"rest", "claim", "read", "write", "answer"}
               /\ writing[c].decision \in {0} \union DOMAIN decisions /\ writing[c].saw \in ConsentRows
    BY DEF ConsentInv, ConsentTyped, WrittenWell, WritingRows
  <2>2. begun \subseteq PolicyVersions \X (ConsentAnswers \union {"none", "open"})
    BY DEF ConsentInv, ConsentAnswers
  <2> QED
    BY <2>1, <2>2 DEF ConsentInv, ConsentTyped, ConsentTypeOK
<1>2. \A v \in PolicyVersions :
       LastWord(v) \in ConsentAnswers =>
         consents[v] = [status |-> LastWord(v), withdrawn |-> LastWord(v) = "withdrawn"]
  BY LastWordGoverns
<1>3. \A work \in begun : work[2] \in {"granted", "open"}
  BY DEF ConsentInv
<1> QED
  BY <1>1, <1>2, <1>3 DEF ConsentGoverns

-----------------------------------------------------------------------------
(* Tokens.                                                                 *)

CheckSteps == {"none", "load", "discover", "fetch", "verify"} \union Verdicts
Verifiers == [at : CheckSteps, token : Tokens \union {NoCaller}, keys : SUBSET Kids, again : BOOLEAN]

TokenTyped ==
  /\ publishedKeys \subseteq Kids /\ clock \in 0 .. LastTick
  /\ verifier \in [Checks -> Verifiers]
  /\ offered \in [Checks -> SUBSET Kids] /\ withheld \in [Checks -> SUBSET Kids]
  /\ fetching \in Checks \union {NoCaller}

\* The history of a check that is under way contains the present, and its token was
\* compared with keys of that history.
CheckedInTime(c) ==
  verifier[c].at # "none" =>
    /\ verifier[c].token \in Tokens
    /\ publishedKeys \subseteq offered[c] /\ Kids \ publishedKeys \subseteq withheld[c]
    /\ verifier[c].keys \subseteq offered[c]
    /\ verifier[c].at \in {"verify", "valid"} => verifier[c].token.kid \in offered[c]
    /\ verifier[c].at = "valid" => verifier[c].token.signed
    /\ verifier[c].at = "unknown_key" => verifier[c].token.kid \in withheld[c]

TokenInv == TokenTyped /\ \A c \in Checks : CheckedInTime(c)

LEMMA TokenStarts ==
  ASSUME TokenInit
  PROVE  TokenInv
<1>1. NoCheck \in Verifiers /\ NoCheck.at = "none"
  BY DEF NoCheck, Verifiers, CheckSteps
<1>2. 0 \in 0 .. LastTick
  BY TokenAssumption
<1>3. TokenTyped
  BY <1>1, <1>2 DEF TokenInit, TokenTyped
<1>4. \A c \in Checks : CheckedInTime(c)
  BY <1>1 DEF TokenInit, CheckedInTime
<1> QED
  BY <1>3, <1>4 DEF TokenInv

\* A step of one check, which does not change what is published.
LEMMA OneChecks ==
  ASSUME TokenInv, NEW c \in Checks, NEW row \in Verifiers,
         verifier' = [verifier EXCEPT ![c] = row],
         fetching' \in Checks \union {NoCaller},
         UNCHANGED <<publishedKeys, clock>>,
         \/ UNCHANGED <<offered, withheld>>
         \/ \E o, w \in SUBSET Kids : /\ offered' = [offered EXCEPT ![c] = o]
                                      /\ withheld' = [withheld EXCEPT ![c] = w],
         CheckedInTime(c)'
  PROVE  TokenInv'
<1>1. TokenTyped'
  BY DEF TokenInv, TokenTyped
<1>2. ASSUME NEW b \in Checks, b # c PROVE CheckedInTime(b)'
  <2>1. verifier'[b] = verifier[b] /\ offered'[b] = offered[b] /\ withheld'[b] = withheld[b]
    BY <1>2 DEF TokenInv, TokenTyped
  <2> QED
    BY <2>1 DEF TokenInv, CheckedInTime
<1> QED
  BY <1>1, <1>2 DEF TokenInv

LEMMA RotateKeeps ==
  ASSUME TokenInv, NEW keys \in SUBSET Kids, Rotate(keys)
  PROVE  TokenInv'
<1>1. /\ publishedKeys' = keys /\ UNCHANGED <<clock, verifier, fetching>>
      /\ offered' = [c \in Checks |-> IF CheckAt(c, "none") THEN {} ELSE offered[c] \union keys]
      /\ withheld' = [c \in Checks |-> IF CheckAt(c, "none") THEN {}
                                       ELSE withheld[c] \union (Kids \ keys)]
  BY DEF Rotate
<1>2. TokenTyped'
  BY <1>1 DEF TokenInv, TokenTyped
<1>3. ASSUME NEW c \in Checks PROVE CheckedInTime(c)'
  BY <1>1 DEF TokenInv, CheckedInTime, CheckAt
<1> QED
  BY <1>2, <1>3 DEF TokenInv

LEMMA TickKeeps ==
  ASSUME TokenInv, TokenTick
  PROVE  TokenInv'
<1>1. TokenTyped'
  BY TokenAssumption DEF TokenInv, TokenTyped, TokenTick
<1>2. \A c \in Checks : CheckedInTime(c)'
  BY DEF TokenInv, CheckedInTime, TokenTick
<1> QED
  BY <1>1, <1>2 DEF TokenInv

LEMMA VerifierMoves ==
  ASSUME TokenInv, NEW c \in Checks, NEW step \in CheckSteps
  PROVE  /\ [verifier[c] EXCEPT !.at = step] \in Verifiers
         /\ verifier[c] \in Verifiers
BY DEF TokenInv, TokenTyped, Verifiers

LEMMA CheckKeeps ==
  ASSUME TokenInv, NEW c \in Checks,
         \/ LoadKeys(c) \/ Discover(c) \/ Fetch(c) \/ FetchFails(c) \/ VerifyToken(c)
         \/ TokenServed(c) \/ \E t \in Tokens : Present(c, t)
  PROVE  TokenInv'
<1> USE DEF CheckAt, Turns, world
<1>0. /\ verifier[c] \in Verifiers /\ CheckedInTime(c) /\ DOMAIN verifier = Checks
      /\ publishedKeys \in SUBSET Kids /\ offered[c] \in SUBSET Kids /\ withheld[c] \in SUBSET Kids
      /\ verifier \in [Checks -> Verifiers]
      /\ offered \in [Checks -> SUBSET Kids] /\ withheld \in [Checks -> SUBSET Kids]
      /\ fetching \in Checks \union {NoCaller}
  BY DEF TokenInv, TokenTyped
<1>1. CASE LoadKeys(c) /\ KeysAtHand(c) # {} /\ ~verifier[c].again
  <2> DEFINE row == [verifier[c] EXCEPT !.at = Looked(c, KeysAtHand(c)), !.again = TRUE]
  <2>1. /\ verifier' = [verifier EXCEPT ![c] = row]
        /\ verifier[c].at = "load"
        /\ UNCHANGED <<publishedKeys, clock, offered, withheld, fetching>>
    BY <1>0, <1>1 DEF LoadKeys
  <2>2. Looked(c, KeysAtHand(c)) = IF verifier[c].token.kid \in verifier[c].keys THEN "verify" ELSE "load"
    BY <1>1 DEF Looked, KeysAtHand
  <2>3. row \in Verifiers /\ row.token = verifier[c].token /\ row.keys = verifier[c].keys
        /\ row.at = Looked(c, KeysAtHand(c))
    BY <1>0, <2>2 DEF Verifiers, CheckSteps
  <2> HIDE DEF row
  <2>4. verifier'[c] = row
    BY <1>0, <2>1
  <2>5. CheckedInTime(c)'
    BY <1>0, <2>1, <2>2, <2>3, <2>4 DEF CheckedInTime
  <2> QED
    BY <1>0, <2>1, <2>3, <2>5, OneChecks
<1>2. CASE LoadKeys(c) /\ ~(KeysAtHand(c) # {} /\ ~verifier[c].again)
  <2>1. PICK step \in {"discover", "fetch"} :
          /\ verifier' = [verifier EXCEPT ![c] = [verifier[c] EXCEPT !.at = step]]
          /\ verifier[c].at = "load" /\ fetching' = c
          /\ UNCHANGED <<publishedKeys, clock, offered, withheld>>
    BY <1>0, <1>2 DEF LoadKeys
  <2>2. [verifier[c] EXCEPT !.at = step] \in Verifiers
    BY VerifierMoves DEF CheckSteps
  <2>3. CheckedInTime(c)'
    BY <1>0, <2>1 DEF CheckedInTime, Verifiers
  <2> QED
    BY <2>1, <2>2, <2>3, OneChecks
<1>3. CASE Discover(c)
  <2>1. /\ verifier' = [verifier EXCEPT ![c] = [verifier[c] EXCEPT !.at = "fetch"]]
        /\ verifier[c].at = "discover"
        /\ UNCHANGED <<publishedKeys, clock, offered, withheld, fetching>>
    BY <1>0, <1>3 DEF Discover
  <2>2. [verifier[c] EXCEPT !.at = "fetch"] \in Verifiers
    BY VerifierMoves DEF CheckSteps
  <2>3. CheckedInTime(c)'
    BY <1>0, <2>1 DEF CheckedInTime, Verifiers
  <2> QED
    BY <1>0, <2>1, <2>2, <2>3, OneChecks
<1>4. CASE Fetch(c)
  <2> DEFINE row == [verifier[c] EXCEPT !.keys = publishedKeys, !.again = TRUE,
                                        !.at = Looked(c, publishedKeys)]
  <2>1. /\ verifier' = [verifier EXCEPT ![c] = row]
        /\ verifier[c].at = "fetch" /\ fetching' = NoCaller
        /\ UNCHANGED <<publishedKeys, clock, offered, withheld>>
    BY <1>0, <1>4 DEF Fetch
  <2>2. /\ Looked(c, publishedKeys) \in {"verify", "unknown_key", "load"}
        /\ Looked(c, publishedKeys) = "verify" <=> verifier[c].token.kid \in publishedKeys
    BY DEF Looked
  <2>3. row \in Verifiers /\ row.token = verifier[c].token /\ row.keys = publishedKeys
        /\ row.at = Looked(c, publishedKeys)
    BY <1>0, <2>2 DEF Verifiers, CheckSteps, Verdicts
  <2> HIDE DEF row
  <2>4. verifier'[c] = row
    BY <1>0, <2>1
  <2>5. \A t \in Tokens : t.kid \in Kids
    BY TokenAssumption
  <2>6. CheckedInTime(c)'
    BY <1>0, <2>1, <2>2, <2>3, <2>4, <2>5 DEF CheckedInTime
  <2> QED
    BY <1>0, <2>1, <2>3, <2>6, OneChecks
<1>5. CASE FetchFails(c)
  <2>1. /\ verifier' = [verifier EXCEPT ![c] = [verifier[c] EXCEPT !.at = "unavailable"]]
        /\ verifier[c].at # "none" /\ fetching' = NoCaller
        /\ UNCHANGED <<publishedKeys, clock, offered, withheld>>
    BY <1>0, <1>5 DEF FetchFails
  <2>2. [verifier[c] EXCEPT !.at = "unavailable"] \in Verifiers
    BY VerifierMoves DEF CheckSteps, Verdicts
  <2>3. CheckedInTime(c)'
    BY <1>0, <2>1 DEF CheckedInTime, Verifiers
  <2> QED
    BY <2>1, <2>2, <2>3, OneChecks
<1>6. CASE VerifyToken(c)
  <2>1. PICK step \in {"valid", "invalid"} :
          /\ verifier' = [verifier EXCEPT ![c] = [verifier[c] EXCEPT !.at = step]]
          /\ verifier[c].at = "verify" /\ (step = "valid" => verifier[c].token.signed)
          /\ UNCHANGED <<publishedKeys, clock, offered, withheld, fetching>>
    BY <1>0, <1>6 DEF VerifyToken
  <2>2. [verifier[c] EXCEPT !.at = step] \in Verifiers
    BY VerifierMoves DEF CheckSteps, Verdicts
  <2>3. CheckedInTime(c)'
    BY <1>0, <2>1 DEF CheckedInTime, Verifiers
  <2> QED
    BY <1>0, <2>1, <2>2, <2>3, OneChecks
<1>7. CASE TokenServed(c)
  <2>1. NoCheck \in Verifiers /\ NoCheck.at = "none" /\ {} \in SUBSET Kids
    BY DEF NoCheck, Verifiers, CheckSteps
  <2>2. CheckedInTime(c)'
    BY <1>0, <1>7, <2>1 DEF TokenServed, CheckedInTime
  <2> QED
    BY <1>0, <1>7, <2>1, <2>2, OneChecks DEF TokenServed
<1>8. ASSUME NEW t \in Tokens, Present(c, t) PROVE TokenInv'
  <2> DEFINE row == [at |-> "load", token |-> t, keys |-> {}, again |-> FALSE]
  <2>1. row \in Verifiers
    BY DEF Verifiers, CheckSteps
  <2>2. CheckedInTime(c)'
    BY <1>0, <1>8 DEF Present, CheckedInTime
  <2>3. publishedKeys \in SUBSET Kids /\ Kids \ publishedKeys \in SUBSET Kids
    BY <1>0
  <2> QED
    BY <1>0, <1>8, <2>1, <2>2, <2>3, OneChecks DEF Present
<1> QED
  BY <1>1, <1>2, <1>3, <1>4, <1>5, <1>6, <1>7, <1>8

LEMMA TokenKeeps ==
  ASSUME TokenInv, [TokenNext]_tokenVars
  PROVE  TokenInv'
<1>1. CASE TokenNext
  BY <1>1, RotateKeeps, TickKeeps, CheckKeeps DEF TokenNext
<1>2. CASE UNCHANGED tokenVars
  BY <1>2 DEF tokenVars, TokenInv, TokenTyped, CheckedInTime
<1> QED
  BY <1>1, <1>2

LEMMA TokenInvMeans ==
  ASSUME TokenInv
  PROVE  TokenTypeOK /\ KeysAreCurrent
<1>1. TokenTypeOK
  BY DEF TokenInv, TokenTyped, CheckedInTime, TokenTypeOK, Verifiers, CheckSteps
<1>2. KeysAreCurrent
  BY DEF TokenInv, CheckedInTime, KeysAreCurrent, CheckAt
<1> QED
  BY <1>1, <1>2

-----------------------------------------------------------------------------
(* The rate limit.                                                         *)

\* The key under which the requests of a client for an operation are counted.
AskerKey(s) == <<s[1], s[2], <<s[3], s[4]>>>>

RateTyped ==
  /\ counter \in [RateKeys -> 0 .. MaxCount]
  /\ left \in [RateKeys -> 0 .. Window]
  /\ passed \in [AllAskers -> Nat]
  /\ since \in [AllAskers -> 0 .. Window]

\* A key lives as long as its window, and nobody has passed more often than it was counted.
PassedAreCounted ==
  /\ \A k \in RateKeys : counter[k] > 0 <=> left[k] > 0
  /\ \A s \in AllAskers : since[s] = left[AskerKey(s)] /\ passed[s] <= counter[AskerKey(s)]
  /\ \A q \in HttpRequests : \A s \in Askers(q) : passed[s] <= LimitFor(q)

RateInv == RateTyped /\ PassedAreCounted

\* Two requests that are counted under one key are of one client and one operation.
LEMMA AskersHaveKeys ==
  /\ \A s \in AllAskers : AskerKey(s) \in RateKeys
  /\ \A q \in HttpRequests :
       /\ KeysOf(q) \subseteq RateKeys /\ Askers(q) \subseteq AllAskers
       /\ \A s \in Askers(q) : AskerKey(s) \in KeysOf(q) /\ s[3] = q.method /\ s[4] = q.family
       /\ \A s \in AllAskers : AskerKey(s) \in KeysOf(q) => s \in Askers(q)
<1>1. ASSUME NEW q \in HttpRequests, NEW s \in Askers(q)
      PROVE  AskerKey(s) \in KeysOf(q) /\ s[3] = q.method /\ s[4] = q.family
  <2>1. CASE s = <<"ip", ClientIp(q), q.method, q.family>>
    BY <2>1 DEF AskerKey, KeysOf, ActionKey
  <2>2. CASE /\ q.token # NoValue
             /\ s = <<"principal", PrincipalIdentifier(q), q.method, q.family>>
    BY <2>2 DEF AskerKey, KeysOf, ActionKey
  <2> QED
    BY <2>1, <2>2 DEF Askers
<1>2. ASSUME NEW q \in HttpRequests
      PROVE  KeysOf(q) \subseteq RateKeys /\ Askers(q) \subseteq AllAskers
  BY DEF RateKeys, AllAskers
<1>3. ASSUME NEW q \in HttpRequests, NEW s \in AllAskers, AskerKey(s) \in KeysOf(q)
      PROVE  s \in Askers(q)
  <2>1. PICK r \in HttpRequests : s \in Askers(r)
    BY DEF AllAskers
  <2>2. PICK kind, who : kind \in {"ip", "principal"} /\ s = <<kind, who, r.method, r.family>>
    BY <2>1 DEF Askers
  <2>3. AskerKey(s) = <<kind, who, <<r.method, r.family>>>>
    BY <2>2 DEF AskerKey
  <2>4. CASE AskerKey(s) = <<"ip", ClientIp(q), <<q.method, q.family>>>>
    BY <2>2, <2>3, <2>4 DEF Askers
  <2>5. CASE /\ q.token # NoValue
             /\ AskerKey(s) = <<"principal", PrincipalIdentifier(q), <<q.method, q.family>>>>
    BY <2>2, <2>3, <2>5 DEF Askers
  <2> QED
    BY <1>3, <2>4, <2>5 DEF KeysOf, ActionKey
<1>4. ASSUME NEW s \in AllAskers PROVE AskerKey(s) \in RateKeys
  <2>1. PICK q \in HttpRequests : s \in Askers(q)
    BY DEF AllAskers
  <2> QED
    BY <1>1, <1>2, <2>1
<1> QED
  BY <1>1, <1>2, <1>3, <1>4

\* A limit belongs to the operation.
LEMMA LimitOfOperation ==
  /\ \A q \in HttpRequests : LimitFor(q) \in Nat
  /\ \A q, r \in HttpRequests : q.method = r.method /\ q.family = r.family => LimitFor(q) = LimitFor(r)
BY RateAssumption DEF LimitFor

LEMMA RateStarts ==
  ASSUME RateInit
  PROVE  RateInv
<1>1. MaxCount \in Nat /\ Window \in Nat
  BY RateAssumption
<1>2. RateTyped
  BY <1>1 DEF RateInit, RateTyped
<1>3. PassedAreCounted
  <2>1. \A k \in RateKeys : counter[k] = 0 /\ left[k] = 0
    BY DEF RateInit
  <2>2. \A s \in AllAskers : passed[s] = 0 /\ since[s] = 0
    BY DEF RateInit
  <2> QED
    BY <2>1, <2>2, AskersHaveKeys, LimitOfOperation DEF PassedAreCounted
<1> QED
  BY <1>2, <1>3 DEF RateInv

LEMMA ArriveKeeps ==
  ASSUME RateInv, NEW q \in HttpRequests, Arrive(q)
  PROVE  RateInv'
<1> USE DEF RateInv
<1>1. PICK answered \in BOOLEAN :
        /\ \A k \in KeysOf(q) : counter[k] < MaxCount
        /\ counter' = Raised(counter, KeysOf(q))
        /\ left' = Started(left, KeysOf(q))
        /\ since' = Started(since, Askers(q))
        /\ passed' = IF answered /\ Within(q) THEN Raised(passed, Askers(q)) ELSE passed
  BY DEF Arrive
<1> DEFINE passes == answered /\ Within(q)
<1>2. /\ counter' = [k \in RateKeys |-> IF k \in KeysOf(q) THEN counter[k] + 1 ELSE counter[k]]
      /\ left' = [k \in RateKeys |-> IF k \in KeysOf(q) /\ left[k] = 0 THEN Window ELSE left[k]]
      /\ since' = [s \in AllAskers |-> IF s \in Askers(q) /\ since[s] = 0 THEN Window ELSE since[s]]
  BY <1>1 DEF RateTyped, Raised, Started
<1>3. /\ passed' \in [AllAskers -> Nat]
      /\ \A s \in AllAskers : /\ passed'[s] \in {passed[s], passed[s] + 1}
                              /\ passed'[s] # passed[s] => passes /\ s \in Askers(q)
  <2>1. CASE passes
    <3>1. passed' = [s \in AllAskers |-> IF s \in Askers(q) THEN passed[s] + 1 ELSE passed[s]]
      BY <1>1, <2>1 DEF RateTyped, Raised
    <3> QED
      BY <2>1, <3>1 DEF RateTyped
  <2>2. CASE ~passes
    BY <1>1, <2>2 DEF RateTyped
  <2> QED
    BY <2>1, <2>2
<1> HIDE DEF passes
<1>4. Window \in Nat \ {0} /\ MaxCount \in Nat
  BY RateAssumption
<1>5. RateTyped'
  <2>1. counter' \in [RateKeys -> 0 .. MaxCount]
    BY <1>1, <1>2, <1>4 DEF RateTyped
  <2>2. left' \in [RateKeys -> 0 .. Window] /\ since' \in [AllAskers -> 0 .. Window]
    BY <1>2, <1>4 DEF RateTyped
  <2> QED
    BY <1>3, <2>1, <2>2 DEF RateTyped
<1>6. ASSUME NEW k \in RateKeys PROVE counter'[k] > 0 <=> left'[k] > 0
  <2>1. counter[k] \in Nat /\ left[k] \in Nat /\ (counter[k] > 0 <=> left[k] > 0)
    BY <1>4 DEF RateTyped, PassedAreCounted
  <2> QED
    BY <1>2, <1>4, <2>1
<1>7. ASSUME NEW s \in AllAskers
      PROVE  since'[s] = left'[AskerKey(s)] /\ passed'[s] <= counter'[AskerKey(s)]
  <2> DEFINE k == AskerKey(s)
  <2>1. k \in RateKeys /\ (s \in Askers(q) <=> k \in KeysOf(q))
    BY AskersHaveKeys
  <2>2. since[s] = left[k] /\ passed[s] <= counter[k]
    BY DEF PassedAreCounted
  <2>3. passed[s] \in Nat /\ counter[k] \in Nat
    BY <1>4, <2>1 DEF RateTyped
  <2> HIDE DEF k
  <2>4. since'[s] = left'[k]
    BY <1>2, <2>1, <2>2
  <2>5. passed'[s] <= counter'[k]
    BY <1>2, <1>3, <2>1, <2>2, <2>3
  <2> QED
    BY <2>4, <2>5 DEF k
<1>8. ASSUME NEW r \in HttpRequests, NEW s \in Askers(r) PROVE passed'[s] <= LimitFor(r)
  <2>1. s \in AllAskers /\ passed[s] \in Nat /\ passed[s] <= LimitFor(r) /\ LimitFor(r) \in Nat
    BY AskersHaveKeys, LimitOfOperation DEF RateTyped, PassedAreCounted
  <2>2. CASE passed'[s] = passed[s]
    BY <2>1, <2>2
  <2>3. CASE passed'[s] # passed[s]
    <3>1. passed'[s] = passed[s] + 1 /\ passes /\ s \in Askers(q)
      BY <1>3, <2>1, <2>3
    <3>2. LimitFor(q) = LimitFor(r)
      BY <3>1, AskersHaveKeys, LimitOfOperation
    <3>3. AskerKey(s) \in KeysOf(q) /\ AskerKey(s) \in RateKeys
      BY <3>1, AskersHaveKeys
    <3>4. counter[AskerKey(s)] < LimitFor(q) /\ passed[s] <= counter[AskerKey(s)]
      BY <2>1, <3>1, <3>3 DEF passes, Within, PassedAreCounted
    <3>5. counter[AskerKey(s)] \in Nat
      BY <1>4, <3>3 DEF RateTyped
    <3> QED
      BY <2>1, <3>1, <3>2, <3>4, <3>5
  <2> QED
    BY <2>2, <2>3
<1>9. PassedAreCounted'
  BY <1>6, <1>7, <1>8 DEF PassedAreCounted
<1> QED
  BY <1>5, <1>9

LEMMA ElapseKeeps ==
  ASSUME RateInv, Elapse
  PROVE  RateInv'
<1> USE DEF RateInv
<1>1. /\ left' = [k \in RateKeys |-> IF left[k] > 0 THEN left[k] - 1 ELSE 0]
      /\ counter' = [k \in RateKeys |-> IF left[k] = 1 THEN 0 ELSE counter[k]]
      /\ since' = [s \in AllAskers |-> IF since[s] > 0 THEN since[s] - 1 ELSE 0]
      /\ passed' = [s \in AllAskers |-> IF since[s] = 1 THEN 0 ELSE passed[s]]
  BY DEF Elapse, Ticked, Emptied, RateTyped
<1>2. Window \in Nat \ {0} /\ MaxCount \in Nat
  BY RateAssumption
<1>3. RateTyped'
  <2>1. counter' \in [RateKeys -> 0 .. MaxCount] /\ passed' \in [AllAskers -> Nat]
    BY <1>1, <1>2 DEF RateTyped
  <2>2. left' \in [RateKeys -> 0 .. Window] /\ since' \in [AllAskers -> 0 .. Window]
    BY <1>1, <1>2 DEF RateTyped
  <2> QED
    BY <2>1, <2>2 DEF RateTyped
<1>4. ASSUME NEW k \in RateKeys PROVE counter'[k] > 0 <=> left'[k] > 0
  <2>1. counter[k] \in Nat /\ left[k] \in Nat /\ (counter[k] > 0 <=> left[k] > 0)
    BY <1>2 DEF RateTyped, PassedAreCounted
  <2>2. /\ left'[k] = IF left[k] > 0 THEN left[k] - 1 ELSE 0
        /\ counter'[k] = IF left[k] = 1 THEN 0 ELSE counter[k]
    BY <1>1
  <2> QED
    BY <2>1, <2>2
<1>5. ASSUME NEW s \in AllAskers
      PROVE  /\ since'[s] = left'[AskerKey(s)] /\ passed'[s] <= counter'[AskerKey(s)]
             /\ passed'[s] <= passed[s] /\ passed[s] \in Nat /\ passed'[s] \in Nat
  <2> DEFINE k == AskerKey(s)
  <2>1. k \in RateKeys
    BY AskersHaveKeys
  <2>2. since[s] = left[k] /\ passed[s] <= counter[k]
    BY DEF PassedAreCounted
  <2>3. passed[s] \in Nat /\ counter[k] \in Nat /\ left[k] \in Nat
    BY <1>2, <2>1 DEF RateTyped
  <2> HIDE DEF k
  <2>4. /\ left'[k] = IF left[k] > 0 THEN left[k] - 1 ELSE 0
        /\ counter'[k] = IF left[k] = 1 THEN 0 ELSE counter[k]
        /\ since'[s] = IF since[s] > 0 THEN since[s] - 1 ELSE 0
        /\ passed'[s] = IF since[s] = 1 THEN 0 ELSE passed[s]
    BY <1>1, <2>1
  <2>5. since'[s] = left'[k] /\ passed'[s] <= counter'[k] /\ passed'[s] <= passed[s] /\ passed'[s] \in Nat
    BY <2>2, <2>3, <2>4
  <2> QED
    BY <2>3, <2>5 DEF k
<1>6. ASSUME NEW r \in HttpRequests, NEW s \in Askers(r) PROVE passed'[s] <= LimitFor(r)
  <2>1. s \in AllAskers /\ passed[s] <= LimitFor(r) /\ LimitFor(r) \in Nat
    BY AskersHaveKeys, LimitOfOperation DEF PassedAreCounted
  <2> QED
    BY <1>5, <2>1
<1>7. PassedAreCounted'
  BY <1>4, <1>5, <1>6 DEF PassedAreCounted
<1> QED
  BY <1>3, <1>7

LEMMA RateKeeps ==
  ASSUME RateInv, [RateNext]_rateVars
  PROVE  RateInv'
<1>1. CASE RateNext
  BY <1>1, ArriveKeeps, ElapseKeeps DEF RateNext
<1>2. CASE UNCHANGED rateVars
  BY <1>2 DEF rateVars, RateInv, RateTyped, PassedAreCounted
<1> QED
  BY <1>1, <1>2

LEMMA RateInvMeans ==
  ASSUME RateInv
  PROVE  RateTypeOK /\ LimitIsShared
BY DEF RateInv, RateTyped, PassedAreCounted, RateTypeOK, LimitIsShared

-----------------------------------------------------------------------------
(* The pool.                                                               *)

\* The invariant of the component that runs.
PoolInv ==
  /\ part \in Parts
  /\ part = "catalog" => CatalogInv
  /\ part = "trial" => TrialInv
  /\ part = "adjustment" => AdjustmentInv
  /\ part = "checkout" => CheckoutInv
  /\ part = "work" => WorkInv
  /\ part = "rollout" => RolloutInv
  /\ part = "job" => JobInv
  /\ part = "account" => AccountInv
  /\ part = "consent" => ConsentInv
  /\ part = "token" => TokenInv
  /\ part = "rate" => RateInv

LEMMA PoolStarts == Init => PoolInv
<1> SUFFICES ASSUME Init PROVE PoolInv
  OBVIOUS
<1>1. /\ part \in Parts
      /\ CatalogInit /\ TrialInit /\ AdjustmentInit /\ CheckoutInit /\ WorkInit /\ RolloutInit
      /\ OperationalJobInit /\ AccountInit /\ ConsentInit /\ TokenInit /\ RateInit
  BY DEF Init
<1> QED
  BY <1>1, CatalogStarts, TrialStarts, AdjustmentStarts, CheckoutStarts, WorkStarts, RolloutStarts,
     JobStarts, AccountStarts, ConsentStarts, TokenStarts, RateStarts DEF PoolInv

\* Of a step of the pool, a component sees a step of its own.
LEMMA OwnSteps ==
  ASSUME [Next]_allVars
  PROVE  /\ part' = part
         /\ part = "catalog" => [CatalogNext]_catalogVars
         /\ part = "trial" => [TrialNext]_trialVars
         /\ part = "adjustment" => [AdjustmentNext]_adjustmentVars
         /\ part = "checkout" => [CheckoutNext]_checkoutVars
         /\ part = "work" => [WorkNext]_workVars
         /\ part = "rollout" => [RolloutNext]_rolloutVars
         /\ part = "job" => [OperationalJobNext]_operationalJobVars
         /\ part = "account" => [AccountNext]_accountVars
         /\ part = "consent" => [ConsentNext]_consentVars
         /\ part = "token" => [TokenNext]_tokenVars
         /\ part = "rate" => [RateNext]_rateVars
<1>1. CASE UNCHANGED allVars
  BY <1>1 DEF allVars
<1>2. CASE Next
  <2>1. part' = part
    BY <1>2 DEF Next, Only
  <2>2. part = "catalog" => CatalogNext
    BY <1>2 DEF Next
  <2>3. part = "trial" => TrialNext
    BY <1>2 DEF Next
  <2>4. part = "adjustment" => AdjustmentNext
    BY <1>2 DEF Next
  <2>5. part = "checkout" => CheckoutNext
    BY <1>2 DEF Next
  <2>6. part = "work" => WorkNext
    BY <1>2 DEF Next
  <2>7. part = "rollout" => RolloutNext
    BY <1>2 DEF Next
  <2>8. part = "job" => OperationalJobNext
    BY <1>2 DEF Next
  <2>9. part = "account" => AccountNext
    BY <1>2 DEF Next
  <2>10. part = "consent" => ConsentNext
    BY <1>2 DEF Next
  <2>11. part = "token" => TokenNext
    BY <1>2 DEF Next
  <2>12. part = "rate" => RateNext
    BY <1>2 DEF Next
  <2> QED
    BY <2>1, <2>2, <2>3, <2>4, <2>5, <2>6, <2>7, <2>8, <2>9, <2>10, <2>11, <2>12
<1> QED
  BY <1>1, <1>2

LEMMA PoolKeeps ==
  ASSUME PoolInv, [Next]_allVars
  PROVE  PoolInv'
<1>1. ASSUME part = "catalog" PROVE CatalogInv'
  BY <1>1, OwnSteps, CatalogKeeps DEF PoolInv
<1>2. ASSUME part = "trial" PROVE TrialInv'
  BY <1>2, OwnSteps, TrialKeeps DEF PoolInv
<1>3. ASSUME part = "adjustment" PROVE AdjustmentInv'
  BY <1>3, OwnSteps, AdjustmentKeeps DEF PoolInv
<1>4. ASSUME part = "checkout" PROVE CheckoutInv'
  BY <1>4, OwnSteps, CheckoutKeeps DEF PoolInv
<1>5. ASSUME part = "work" PROVE WorkInv'
  BY <1>5, OwnSteps, WorkKeeps DEF PoolInv
<1>6. ASSUME part = "rollout" PROVE RolloutInv'
  BY <1>6, OwnSteps, RolloutKeeps DEF PoolInv
<1>7. ASSUME part = "job" PROVE JobInv'
  BY <1>7, OwnSteps, JobKeeps DEF PoolInv
<1>8. ASSUME part = "account" PROVE AccountInv'
  BY <1>8, OwnSteps, AccountKeeps DEF PoolInv
<1>9. ASSUME part = "consent" PROVE ConsentInv'
  BY <1>9, OwnSteps, ConsentKeeps DEF PoolInv
<1>10. ASSUME part = "token" PROVE TokenInv'
  BY <1>10, OwnSteps, TokenKeeps DEF PoolInv
<1>11. ASSUME part = "rate" PROVE RateInv'
  BY <1>11, OwnSteps, RateKeeps DEF PoolInv
<1> QED
  BY <1>1, <1>2, <1>3, <1>4, <1>5, <1>6, <1>7, <1>8, <1>9, <1>10, <1>11, OwnSteps DEF PoolInv

LEMMA PoolInvariantHolds == Spec => []PoolInv
BY PoolStarts, PoolKeeps, PTL DEF Spec

\* Every variable of the component that runs keeps its type: what the code may write into
\* a column, a counter or a list is in the range the others read it with.
THEOREM TypesStayCorrect == Spec => []TypeOK
<1>1. ASSUME PoolInv PROVE TypeOK
  <2>1. CASE part = "catalog"
    <3>1. CatalogTypeOK
      BY <1>1, <2>1, CatalogInvMeans DEF PoolInv
    <3> QED
      BY <2>1, <3>1 DEF TypeOK
  <2>2. CASE part = "trial"
    <3>1. TrialTypeOK
      BY <1>1, <2>2, TrialInvMeans DEF PoolInv
    <3> QED
      BY <2>2, <3>1 DEF TypeOK
  <2>3. CASE part = "adjustment"
    <3>1. AdjustmentTypeOK
      BY <1>1, <2>3, AdjustmentInvMeans DEF PoolInv
    <3> QED
      BY <2>3, <3>1 DEF TypeOK
  <2>4. CASE part = "checkout"
    <3>1. CheckoutTypeOK
      BY <1>1, <2>4, CheckoutInvMeans DEF PoolInv
    <3> QED
      BY <2>4, <3>1 DEF TypeOK
  <2>5. CASE part = "work"
    <3>1. WorkTypeOK
      BY <1>1, <2>5, WorkInvMeans DEF PoolInv
    <3> QED
      BY <2>5, <3>1 DEF TypeOK
  <2>6. CASE part = "rollout"
    <3>1. RolloutTypeOK
      BY <1>1, <2>6, RolloutInvMeans DEF PoolInv
    <3> QED
      BY <2>6, <3>1 DEF TypeOK
  <2>7. CASE part = "job"
    <3>1. OperationalJobTypeOK
      BY <1>1, <2>7, JobInvMeans DEF PoolInv
    <3> QED
      BY <2>7, <3>1 DEF TypeOK
  <2>8. CASE part = "account"
    <3>1. AccountTypeOK
      BY <1>1, <2>8, AccountInvMeans DEF PoolInv
    <3> QED
      BY <2>8, <3>1 DEF TypeOK
  <2>9. CASE part = "consent"
    <3>1. ConsentTypeOK
      BY <1>1, <2>9, ConsentInvMeans DEF PoolInv
    <3> QED
      BY <2>9, <3>1 DEF TypeOK
  <2>10. CASE part = "token"
    <3>1. TokenTypeOK
      BY <1>1, <2>10, TokenInvMeans DEF PoolInv
    <3> QED
      BY <2>10, <3>1 DEF TypeOK
  <2>11. CASE part = "rate"
    <3>1. RateTypeOK
      BY <1>1, <2>11, RateInvMeans DEF PoolInv
    <3> QED
      BY <2>11, <3>1 DEF TypeOK
  <2> QED
    BY <1>1, <2>1, <2>2, <2>3, <2>4, <2>5, <2>6, <2>7, <2>8, <2>9, <2>10, <2>11 DEF PoolInv, Parts
<1> QED
  BY <1>1, PoolInvariantHolds, PTL

\* FR-BILL-002, FR-BILL-004, FR-BILL-009, FR-ADMIN-005: one catalog is in force at every moment
\* from the first on, a user gets the trial once, a balance moves only by an adjustment that
\* was approved, and a payment finds the checkout it was made for (activate_catalog,
\* ensure_signup_trial, _apply_credit_adjustment, create_checkout and _payment_succeeded).
THEOREM BillingStaysAccounted == Spec => []BillingAccounted
<1>1. ASSUME PoolInv PROVE BillingAccounted
  <2>1. CASE part = "catalog"
    <3>1. OneCatalogAtATime
      BY <1>1, <2>1, CatalogInvMeans DEF PoolInv
    <3> QED
      BY <2>1, <3>1 DEF BillingAccounted
  <2>2. CASE part = "trial"
    <3>1. TrialOnce
      BY <1>1, <2>2, TrialInvMeans DEF PoolInv
    <3> QED
      BY <2>2, <3>1 DEF BillingAccounted
  <2>3. CASE part = "adjustment"
    <3>1. EffectsAuthorised
      BY <1>1, <2>3, AdjustmentInvMeans DEF PoolInv
    <3> QED
      BY <2>3, <3>1 DEF BillingAccounted
  <2>4. CASE part = "checkout"
    <3>1. PaymentsFindTheirCheckout
      BY <1>1, <2>4, CheckoutInvMeans DEF PoolInv
    <3> QED
      BY <2>4, <3>1 DEF BillingAccounted
  <2>5. CASE part \notin {"catalog", "trial", "adjustment", "checkout"}
    BY <2>5 DEF BillingAccounted
  <2> QED
    BY <2>1, <2>2, <2>3, <2>4, <2>5
<1> QED
  BY <1>1, PoolInvariantHolds, PTL

\* FR-ADMIN-002, FR-ADMIN-003, FR-AUTH-004: no canary serves without its baseline, a job is
\* executed and retried as often as was asked, and the story of every account and the audit
\* chain are whole (activate_model_configuration, retry_job and what follows, update_account_status).
THEOREM AdministrationStaysAccounted == Spec => []AdministrationAccounted
<1>1. ASSUME PoolInv PROVE AdministrationAccounted
  <2>1. CASE part = "rollout"
    <3>1. CanaryHasBaseline
      BY <1>1, <2>1, RolloutInvMeans DEF PoolInv
    <3> QED
      BY <2>1, <3>1 DEF AdministrationAccounted
  <2>2. CASE part = "job"
    <3>1. RetriesAccounted
      BY <1>1, <2>2, JobInvMeans DEF PoolInv
    <3> QED
      BY <2>2, <3>1 DEF AdministrationAccounted
  <2>3. CASE part = "account"
    <3>1. AccountsAreAccounted
      BY <1>1, <2>3, AccountInvMeans DEF PoolInv
    <3> QED
      BY <2>3, <3>1 DEF AdministrationAccounted
  <2>4. CASE part \notin {"rollout", "job", "account"}
    BY <2>4 DEF AdministrationAccounted
  <2> QED
    BY <2>1, <2>2, <2>3, <2>4
<1> QED
  BY <1>1, PoolInvariantHolds, PTL

\* FR-AUTH-001, FR-PROFILE-003, FR-PRIV-003, FR-OPS-003: a token is judged by keys the provider
\* had during the check, work begins under the consent last given, and the shared limit holds
\* for every client (OidcVerifier, write_consent and require_consent, DistributedRateLimitMiddleware).
THEOREM RequestsStayAdmitted == Spec => []RequestsAreAdmitted
<1>1. ASSUME PoolInv PROVE RequestsAreAdmitted
  <2>1. CASE part = "token"
    <3>1. KeysAreCurrent
      BY <1>1, <2>1, TokenInvMeans DEF PoolInv
    <3> QED
      BY <2>1, <3>1 DEF RequestsAreAdmitted
  <2>2. CASE part = "consent"
    <3>1. ConsentGoverns
      BY <1>1, <2>2, ConsentInvMeans DEF PoolInv
    <3> QED
      BY <2>2, <3>1 DEF RequestsAreAdmitted
  <2>3. CASE part = "rate"
    <3>1. LimitIsShared
      BY <1>1, <2>3, RateInvMeans DEF PoolInv
    <3> QED
      BY <2>3, <3>1 DEF RequestsAreAdmitted
  <2>4. CASE part \notin {"token", "consent", "rate"}
    BY <2>4 DEF RequestsAreAdmitted
  <2> QED
    BY <2>1, <2>2, <2>3, <2>4
<1> QED
  BY <1>1, PoolInvariantHolds, PTL

\* FR-BILL-005: see WorkIsPaidOnce (the idempotency records of requests that cost credits, and
\* the reservations of the analyses they start).
THEOREM RequestsStayPaidOnce == Spec => []RequestsArePaidOnce
<1>1. PoolInv => RequestsArePaidOnce
  BY WorkInvMeans DEF PoolInv, RequestsArePaidOnce
<1> QED
  BY <1>1, PoolInvariantHolds, PTL
=============================================================================
